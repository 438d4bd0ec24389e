--------------------------- MODULE EndingsProofs ---------------------------
(***************************************************************************)
(* Proofs about the deployment of Modelfile revisions, for every set of    *)
(* requests, plans and digests and every bound on changes, faults and      *)
(* crashes.                                                                *)
(*                                                                         *)
(* The inductive invariant says where control may be in each phase of the  *)
(* process, who may send what a plan has confirmed, whose abort a worker   *)
(* has seen, and what was found in the details of a model.                 *)
(*                                                                         *)
(* The second part is about the short mutations, for every set of jobs,    *)
(* every use that others make of the host, and commands that may or may    *)
(* not outlive their channel.  It goes by the name that MCEndings gives to *)
(* it, Short.                                                              *)
(***************************************************************************)
EXTENDS MCEndings, TLAPS

\* Requests and workers live in a process that serves, and only workers in one that closes;
\* reconciliations live in one that recovers.
PhaseOK ==
    /\ server = "up" =>
          \A j \in Jobs : pc[j] \in WorkerPC \cup StartingPC \cup {"idle", "checking"}
    /\ server = "closing" => \A j \in Jobs : pc[j] \in WorkerPC \cup {"idle"}
    /\ server \in {"down", "recovering"} =>
          /\ aborted = {}
          /\ \A j \in Jobs : pc[j] \in {"idle", "pending", "rec_read", "rec_details"}

\* Control is where the state of its job lets it be, and holds no more than it has read.
ControlOK ==
    \A j \in Jobs :
        /\ pc[j] = "checking" => state[j] = "absent"
        /\ state[j] = "absent" => pc[j] \in {"idle", "checking"}
        /\ pc[j] \in StartingPC => state[j] = "queued"
        /\ pc[j] \in WorkerPC => state[j] \in {"running", "cancelling"}
        /\ pc[j] \in {"rec_read", "rec_details"} => state[j] = "running"
        /\ pc[j] \notin {"details", "rec_details"} => shown[j] = Unread
        /\ pc[j] \in {"details", "rec_details"} => seen[j] \in Digests

\* Nothing is sent for a job before its route is known; a job knows its plan.
RequestOK ==
    \A j \in Jobs :
        /\ state[j] \in {"absent", "queued"} \/ pc[j] = "route" => remote[j] = "none"
        /\ pc[j] \in {"verify", "details"} => remote[j] = "done"
        /\ state[j] # "absent" \/ pc[j] = "checking" => planOf[j] \in Plans

\* Job j has consumed its plan, and may send, or has sent, what it confirms.
Sender(j) == pc[j] \in WorkerPC \cup {"consumed"} \/ remote[j] # "none"

\* No two jobs have consumed one plan.
PlanOK ==
    /\ \A j \in Jobs : Sender(j) => plan[planOf[j]] = "consumed"
    /\ \A j, k \in Jobs : Sender(j) /\ Sender(k) /\ planOf[j] = planOf[k] => j = k

\* A worker whose job is being cancelled or whose process is closing has been told so.
AbortOK ==
    \A j \in Jobs :
        pc[j] \in WorkerPC /\ (state[j] = "cancelling" \/ server = "closing") => j \in aborted

\* The details that a worker or a reconciliation has found to satisfy the revision are those
\* of the installed model, or of one that the create itself has replaced by the model it makes.
DetailsOK ==
    \A j \in Jobs :
        Undisturbed(j) /\ pc[j] \in {"details", "rec_details"} /\ shown[j] \in Satisfying[planOf[j]]
            => installed \in Satisfying[planOf[j]]

\* A job that waits for its audit record has ended, and only a job that has ended has one.
AuditOK ==
    \A j \in Jobs :
        /\ j \in auditing => state[j] \in TERMINAL_STATES /\ audited[j] = 0
        /\ state[j] \notin TERMINAL_STATES => audited[j] = 0

IInv ==
    /\ TypeOK /\ PhaseOK /\ ControlOK /\ RequestOK /\ PlanOK /\ AbortOK /\ DetailsOK /\ AuditOK
    /\ SuccessIsDeployed /\ AuditedOnce

-----------------------------------------------------------------------------
(* The inductive invariant.                                                *)

\* The initial states satisfy the inductive invariant.
LEMMA InitIInv == Init => IInv
<1> SUFFICES ASSUME Init PROVE IInv
  OBVIOUS
<1> USE CreateAssumption DEF Init, WorkerPC, StartingPC, TERMINAL_STATES
<1>1. TypeOK
  BY DEF TypeOK
<1>2. PhaseOK /\ ControlOK /\ RequestOK /\ AbortOK /\ AuditOK
  BY DEF PhaseOK, ControlOK, RequestOK, AbortOK, AuditOK
<1>3. PlanOK /\ DetailsOK
  BY DEF PlanOK, Sender, DetailsOK
<1>4. SuccessIsDeployed /\ AuditedOnce
  BY DEF SuccessIsDeployed, AuditedOnce
<1> QED BY <1>1, <1>2, <1>3, <1>4 DEF IInv

\* Every step keeps the types.
LEMMA TypeStep == ASSUME IInv, [Next]_vars PROVE TypeOK'
<1> USE CreateAssumption DEF dbVars, processVars, remoteVars, Goto, Fault, Finish, Fail, Succeed, Forget, Active,
           Calm, CanTransition, TRANSITIONS, ACTIVE_STATES, TERMINAL_STATES, WorkerPC, StartingPC,
           IInv, TypeOK, JobState, ErrorClass, ControlOK, RequestOK
<1>1. ASSUME NEW p \in Plans, CreatePlan(p) \/ Expire(p) PROVE TypeOK'
  BY <1>1 DEF CreatePlan, Expire
<1>2. ASSUME NEW j \in Jobs, NEW p \in Plans, Request(j, p) PROVE TypeOK'
  BY <1>2 DEF Request
<1>3. ASSUME NEW j \in Jobs, Accept(j) \/ Refuse(j) \/ Cancel(j) \/ Audit(j) PROVE TypeOK'
  BY <1>3 DEF Accept, Refuse, Cancel, Audit
<1>4. ASSUME NEW j \in Jobs, WorkerStep(j) PROVE TypeOK'
  <2>1. CASE Consume(j)
    BY <2>1 DEF Consume
  <2>2. CASE Run(j) \/ Observe(j)
    BY <2>2 DEF Run, Observe
  <2>3. CASE OpenStream(j) \/ StreamEnds(j)
    BY <2>3 DEF OpenStream, StreamEnds
  <2>4. CASE VerifyPresence(j)
    BY <2>4 DEF VerifyPresence
  <2>5. CASE ObserveDetails(j)
    BY <2>5 DEF ObserveDetails
  <2>6. CASE Mismatch(j)
    BY <2>6 DEF Mismatch
  <2>7. CASE Verified(j)
    BY <2>7 DEF Verified
  <2>8. CASE Catch(j)
    <3>1. faults' \in Nat
      BY <2>8 DEF Catch, Throws
    <3> QED
      BY <2>8, <3>1 DEF Catch
  <2> QED
    BY <1>4, <2>1, <2>2, <2>3, <2>4, <2>5, <2>6, <2>7, <2>8 DEF WorkerStep
<1>5. ASSUME NEW j \in Jobs, ReconcileStep(j) PROVE TypeOK'
  <2>1. CASE ReconcileUnobserved(j) \/ ReconcileRead(j)
    BY <2>1 DEF ReconcileUnobserved, ReconcileRead
  <2>2. CASE ReconcilePresence(j)
    BY <2>2 DEF ReconcilePresence
  <2>3. CASE ReconcileVerdict(j)
    BY <2>3 DEF ReconcileVerdict
  <2>4. CASE ReconcileFails(j)
    BY <2>4 DEF ReconcileFails
  <2> QED
    BY <1>5, <2>1, <2>2, <2>3, <2>4 DEF ReconcileStep
<1>6. ASSUME NEW j \in Jobs, RemoteStep(j) PROVE TypeOK'
  BY <1>6 DEF RemoteStep, CreateCompletes, CreateStops
<1>7. CASE OthersChange
  BY <1>7 DEF OthersChange
<1>8. CASE Shutdown \/ Exit \/ Crash \/ Restart \/ Listen
  BY <1>8 DEF Shutdown, Exit, Crash, Stopped, Restart, Listen
<1>9. CASE UNCHANGED vars
  BY <1>9 DEF vars
<1> QED BY <1>1, <1>2, <1>3, <1>4, <1>5, <1>6, <1>7, <1>8, <1>9 DEF Next

\* Every step keeps control where the phase of the process lets it be.
LEMMA PhaseStep == ASSUME IInv, [Next]_vars PROVE PhaseOK'
<1> USE CreateAssumption DEF dbVars, processVars, remoteVars, Goto, Fault, Finish, Fail, Succeed, Forget, Active,
           Calm, CanTransition, TRANSITIONS, ACTIVE_STATES, TERMINAL_STATES, WorkerPC, StartingPC,
           IInv, TypeOK, PhaseOK, ControlOK
<1>1. ASSUME NEW p \in Plans, CreatePlan(p) \/ Expire(p) PROVE PhaseOK'
  BY <1>1 DEF CreatePlan, Expire
<1>2. ASSUME NEW j \in Jobs, NEW p \in Plans, Request(j, p) PROVE PhaseOK'
  BY <1>2 DEF Request
<1>3. ASSUME NEW j \in Jobs, Accept(j) \/ Refuse(j) \/ Cancel(j) \/ Audit(j) PROVE PhaseOK'
  BY <1>3 DEF Accept, Refuse, Cancel, Audit
<1>4. ASSUME NEW j \in Jobs, WorkerStep(j) PROVE PhaseOK'
  BY <1>4 DEF WorkerStep, Consume, Run, Observe, OpenStream, StreamEnds, VerifyPresence, ObserveDetails,
              Mismatch, Verified, Catch, Throws
<1>5. ASSUME NEW j \in Jobs, ReconcileStep(j) PROVE PhaseOK'
  BY <1>5 DEF ReconcileStep, ReconcileUnobserved, ReconcileRead, ReconcilePresence, ReconcileVerdict,
              ReconcileFails
<1>6. ASSUME NEW j \in Jobs, RemoteStep(j) PROVE PhaseOK'
  BY <1>6 DEF RemoteStep, CreateCompletes, CreateStops
<1>7. CASE OthersChange
  BY <1>7 DEF OthersChange
<1>8. CASE Shutdown \/ Exit \/ Crash \/ Restart \/ Listen
  BY <1>8 DEF Shutdown, Exit, Crash, Stopped, Restart, Listen
<1>9. CASE UNCHANGED vars
  BY <1>9 DEF vars
<1> QED BY <1>1, <1>2, <1>3, <1>4, <1>5, <1>6, <1>7, <1>8, <1>9 DEF Next

\* Every step keeps control where the state of its job lets it be.
LEMMA ControlStep == ASSUME IInv, [Next]_vars PROVE ControlOK'
<1> USE CreateAssumption DEF dbVars, processVars, remoteVars, Goto, Fault, Finish, Fail, Succeed, Forget, Active,
           Calm, CanTransition, TRANSITIONS, ACTIVE_STATES, TERMINAL_STATES, WorkerPC, StartingPC,
           IInv, TypeOK, PhaseOK, ControlOK
<1>1. ASSUME NEW p \in Plans, CreatePlan(p) \/ Expire(p) PROVE ControlOK'
  BY <1>1 DEF CreatePlan, Expire
<1>2. ASSUME NEW j \in Jobs, NEW p \in Plans, Request(j, p) PROVE ControlOK'
  BY <1>2 DEF Request
<1>3. ASSUME NEW j \in Jobs, Accept(j) \/ Refuse(j) \/ Cancel(j) \/ Audit(j) PROVE ControlOK'
  BY <1>3 DEF Accept, Refuse, Cancel, Audit
<1>4. ASSUME NEW j \in Jobs, WorkerStep(j) PROVE ControlOK'
  BY <1>4 DEF WorkerStep, Consume, Run, Observe, OpenStream, StreamEnds, VerifyPresence, ObserveDetails,
              Mismatch, Verified, Catch, Throws
<1>5. ASSUME NEW j \in Jobs, ReconcileStep(j) PROVE ControlOK'
  BY <1>5 DEF ReconcileStep, ReconcileUnobserved, ReconcileRead, ReconcilePresence, ReconcileVerdict,
              ReconcileFails
<1>6. ASSUME NEW j \in Jobs, RemoteStep(j) PROVE ControlOK'
  BY <1>6 DEF RemoteStep, CreateCompletes, CreateStops
<1>7. CASE OthersChange
  BY <1>7 DEF OthersChange
<1>8. CASE Shutdown \/ Exit \/ Crash \/ Restart \/ Listen
  BY <1>8 DEF Shutdown, Exit, Crash, Stopped, Restart, Listen
<1>9. CASE UNCHANGED vars
  BY <1>9 DEF vars
<1> QED BY <1>1, <1>2, <1>3, <1>4, <1>5, <1>6, <1>7, <1>8, <1>9 DEF Next

\* Every step keeps what is known of the requests.
LEMMA RequestStep == ASSUME IInv, [Next]_vars PROVE RequestOK'
<1> USE CreateAssumption DEF dbVars, processVars, remoteVars, Goto, Fault, Finish, Fail, Succeed, Forget, Active,
           Calm, CanTransition, TRANSITIONS, ACTIVE_STATES, TERMINAL_STATES, WorkerPC, StartingPC,
           IInv, TypeOK, PhaseOK, ControlOK, RequestOK
<1>1. ASSUME NEW p \in Plans, CreatePlan(p) \/ Expire(p) PROVE RequestOK'
  BY <1>1 DEF CreatePlan, Expire
<1>2. ASSUME NEW j \in Jobs, NEW p \in Plans, Request(j, p) PROVE RequestOK'
  BY <1>2 DEF Request
<1>3. ASSUME NEW j \in Jobs, Accept(j) \/ Refuse(j) \/ Cancel(j) \/ Audit(j) PROVE RequestOK'
  BY <1>3 DEF Accept, Refuse, Cancel, Audit
<1>4. ASSUME NEW j \in Jobs, WorkerStep(j) PROVE RequestOK'
  BY <1>4 DEF WorkerStep, Consume, Run, Observe, OpenStream, StreamEnds, VerifyPresence, ObserveDetails,
              Mismatch, Verified, Catch, Throws
<1>5. ASSUME NEW j \in Jobs, ReconcileStep(j) PROVE RequestOK'
  BY <1>5 DEF ReconcileStep, ReconcileUnobserved, ReconcileRead, ReconcilePresence, ReconcileVerdict,
              ReconcileFails
<1>6. ASSUME NEW j \in Jobs, RemoteStep(j) PROVE RequestOK'
  BY <1>6 DEF RemoteStep, CreateCompletes, CreateStops
<1>7. CASE OthersChange
  BY <1>7 DEF OthersChange
<1>8. CASE Shutdown \/ Exit \/ Crash \/ Restart \/ Listen
  BY <1>8 DEF Shutdown, Exit, Crash, Stopped, Restart, Listen
<1>9. CASE UNCHANGED vars
  BY <1>9 DEF vars
<1> QED BY <1>1, <1>2, <1>3, <1>4, <1>5, <1>6, <1>7, <1>8, <1>9 DEF Next

\* No step lets two jobs have one plan.
LEMMA PlanStep == ASSUME IInv, [Next]_vars PROVE PlanOK'
<1> USE CreateAssumption DEF dbVars, processVars, remoteVars, Goto, Fault, Finish, Fail, Succeed, Forget, Active,
           Calm, CanTransition, TRANSITIONS, ACTIVE_STATES, TERMINAL_STATES, WorkerPC, StartingPC,
           IInv, TypeOK, PhaseOK, ControlOK, RequestOK, PlanOK, Sender
<1>1. ASSUME NEW p \in Plans, CreatePlan(p) \/ Expire(p) PROVE PlanOK'
  BY <1>1 DEF CreatePlan, Expire
<1>2. ASSUME NEW j \in Jobs, NEW p \in Plans, Request(j, p) PROVE PlanOK'
  BY <1>2 DEF Request
<1>3. ASSUME NEW j \in Jobs, Accept(j) \/ Refuse(j) \/ Cancel(j) \/ Audit(j) PROVE PlanOK'
  BY <1>3 DEF Accept, Refuse, Cancel, Audit
<1>4. ASSUME NEW j \in Jobs, WorkerStep(j) PROVE PlanOK'
  BY <1>4 DEF WorkerStep, Consume, Run, Observe, OpenStream, StreamEnds, VerifyPresence, ObserveDetails,
              Mismatch, Verified, Catch, Throws
<1>5. ASSUME NEW j \in Jobs, ReconcileStep(j) PROVE PlanOK'
  BY <1>5 DEF ReconcileStep, ReconcileUnobserved, ReconcileRead, ReconcilePresence, ReconcileVerdict,
              ReconcileFails
<1>6. ASSUME NEW j \in Jobs, RemoteStep(j) PROVE PlanOK'
  BY <1>6 DEF RemoteStep, CreateCompletes, CreateStops
<1>7. CASE OthersChange
  BY <1>7 DEF OthersChange
<1>8. CASE Shutdown \/ Exit \/ Crash \/ Restart \/ Listen
  BY <1>8 DEF Shutdown, Exit, Crash, Stopped, Restart, Listen
<1>9. CASE UNCHANGED vars
  BY <1>9 DEF vars
<1> QED BY <1>1, <1>2, <1>3, <1>4, <1>5, <1>6, <1>7, <1>8, <1>9 DEF Next

\* Every step tells the workers of a cancellation or a shutdown.
LEMMA AbortStep == ASSUME IInv, [Next]_vars PROVE AbortOK'
<1> USE CreateAssumption DEF dbVars, processVars, remoteVars, Goto, Fault, Finish, Fail, Succeed, Forget, Active,
           Calm, CanTransition, TRANSITIONS, ACTIVE_STATES, TERMINAL_STATES, WorkerPC, StartingPC,
           IInv, TypeOK, PhaseOK, ControlOK, AbortOK
<1>1. ASSUME NEW p \in Plans, CreatePlan(p) \/ Expire(p) PROVE AbortOK'
  BY <1>1 DEF CreatePlan, Expire
<1>2. ASSUME NEW j \in Jobs, NEW p \in Plans, Request(j, p) PROVE AbortOK'
  BY <1>2 DEF Request
<1>3. ASSUME NEW j \in Jobs, Accept(j) \/ Refuse(j) \/ Cancel(j) \/ Audit(j) PROVE AbortOK'
  BY <1>3 DEF Accept, Refuse, Cancel, Audit
<1>4. ASSUME NEW j \in Jobs, WorkerStep(j) PROVE AbortOK'
  BY <1>4 DEF WorkerStep, Consume, Run, Observe, OpenStream, StreamEnds, VerifyPresence, ObserveDetails,
              Mismatch, Verified, Catch, Throws
<1>5. ASSUME NEW j \in Jobs, ReconcileStep(j) PROVE AbortOK'
  BY <1>5 DEF ReconcileStep, ReconcileUnobserved, ReconcileRead, ReconcilePresence, ReconcileVerdict,
              ReconcileFails
<1>6. ASSUME NEW j \in Jobs, RemoteStep(j) PROVE AbortOK'
  BY <1>6 DEF RemoteStep, CreateCompletes, CreateStops
<1>7. CASE OthersChange
  BY <1>7 DEF OthersChange
<1>8. CASE Shutdown \/ Exit \/ Crash \/ Restart \/ Listen
  BY <1>8 DEF Shutdown, Exit, Crash, Stopped, Restart, Listen
<1>9. CASE UNCHANGED vars
  BY <1>9 DEF vars
<1> QED BY <1>1, <1>2, <1>3, <1>4, <1>5, <1>6, <1>7, <1>8, <1>9 DEF Next

\* Every step keeps what was found in the details true.
LEMMA DetailsStep == ASSUME IInv, [Next]_vars PROVE DetailsOK'
<1> USE CreateAssumption DEF dbVars, processVars, remoteVars, Goto, Fault, Finish, Fail, Succeed, Forget, Active,
           Calm, CanTransition, TRANSITIONS, ACTIVE_STATES, TERMINAL_STATES, WorkerPC, StartingPC,
           IInv, TypeOK, PhaseOK, ControlOK, RequestOK, DetailsOK, Undisturbed
<1>1. ASSUME NEW p \in Plans, CreatePlan(p) \/ Expire(p) PROVE DetailsOK'
  BY <1>1 DEF CreatePlan, Expire
<1>2. ASSUME NEW j \in Jobs, NEW p \in Plans, Request(j, p) PROVE DetailsOK'
  BY <1>2 DEF Request
<1>3. ASSUME NEW j \in Jobs, Accept(j) \/ Refuse(j) \/ Cancel(j) \/ Audit(j) PROVE DetailsOK'
  BY <1>3 DEF Accept, Refuse, Cancel, Audit
<1>4. ASSUME NEW j \in Jobs, WorkerStep(j) PROVE DetailsOK'
  BY <1>4 DEF WorkerStep, Consume, Run, Observe, OpenStream, StreamEnds, VerifyPresence, ObserveDetails,
              Mismatch, Verified, Catch, Throws
<1>5. ASSUME NEW j \in Jobs, ReconcileStep(j) PROVE DetailsOK'
  BY <1>5 DEF ReconcileStep, ReconcileUnobserved, ReconcileRead, ReconcilePresence, ReconcileVerdict,
              ReconcileFails
<1>6. ASSUME NEW j \in Jobs, RemoteStep(j) PROVE DetailsOK'
  BY <1>6 DEF RemoteStep, CreateCompletes, CreateStops
<1>7. CASE OthersChange
  BY <1>7 DEF OthersChange
<1>8. CASE Shutdown \/ Exit \/ Crash \/ Restart \/ Listen
  BY <1>8 DEF Shutdown, Exit, Crash, Stopped, Restart, Listen
<1>9. CASE UNCHANGED vars
  BY <1>9 DEF vars
<1> QED BY <1>1, <1>2, <1>3, <1>4, <1>5, <1>6, <1>7, <1>8, <1>9 DEF Next

\* Every step keeps audit records and ends in agreement.
LEMMA AuditStep == ASSUME IInv, [Next]_vars PROVE AuditOK'
<1> USE CreateAssumption DEF dbVars, processVars, remoteVars, Goto, Fault, Finish, Fail, Succeed, Forget, Active,
           Calm, CanTransition, TRANSITIONS, ACTIVE_STATES, TERMINAL_STATES, WorkerPC, StartingPC,
           IInv, TypeOK, ControlOK, AuditOK
<1>1. ASSUME NEW p \in Plans, CreatePlan(p) \/ Expire(p) PROVE AuditOK'
  BY <1>1 DEF CreatePlan, Expire
<1>2. ASSUME NEW j \in Jobs, NEW p \in Plans, Request(j, p) PROVE AuditOK'
  BY <1>2 DEF Request
<1>3. ASSUME NEW j \in Jobs, Accept(j) \/ Refuse(j) \/ Cancel(j) \/ Audit(j) PROVE AuditOK'
  BY <1>3 DEF Accept, Refuse, Cancel, Audit
<1>4. ASSUME NEW j \in Jobs, WorkerStep(j) PROVE AuditOK'
  BY <1>4 DEF WorkerStep, Consume, Run, Observe, OpenStream, StreamEnds, VerifyPresence, ObserveDetails,
              Mismatch, Verified, Catch, Throws
<1>5. ASSUME NEW j \in Jobs, ReconcileStep(j) PROVE AuditOK'
  BY <1>5 DEF ReconcileStep, ReconcileUnobserved, ReconcileRead, ReconcilePresence, ReconcileVerdict,
              ReconcileFails
<1>6. ASSUME NEW j \in Jobs, RemoteStep(j) PROVE AuditOK'
  BY <1>6 DEF RemoteStep, CreateCompletes, CreateStops
<1>7. CASE OthersChange
  BY <1>7 DEF OthersChange
<1>8. CASE Shutdown \/ Exit \/ Crash \/ Restart \/ Listen
  BY <1>8 DEF Shutdown, Exit, Crash, Stopped, Restart, Listen
<1>9. CASE UNCHANGED vars
  BY <1>9 DEF vars
<1> QED BY <1>1, <1>2, <1>3, <1>4, <1>5, <1>6, <1>7, <1>8, <1>9 DEF Next

\* No step records a success without its model.
LEMMA DeployedStep == ASSUME IInv, [Next]_vars PROVE SuccessIsDeployed'
<1> USE CreateAssumption DEF dbVars, processVars, remoteVars, Goto, Fault, Finish, Fail, Succeed, Forget, Active,
           Calm, CanTransition, TRANSITIONS, ACTIVE_STATES, TERMINAL_STATES, WorkerPC, StartingPC,
           IInv, TypeOK, PhaseOK, ControlOK, RequestOK, DetailsOK, SuccessIsDeployed, Undisturbed
<1>1. ASSUME NEW p \in Plans, CreatePlan(p) \/ Expire(p) PROVE SuccessIsDeployed'
  BY <1>1 DEF CreatePlan, Expire
<1>2. ASSUME NEW j \in Jobs, NEW p \in Plans, Request(j, p) PROVE SuccessIsDeployed'
  BY <1>2 DEF Request
<1>3. ASSUME NEW j \in Jobs, Accept(j) \/ Refuse(j) \/ Cancel(j) \/ Audit(j) PROVE SuccessIsDeployed'
  BY <1>3 DEF Accept, Refuse, Cancel, Audit
<1>4. ASSUME NEW j \in Jobs, WorkerStep(j) PROVE SuccessIsDeployed'
  BY <1>4 DEF WorkerStep, Consume, Run, Observe, OpenStream, StreamEnds, VerifyPresence, ObserveDetails,
              Mismatch, Verified, Catch, Throws
<1>5. ASSUME NEW j \in Jobs, ReconcileStep(j) PROVE SuccessIsDeployed'
  BY <1>5 DEF ReconcileStep, ReconcileUnobserved, ReconcileRead, ReconcilePresence, ReconcileVerdict,
              ReconcileFails
<1>6. ASSUME NEW j \in Jobs, RemoteStep(j) PROVE SuccessIsDeployed'
  BY <1>6 DEF RemoteStep, CreateCompletes, CreateStops
<1>7. CASE OthersChange
  BY <1>7 DEF OthersChange
<1>8. CASE Shutdown \/ Exit \/ Crash \/ Restart \/ Listen
  BY <1>8 DEF Shutdown, Exit, Crash, Stopped, Restart, Listen
<1>9. CASE UNCHANGED vars
  BY <1>9 DEF vars
<1> QED BY <1>1, <1>2, <1>3, <1>4, <1>5, <1>6, <1>7, <1>8, <1>9 DEF Next

\* No step loses or repeats an audit record, crashes aside.
LEMMA OnceStep == ASSUME IInv, [Next]_vars PROVE AuditedOnce'
<1> USE CreateAssumption DEF dbVars, processVars, remoteVars, Goto, Fault, Finish, Fail, Succeed, Forget, Active,
           Calm, CanTransition, TRANSITIONS, ACTIVE_STATES, TERMINAL_STATES, WorkerPC, StartingPC,
           IInv, TypeOK, ControlOK, AuditOK, AuditedOnce
<1>1. ASSUME NEW p \in Plans, CreatePlan(p) \/ Expire(p) PROVE AuditedOnce'
  BY <1>1 DEF CreatePlan, Expire
<1>2. ASSUME NEW j \in Jobs, NEW p \in Plans, Request(j, p) PROVE AuditedOnce'
  BY <1>2 DEF Request
<1>3. ASSUME NEW j \in Jobs, Accept(j) \/ Refuse(j) \/ Cancel(j) \/ Audit(j) PROVE AuditedOnce'
  BY <1>3 DEF Accept, Refuse, Cancel, Audit
<1>4. ASSUME NEW j \in Jobs, WorkerStep(j) PROVE AuditedOnce'
  BY <1>4 DEF WorkerStep, Consume, Run, Observe, OpenStream, StreamEnds, VerifyPresence, ObserveDetails,
              Mismatch, Verified, Catch, Throws
<1>5. ASSUME NEW j \in Jobs, ReconcileStep(j) PROVE AuditedOnce'
  BY <1>5 DEF ReconcileStep, ReconcileUnobserved, ReconcileRead, ReconcilePresence, ReconcileVerdict,
              ReconcileFails
<1>6. ASSUME NEW j \in Jobs, RemoteStep(j) PROVE AuditedOnce'
  BY <1>6 DEF RemoteStep, CreateCompletes, CreateStops
<1>7. CASE OthersChange
  BY <1>7 DEF OthersChange
<1>8. CASE Shutdown \/ Exit \/ Crash \/ Restart \/ Listen
  BY <1>8 DEF Shutdown, Exit, Crash, Stopped, Restart, Listen
<1>9. CASE UNCHANGED vars
  BY <1>9 DEF vars
<1> QED BY <1>1, <1>2, <1>3, <1>4, <1>5, <1>6, <1>7, <1>8, <1>9 DEF Next

-----------------------------------------------------------------------------
(* The theorems.                                                           *)

\* Every step keeps the inductive invariant.
LEMMA IInvStep == IInv /\ [Next]_vars => IInv'
  BY TypeStep, PhaseStep, ControlStep, RequestStep, PlanStep, AbortStep, DetailsStep, AuditStep,
     DeployedStep, OnceStep DEF IInv

\* Every behaviour satisfies the inductive invariant.
LEMMA InvariantHolds == Spec => []IInv
<1> QED BY InitIInv, IInvStep, PTL DEF Spec

\* Every variable keeps its type, in every interleaving of plans, starts, cancellations,
\* shutdowns and crashes.
THEOREM CreateTypeCorrect == Spec => []TypeOK
<1>1. IInv => TypeOK
  BY DEF IInv
<1> QED BY InvariantHolds, <1>1, PTL

\* What one plan has confirmed is sent for one job at most.
THEOREM PlansServeOnce == Spec => []PlanUsedOnce
<1>1. IInv => PlanUsedOnce
  BY DEF IInv, PlanOK, Sender, PlanUsedOnce
<1> QED BY InvariantHolds, <1>1, PTL

\* A job that has ended has one audit record, none if it never got hold of its plan or a crash
\* came in between.
THEOREM EndsAreAuditedOnce == Spec => []AuditedOnce
<1>1. IInv => AuditedOnce
  BY DEF IInv
<1> QED BY InvariantHolds, <1>1, PTL

\* No confirmation is used twice and no end is recorded twice.
THEOREM CreateInvariantHolds == Spec => []CreateInvariant
<1>1. IInv => CreateInvariant
  BY DEF IInv, PlanOK, Sender, PlanUsedOnce, CreateInvariant
<1> QED BY InvariantHolds, <1>1, PTL

\* Unless somebody else has touched the model, a create that is recorded as a success has left
\* a model that passes the verification, whoever recorded it.
THEOREM SuccessesAreDeployed == Spec => []SuccessIsDeployed
<1>1. IInv => SuccessIsDeployed
  BY DEF IInv
<1> QED BY InvariantHolds, <1>1, PTL

\* A create is sent by a process that is up, for a job that nobody has cancelled.
LEMMA SentWhileWanted ==
    ASSUME IInv, [Next]_vars, NEW j \in Jobs, remote[j] = "none", remote'[j] = "creating"
    PROVE  server = "up" /\ state[j] = "running"
<1> USE DEF IInv, TypeOK, dbVars, processVars, remoteVars
<1> DEFINE Wanted == server = "up" /\ state[j] = "running"
<1>1. ASSUME NEW k \in Jobs, OpenStream(k) PROVE Wanted
  <2>1. k = j /\ pc[j] = "route" /\ j \notin aborted
    BY <1>1 DEF OpenStream
  <2> QED BY <2>1 DEF AbortOK, ControlOK, PhaseOK, WorkerPC
<1>2. ASSUME NEW k \in Jobs, RemoteStep(k) PROVE Wanted
  BY <1>2 DEF RemoteStep, CreateCompletes, CreateStops
<1>3. CASE UNCHANGED remote
  BY <1>3
<1> QED BY <1>1, <1>2, <1>3
        DEF Next, CreatePlan, Expire, Request, Accept, Refuse, Cancel, Audit, WorkerStep, Consume, Run,
            Observe, StreamEnds, VerifyPresence, ObserveDetails, Mismatch, Verified, Catch,
            ReconcileStep, ReconcileUnobserved, ReconcileRead, ReconcilePresence, ReconcileVerdict,
            ReconcileFails, OthersChange, Shutdown, Exit, Crash, Stopped, Restart, Listen, vars

\* No create is sent for a job that is being cancelled, nor after a shutdown has begun.
THEOREM AbortsAreHeeded == Spec => AbortIsHeeded
<1>1. IInv /\ [Next]_vars =>
        \A j \in Jobs : remote[j] = "none" /\ remote'[j] = "creating"
            => server = "up" /\ state[j] = "running"
  BY SentWhileWanted
<1> QED BY InvariantHolds, <1>1, PTL DEF Spec, AbortIsHeeded

-----------------------------------------------------------------------------
(* Short mutations.                                                        *)

\* The lock admits one job, and control is somewhere exactly as long as it is active; without
\* a process that serves, only the reconciliation may go on.
LockOK ==
    /\ \A j, k \in Jobs : Short!Active(j) /\ Short!Active(k) => j = k
    /\ pc # "idle" <=> \E j \in Jobs : Short!Active(j)
    /\ server # "up" => pc \in {"idle", "pending"}

\* A command is awaited by the job that has sent it; only a smoke test is answered.
CommandsOK ==
    \A c \in commands :
        /\ c.awaited => Short!Active(c.job) /\ pc = "awaiting"
        /\ c.answering => kind[c.job] = "model-smoke-test"

\* The start that the metadata names is not later than the last one, and the last one is the
\* own one as soon as the command of a restart has ended.
StartsOK ==
    \A j \in Jobs : Short!Active(j) /\ Short!IsLifecycle(j) =>
        /\ pc \in {"issue", "awaiting"} => metadata[j].initialStartedAt <= startedAt
        /\ pc = "awaiting" /\ kind[j] = "container.restart" /\ Short!Awaited = {} =>
               metadata[j].initialStartedAt < startedAt

\* A success that is about to be reported has been audited.
VerifiedOK == \A j \in Jobs : Short!Active(j) /\ pc = "commit" => "verified" \in audits[j]

ShortInv == Short!TypeOK /\ LockOK /\ CommandsOK /\ StartsOK /\ VerifiedOK

\* The initial states satisfy the invariant.
LEMMA ShortInit == Short!Init => ShortInv
<1> SUFFICES ASSUME Short!Init PROVE ShortInv
  OBVIOUS
<1>1. Short!TypeOK
  BY DEF Short!Init, Short!TypeOK, Short!Metadata, Short!ProgramCounter, Short!HostDigests
<1>2. LockOK /\ CommandsOK /\ StartsOK /\ VerifiedOK
  BY DEF Short!Init, LockOK, CommandsOK, StartsOK, VerifiedOK, Short!Active,
     Short!ACTIVE_STATES
<1> QED
  BY <1>1, <1>2 DEF ShortInv

\* What is left when a request stops waiting.
LEMMA AbandonEffect ==
    ASSUME Short!TypeOK, Short!Abandon
    PROVE  /\ commands' \subseteq [job : {j \in Jobs : state[j] # "absent"},
                                    answering : BOOLEAN, awaited : BOOLEAN]
           /\ \A c \in commands' : /\ ~c.awaited
                                   /\ \E d \in commands : c.job = d.job /\ c.answering = d.answering
<1> DEFINE Known == [job : {j \in Jobs : state[j] # "absent"},
                     answering : BOOLEAN, awaited : BOOLEAN]
<1>1. commands \subseteq Known
  BY DEF Short!TypeOK
<1>2. ASSUME NEW c \in commands'
      PROVE  /\ c \in Known /\ ~c.awaited
             /\ \E d \in commands : c.job = d.job /\ c.answering = d.answering
  <2>1. CASE c \in commands \ Short!Awaited
    <3>1. ~c.awaited
      BY <2>1 DEF Short!Awaited
    <3> QED
      BY <1>1, <2>1, <3>1
  <2>2. ASSUME NEW d \in Short!Awaited, c = [d EXCEPT !.awaited = FALSE]
        PROVE  /\ c \in Known /\ ~c.awaited
               /\ d \in commands /\ c.job = d.job /\ c.answering = d.answering
    BY <1>1, <2>2 DEF Short!Awaited
  <2> QED
    BY <2>1, <2>2 DEF Short!Abandon
<1> QED
  BY <1>1, <1>2

\* The container is started or stopped; only a start counts.
LEMMA StartEffect ==
    ASSUME startedAt \in Nat
    PROVE  /\ Short!Started \/ Short!Stopped => /\ running' \in BOOLEAN /\ startedAt' \in Nat
                                   /\ startedAt <= startedAt' /\ loaded' = "none"
           /\ Short!Started => startedAt < startedAt'
<1>1. ASSUME Short!Started PROVE running' \in BOOLEAN /\ loaded' = "none"
  BY <1>1, Zenon DEF Short!Started
<1>2. ASSUME Short!Stopped PROVE running' \in BOOLEAN /\ loaded' = "none"
  BY <1>2, Zenon DEF Short!Stopped
<1>3. Short!Started => startedAt' = startedAt + 1
  BY DEF Short!Started
<1>4. Short!Stopped => startedAt' = startedAt
  BY DEF Short!Stopped
<1>5. Short!Started => startedAt' \in Nat /\ startedAt <= startedAt' /\ startedAt < startedAt'
  BY <1>3
<1> QED
  BY <1>1, <1>2, <1>4, <1>5

\* A command of the host keeps the invariant.
LEMMA HostKeeps == ASSUME ShortInv, Short!HostStep PROVE ShortInv'
<1> USE DEF Short!dbVars, Short!processVars, Short!bounds
<1>1. PICK c \in commands : \/ Short!DockerCommand(c) \/ Short!Unload(c)
                           \/ Short!Generate(c) \/ Short!GenerateEnds(c)
  BY DEF Short!HostStep
<1>2. /\ c.job \in Jobs /\ kind[c.job] \in Short!SHORT_KINDS /\ Short!TypeOK
      /\ c \in [job : {j \in Jobs : state[j] # "absent"}, answering : BOOLEAN, awaited : BOOLEAN]
  BY DEF ShortInv, Short!TypeOK
<1>3. UNCHANGED <<state, kind, metadata, audits, server, pc, installed>>
  BY <1>1 DEF Short!DockerCommand, Short!Unload, Short!Generate, Short!GenerateEnds
<1>4. /\ running' \in BOOLEAN /\ startedAt' \in Nat /\ loaded' \in Short!HostDigests
      /\ startedAt <= startedAt' /\ (~running' => loaded' = "none")
      /\ kind[c.job] = "container.restart" /\ Short!DockerCommand(c) => startedAt < startedAt'
  <2>1. /\ running \in BOOLEAN /\ startedAt \in Nat /\ {installed, loaded} \subseteq Short!HostDigests
        /\ "none" \in Short!HostDigests /\ (~running => loaded = "none")
    BY <1>2 DEF Short!TypeOK, Short!HostDigests
  <2>2. CASE Short!DockerCommand(c)
    <3>1. CASE Short!Started \/ Short!Stopped
      <4>1. kind[c.job] = "container.restart" => Short!Started
        BY <2>2 DEF Short!DockerCommand
      <4> QED
        BY <2>1, <3>1, <4>1, StartEffect
    <3>2. CASE kind[c.job] = "container.start" /\ UNCHANGED <<running, startedAt, loaded>>
      BY <2>1, <3>2
    <3>3. kind[c.job] \in {"container.start", "container.stop", "container.restart"}
      BY <2>2 DEF Short!DockerCommand, Short!IsLifecycle, Short!Lifecycle
    <3>4. \/ Short!Started \/ Short!Stopped
          \/ kind[c.job] = "container.start" /\ UNCHANGED <<running, startedAt, loaded>>
      BY <2>2, <3>3 DEF Short!DockerCommand
    <3> QED
      BY <3>1, <3>2, <3>4
  <2>3. CASE Short!Unload(c) \/ Short!Generate(c) \/ Short!GenerateEnds(c)
    <3>1. /\ running' = running /\ startedAt' = startedAt /\ running
          /\ loaded' \in {"none", installed}
      BY <2>3 DEF Short!Unload, Short!Generate, Short!GenerateEnds
    <3>2. kind[c.job] # "container.restart"
      BY <2>3 DEF ShortInv, CommandsOK, Short!Unload, Short!Generate, Short!GenerateEnds
    <3> QED
      BY <2>1, <3>1, <3>2
  <2> QED
    BY <1>1, <2>2, <2>3
<1>5. \A d \in commands' :
        \/ d \in commands /\ d # c
        \/ /\ d = [c EXCEPT !.answering = TRUE]
           /\ Short!Generate(c)
  BY <1>1 DEF Short!DockerCommand, Short!Unload, Short!Generate, Short!GenerateEnds
<1>6. Short!Generate(c) => [c EXCEPT !.answering = TRUE] \in commands'
  BY DEF Short!Generate
<1>7. \A d \in commands : d # c => d \in commands'
  BY <1>1 DEF Short!DockerCommand, Short!Unload, Short!Generate, Short!GenerateEnds
<1>8. Short!TypeOK'
  <2>1. ASSUME NEW d \in commands'
        PROVE  d \in [job : {j \in Jobs : state[j] # "absent"},
                      answering : BOOLEAN, awaited : BOOLEAN]
    <3>1. CASE d \in commands
      BY <1>2, <3>1 DEF Short!TypeOK
    <3>2. CASE d = [c EXCEPT !.answering = TRUE]
      BY <1>2, <3>2
    <3> QED
      BY <1>5, <2>1, <3>1, <3>2
  <2> QED
    BY <1>2, <1>3, <1>4, <2>1 DEF Short!TypeOK
<1>9. LockOK' /\ VerifiedOK'
  BY <1>3 DEF ShortInv, LockOK, VerifiedOK, Short!Active
<1>10. CommandsOK'
  BY <1>2, <1>3, <1>5 DEF ShortInv, CommandsOK, Short!Active, Short!Generate
<1>11. StartsOK'
  <2> SUFFICES ASSUME NEW j \in Jobs, Short!Active(j)', Short!IsLifecycle(j)'
               PROVE  /\ pc' \in {"issue", "awaiting"} =>
                             metadata'[j].initialStartedAt <= startedAt'
                      /\ /\ pc' = "awaiting" /\ kind'[j] = "container.restart"
                         /\ Short!Awaited' = {}
                         => metadata'[j].initialStartedAt < startedAt'
    BY DEF StartsOK
  <2>1. /\ Short!Active(j) /\ Short!IsLifecycle(j) /\ metadata[j].initialStartedAt \in Nat
        /\ startedAt \in Nat /\ StartsOK
    BY <1>2, <1>3 DEF Short!Active, Short!IsLifecycle, Short!TypeOK, Short!Metadata, ShortInv
  <2>2. pc' \in {"issue", "awaiting"} => metadata'[j].initialStartedAt <= startedAt'
    BY <1>3, <1>4, <2>1 DEF StartsOK
  <2>3. ASSUME pc = "awaiting", kind[j] = "container.restart", Short!Awaited' = {}
        PROVE  metadata[j].initialStartedAt < startedAt'
    <3>1. CASE Short!Awaited = {}
      BY <1>4, <2>1, <2>3, <3>1 DEF StartsOK
    <3>2. CASE Short!Awaited # {}
      <4>1. PICK d \in commands : d.awaited
        BY <3>2 DEF Short!Awaited
      <4>2. d = c
        BY <1>7, <2>3, <4>1 DEF Short!Awaited
      <4>3. c.job = j
        BY <1>2, <2>1, <4>1, <4>2 DEF ShortInv, CommandsOK, LockOK
      <4>4. Short!DockerCommand(c)
        <5>1. ~Short!Unload(c) /\ ~Short!Generate(c)
          BY <2>3, <4>3 DEF Short!Unload, Short!Generate
        <5>2. ~Short!GenerateEnds(c)
          BY <2>3, <4>3 DEF ShortInv, CommandsOK, Short!GenerateEnds
        <5> QED
          BY <1>1, <5>1, <5>2
      <4> QED
        BY <1>4, <2>1, <2>3, <4>3, <4>4 DEF StartsOK
    <3> QED
      BY <3>1, <3>2
  <2> QED
    BY <1>3, <2>2, <2>3
<1> QED
  BY <1>8, <1>9, <1>10, <1>11 DEF ShortInv

\* What others do on the host keeps the invariant.
LEMMA OthersKeep == ASSUME ShortInv, Short!OthersAct PROVE ShortInv'
<1> USE DEF Short!dbVars, Short!processVars
<1>1. UNCHANGED <<state, kind, metadata, audits, server, pc, commands>>
  BY DEF Short!OthersAct
<1>2. Short!TypeOK
  BY DEF ShortInv
<1>3. /\ running' \in BOOLEAN /\ startedAt' \in Nat /\ {loaded', installed'} \subseteq Short!HostDigests
      /\ startedAt <= startedAt' /\ (~running' => loaded' = "none")
  <2>1. /\ running \in BOOLEAN /\ startedAt \in Nat /\ {installed, loaded} \subseteq Short!HostDigests
        /\ {"none", Digest, OtherDigest} \subseteq Short!HostDigests /\ (~running => loaded = "none")
    BY <1>2 DEF Short!TypeOK, Short!HostDigests
  <2>2. CASE (Short!Stopped \/ Short!Started) /\ UNCHANGED installed
    BY <2>1, <2>2, StartEffect
  <2>3. CASE /\ UNCHANGED <<running, startedAt>> /\ running
             /\ {loaded', installed'} \subseteq Short!HostDigests
    BY <2>1, <2>3
  <2>4. \/ (Short!Stopped \/ Short!Started) /\ UNCHANGED installed
        \/ /\ UNCHANGED <<running, startedAt>> /\ running
           /\ {loaded', installed'} \subseteq Short!HostDigests
    BY <2>1 DEF Short!OthersAct
  <2> QED
    BY <2>2, <2>3, <2>4
<1>4. Short!TypeOK'
  BY <1>1, <1>2, <1>3 DEF Short!TypeOK
<1>5. LockOK' /\ VerifiedOK' /\ CommandsOK'
  BY <1>1 DEF ShortInv, LockOK, VerifiedOK, CommandsOK, Short!Active
<1>6. StartsOK'
  <2>1. \A j \in Jobs : metadata[j].initialStartedAt \in Nat
    BY <1>2 DEF Short!TypeOK, Short!Metadata
  <2>2. startedAt \in Nat
    BY <1>2 DEF Short!TypeOK
  <2> QED
    BY <1>1, <1>3, <2>1, <2>2 DEF ShortInv, StartsOK, Short!Active, Short!IsLifecycle,
       Short!Awaited
<1> QED
  BY <1>4, <1>5, <1>6 DEF ShortInv

\* Everything else leaves the host alone, and a command is sent or the wait for it ends.
LEMMA ProcessTypes ==
    ASSUME ShortInv,
           \/ \E j \in Jobs : Short!Execute(j) \/ Short!ExecuteStep(j) \/ Short!ReconcileStep(j)
           \/ Short!Crash \/ Short!Restart \/ Short!Listen
    PROVE  Short!TypeOK'
<1> USE DEF Short!hostVars, Short!bounds, Short!dbVars, Short!processVars
<1>t. /\ Short!TypeOK /\ state \in [Jobs -> Short!JobState \cup {"absent"}]
      /\ metadata \in [Jobs -> Short!Metadata] /\ audits \in [Jobs -> SUBSET Short!AuditRecord]
      /\ startedAt \in Nat
  BY DEF ShortInv, Short!TypeOK
<1>1. ASSUME NEW j \in Jobs, NEW s \in Short!JobState, Short!Transition(j, s) \/ UNCHANGED state
      PROVE  /\ state' \in [Jobs -> Short!JobState \cup {"absent"}]
             /\ \A k \in Jobs : state[k] # "absent" => state'[k] # "absent"
  BY <1>1, <1>t DEF Short!Transition, Short!JobState
<1>2. ASSUME NEW j \in Jobs, NEW r \in Short!AuditRecord, Short!Audit(j, r) \/ UNCHANGED audits
      PROVE  audits' \in [Jobs -> SUBSET Short!AuditRecord]
  BY <1>2, <1>t DEF Short!Audit
<1>3. UNCHANGED <<kind, running, startedAt, installed, loaded>>
  BY DEF Short!Execute, Short!ExecuteStep, Short!RunLifecycle, Short!RunModel,
     Short!Preflighted, Short!Issue, Short!VerifyLifecycle, Short!VerifyUnload,
     Short!VerifySmoke, Short!AuditVerified, Short!Succeed, Short!Throws, Short!Fail,
     Short!ReconcileStep, Short!ReconcileUnobserved, Short!ReconcileLifecycle,
     Short!ReconcileModel, Short!Reconciled, Short!Crash, Short!Restart, Short!Listen
<1>4. /\ state' \in [Jobs -> Short!JobState \cup {"absent"}]
      /\ \A k \in Jobs : state[k] # "absent" => state'[k] # "absent"
  BY <1>1, <1>t DEF Short!Execute, Short!ExecuteStep, Short!RunLifecycle, Short!RunModel,
     Short!Preflighted, Short!Issue, Short!VerifyLifecycle, Short!VerifyUnload,
     Short!VerifySmoke, Short!AuditVerified, Short!Succeed, Short!Throws, Short!Fail,
     Short!ReconcileStep, Short!ReconcileUnobserved, Short!ReconcileLifecycle,
     Short!ReconcileModel, Short!Reconciled, Short!Crash, Short!Restart, Short!Listen,
     Short!JobState
<1>5. metadata' \in [Jobs -> Short!Metadata]
  <2>1. ASSUME NEW j \in Jobs, Short!RunLifecycle(j) PROVE metadata' \in [Jobs -> Short!Metadata]
    BY <1>t, <2>1 DEF Short!RunLifecycle, Short!Metadata
  <2>2. ASSUME NEW j \in Jobs, Short!RunModel(j) \/ Short!Fail(j)
        PROVE  metadata' \in [Jobs -> Short!Metadata]
    BY <1>t, <2>2 DEF Short!RunModel, Short!Fail, Short!Metadata
  <2>3. CASE UNCHANGED metadata
    BY <1>t, <2>3
  <2> QED
    BY <2>1, <2>2, <2>3 DEF Short!Execute, Short!ExecuteStep, Short!Preflighted, Short!Issue,
       Short!VerifyLifecycle, Short!VerifyUnload, Short!VerifySmoke, Short!AuditVerified,
       Short!Succeed, Short!Throws, Short!ReconcileStep, Short!ReconcileUnobserved,
       Short!ReconcileLifecycle, Short!ReconcileModel, Short!Reconciled, Short!Crash,
       Short!Restart, Short!Listen
<1>6. audits' \in [Jobs -> SUBSET Short!AuditRecord]
  BY <1>2, <1>t DEF Short!Execute, Short!ExecuteStep, Short!RunLifecycle, Short!RunModel,
     Short!Preflighted, Short!Issue, Short!VerifyLifecycle, Short!VerifyUnload,
     Short!VerifySmoke, Short!AuditVerified, Short!Succeed, Short!Throws, Short!Fail,
     Short!ReconcileStep, Short!ReconcileUnobserved, Short!ReconcileLifecycle,
     Short!ReconcileModel, Short!Reconciled, Short!Crash, Short!Restart, Short!Listen,
     Short!AuditRecord
<1>7. server' \in {"down", "recovering", "up"} /\ pc' \in Short!ProgramCounter
  <2>1. server \in {"down", "recovering", "up"} /\ pc \in Short!ProgramCounter
    BY <1>t DEF Short!TypeOK
  <2>2. CASE Short!Crash \/ Short!Restart \/ Short!Listen
    BY <2>1, <2>2 DEF Short!Crash, Short!Restart, Short!Listen, Short!ProgramCounter
  <2>3. ASSUME NEW j \in Jobs, Short!Execute(j) \/ Short!ExecuteStep(j) \/ Short!ReconcileStep(j)
        PROVE  server' = server /\ pc' \in Short!ProgramCounter
    BY <2>1, <2>3 DEF Short!ProgramCounter, Short!Execute, Short!ExecuteStep,
       Short!RunLifecycle, Short!RunModel, Short!Preflighted, Short!Issue,
       Short!VerifyLifecycle, Short!VerifyUnload, Short!VerifySmoke, Short!AuditVerified,
       Short!Succeed, Short!Throws, Short!Fail, Short!ReconcileStep,
       Short!ReconcileUnobserved, Short!ReconcileLifecycle, Short!ReconcileModel,
       Short!Reconciled
  <2> QED
    BY <2>1, <2>2, <2>3
<1>8. commands' \subseteq [job : {j \in Jobs : state'[j] # "absent"}, answering : BOOLEAN,
                            awaited : BOOLEAN]
  <2>1. CASE Short!Abandon
    BY <1>4, <1>t, <2>1, AbandonEffect
  <2>2. CASE UNCHANGED commands
    BY <1>4, <1>t, <2>2 DEF Short!TypeOK
  <2>3. ASSUME NEW j \in Jobs, Short!Issue(j)
        PROVE  commands' \subseteq [job : {k \in Jobs : state'[k] # "absent"},
                                     answering : BOOLEAN, awaited : BOOLEAN]
    <3>1. /\ commands' = commands \cup {[job |-> j, answering |-> FALSE, awaited |-> TRUE]}
          /\ state' = state /\ state[j] # "absent"
      BY <2>3 DEF Short!Issue, Short!Active, Short!ACTIVE_STATES
    <3> DEFINE Known == {k \in Jobs : state[k] # "absent"}
    <3>2. commands \subseteq [job : Known, answering : BOOLEAN, awaited : BOOLEAN]
      BY <1>t DEF Short!TypeOK
    <3>3. [job |-> j, answering |-> FALSE, awaited |-> TRUE]
              \in [job : Known, answering : BOOLEAN, awaited : BOOLEAN]
      BY <3>1
    <3>4. {k \in Jobs : state'[k] # "absent"} = Known
      BY <3>1
    <3> HIDE DEF Known
    <3> QED
      BY <3>1, <3>2, <3>3, <3>4
  <2> QED
    BY <2>1, <2>2, <2>3 DEF Short!Execute, Short!ExecuteStep, Short!RunLifecycle,
       Short!RunModel, Short!Preflighted, Short!VerifyLifecycle, Short!VerifyUnload,
       Short!VerifySmoke, Short!AuditVerified, Short!Succeed, Short!Throws, Short!Fail,
       Short!ReconcileStep, Short!ReconcileUnobserved, Short!ReconcileLifecycle,
       Short!ReconcileModel, Short!Reconciled, Short!Crash, Short!Restart, Short!Listen
<1> QED
  BY <1>3, <1>4, <1>5, <1>6, <1>7, <1>8, <1>t DEF Short!TypeOK

\* A step of a handler or of the reconciliation keeps the lock, the commands and the record.
LEMMA ProcessKeeps ==
    ASSUME ShortInv,
           \/ \E j \in Jobs : Short!Execute(j) \/ Short!ExecuteStep(j) \/ Short!ReconcileStep(j)
           \/ Short!Crash \/ Short!Restart \/ Short!Listen
    PROVE  LockOK' /\ CommandsOK' /\ StartsOK' /\ VerifiedOK'
<1> USE DEF Short!hostVars, Short!bounds, Short!dbVars, Short!processVars
<1>t. /\ Short!TypeOK /\ LockOK /\ CommandsOK /\ StartsOK /\ VerifiedOK
      /\ state \in [Jobs -> Short!JobState \cup {"absent"}] /\ metadata \in [Jobs -> Short!Metadata]
      /\ audits \in [Jobs -> SUBSET Short!AuditRecord] /\ startedAt \in Nat
  BY DEF ShortInv, Short!TypeOK
<1> DEFINE Kept == LockOK' /\ CommandsOK' /\ StartsOK' /\ VerifiedOK'
<1>1. ASSUME NEW j \in Jobs, Short!Execute(j) PROVE Kept
  <2>1. LockOK'
    BY <1>1, <1>t DEF Short!Execute, LockOK, Short!Transition, Short!Active,
       Short!ACTIVE_STATES
  <2> QED
    BY <1>1, <1>t, <2>1 DEF Short!Execute, CommandsOK, StartsOK, VerifiedOK,
       Short!Transition, Short!Active, Short!ACTIVE_STATES
<1>2. ASSUME NEW j \in Jobs, Short!RunLifecycle(j) PROVE Kept
  BY <1>2, <1>t DEF Short!RunLifecycle, LockOK, CommandsOK, StartsOK, VerifiedOK,
     Short!Transition, Short!Active, Short!ACTIVE_STATES, Short!Metadata
<1>3. ASSUME NEW j \in Jobs, Short!RunModel(j) PROVE Kept
  BY <1>3, <1>t DEF Short!RunModel, LockOK, CommandsOK, StartsOK, VerifiedOK,
     Short!Transition, Short!Active, Short!ACTIVE_STATES, Short!IsLifecycle
<1>4. ASSUME NEW j \in Jobs, Short!Preflighted(j) PROVE Kept
  BY <1>4, <1>t DEF Short!Preflighted, Short!UnloadPreflight, Short!SmokePreflight, LockOK,
     CommandsOK, StartsOK, VerifiedOK, Short!Active, Short!IsLifecycle, Short!Lifecycle
<1>5. ASSUME NEW j \in Jobs, Short!Issue(j) PROVE Kept
  <2>1. [job |-> j, answering |-> FALSE, awaited |-> TRUE] \in Short!Awaited'
    BY <1>5 DEF Short!Issue, Short!Awaited
  <2> QED
    BY <1>5, <1>t, <2>1 DEF Short!Issue, LockOK, CommandsOK, StartsOK, VerifiedOK,
       Short!Active, Short!IsLifecycle
<1>6. ASSUME NEW j \in Jobs, Short!VerifyLifecycle(j) \/ Short!VerifyUnload(j) \/ Short!VerifySmoke(j)
      PROVE  Kept
  BY <1>6, <1>t DEF Short!VerifyLifecycle, Short!VerifyUnload, Short!VerifySmoke,
     Short!Awaited, LockOK, CommandsOK, StartsOK, VerifiedOK, Short!Active
<1>7. ASSUME NEW j \in Jobs, Short!AuditVerified(j) PROVE Kept
  BY <1>7, <1>t DEF Short!AuditVerified, Short!Audit, LockOK, CommandsOK, StartsOK,
     VerifiedOK, Short!Active
<1>8. ASSUME NEW j \in Jobs, NEW s \in Short!TERMINAL_STATES, Short!Active(j),
             Short!Transition(j, s), pc' = "idle",
             pc # "awaiting", UNCHANGED <<server, commands, kind>>
      PROVE  Kept
  <2>1. \A k \in Jobs : ~Short!Active(k)'
    BY <1>8, <1>t DEF LockOK, Short!Transition, Short!Active, Short!ACTIVE_STATES,
       Short!TERMINAL_STATES
  <2> QED
    BY <1>8, <1>t, <2>1 DEF LockOK, CommandsOK, StartsOK, VerifiedOK
<1>9. ASSUME NEW j \in Jobs, Short!Succeed(j) \/ Short!Fail(j) \/ Short!ReconcileStep(j) PROVE Kept
  BY <1>8, <1>9 DEF Short!Succeed, Short!Fail, Short!ReconcileStep,
     Short!ReconcileUnobserved, Short!ReconcileLifecycle, Short!ReconcileModel,
     Short!Reconciled, Short!TERMINAL_STATES
<1>10. ASSUME (\E j \in Jobs : Short!Throws(j)) \/ Short!Crash PROVE Kept
  <2>a. Short!Abandon
    BY <1>10 DEF Short!Throws, Short!Crash
  <2>1. \A c \in commands' : ~c.awaited /\ (c.answering => kind[c.job] = "model-smoke-test")
    BY <2>a, <1>t, AbandonEffect DEF CommandsOK
  <2>2. ASSUME NEW j \in Jobs, Short!Throws(j) PROVE Kept
    BY <1>t, <2>1, <2>2 DEF Short!Throws, LockOK, CommandsOK, StartsOK, VerifiedOK,
       Short!Active
  <2>3. CASE Short!Crash
    BY <1>t, <2>1, <2>3 DEF Short!Crash, LockOK, CommandsOK, StartsOK, VerifiedOK, Short!Active
  <2> QED
    BY <1>10, <2>2, <2>3
<1>11. CASE Short!Restart \/ Short!Listen
  BY <1>11, <1>t DEF Short!Restart, Short!Listen, LockOK, CommandsOK, StartsOK, VerifiedOK,
     Short!Active, Short!IsLifecycle, Short!Awaited
<1> QED
  BY <1>1, <1>2, <1>3, <1>4, <1>5, <1>6, <1>7, <1>9, <1>10, <1>11 DEF Short!ExecuteStep

\* Every step keeps the invariant.
LEMMA ShortStep == ShortInv /\ [Short!Next]_(Short!vars) => ShortInv'
<1> SUFFICES ASSUME ShortInv, [Short!Next]_(Short!vars) PROVE ShortInv'
  OBVIOUS
<1>1. CASE UNCHANGED Short!vars
  BY <1>1 DEF Short!vars, Short!dbVars, Short!processVars, Short!hostVars, Short!bounds,
     ShortInv, Short!TypeOK, LockOK, CommandsOK, StartsOK, VerifiedOK, Short!Active,
     Short!IsLifecycle, Short!Awaited
<1>2. CASE Short!Next
  BY <1>2, HostKeeps, OthersKeep, ProcessTypes, ProcessKeeps DEF Short!Next, ShortInv
<1> QED
  BY <1>1, <1>2

\* A verdict of success is right, audited and, of a smoke test, its own.
LEMMA ShortVerdicts ==
    ASSUME ShortInv, [Short!Next]_(Short!vars)
    PROVE  Short!TrueVerdict /\ Short!AuditedSuccess /\ Short!OwnSmokeSuccess
<1> USE DEF Short!hostVars, Short!bounds, Short!dbVars, Short!processVars
<1>t. /\ LockOK /\ StartsOK /\ VerifiedOK /\ state \in [Jobs -> Short!JobState \cup {"absent"}]
      /\ kind \in [Jobs -> Short!SHORT_KINDS] /\ metadata \in [Jobs -> Short!Metadata]
      /\ startedAt \in Nat
  BY DEF ShortInv, Short!TypeOK
<1>1. ASSUME NEW j \in Jobs, pc # "verified", pc' = "verified", Short!Active(j)
      PROVE  /\ Short!AsRequested(j)
             /\ kind[j] = "container.restart" => startedAt # metadata[j].initialStartedAt
  <2>1. PICK k \in Jobs : Short!VerifyLifecycle(k) \/ Short!VerifyUnload(k) \/ Short!VerifySmoke(k)
    BY <1>1 DEF Short!Next, Short!vars, Short!Execute, Short!ExecuteStep, Short!RunLifecycle,
       Short!RunModel, Short!Preflighted, Short!Issue, Short!AuditVerified, Short!Succeed,
       Short!Throws, Short!Fail, Short!ReconcileStep, Short!ReconcileUnobserved,
       Short!ReconcileLifecycle, Short!ReconcileModel, Short!Reconciled, Short!HostStep,
       Short!DockerCommand, Short!Unload, Short!Generate, Short!GenerateEnds,
       Short!OthersAct, Short!Crash, Short!Restart, Short!Listen
  <2>2. k = j
    BY <1>1, <1>t, <2>1 DEF LockOK, Short!VerifyLifecycle, Short!VerifyUnload,
       Short!VerifySmoke
  <2>3. CASE Short!VerifyLifecycle(j)
    <3>1. kind[j] = "container.restart" => metadata[j].initialStartedAt < startedAt
      BY <1>t, <2>3 DEF Short!VerifyLifecycle, StartsOK
    <3>2. metadata[j].initialStartedAt \in Nat
      BY <1>t DEF Short!Metadata
    <3>3. Short!ContainerAsRequested(j) /\ Short!IsLifecycle(j)
      BY <2>3 DEF Short!VerifyLifecycle
    <3>4. kind[j] # "model-unload" /\ kind[j] # "model-smoke-test"
      BY <3>3 DEF Short!IsLifecycle, Short!Lifecycle
    <3>5. Short!AsRequested(j)
      BY <3>3, <3>4 DEF Short!AsRequested
    <3> QED
      BY <1>t, <3>1, <3>2, <3>5
  <2>4. CASE Short!VerifyUnload(j) \/ Short!VerifySmoke(j)
    BY <2>4 DEF Short!VerifyUnload, Short!VerifySmoke, Short!AsRequested, Short!IsLifecycle,
       Short!Lifecycle
  <2> QED
    BY <2>1, <2>2, <2>3, <2>4
<1>2. ASSUME NEW j \in Jobs, state[j] # "succeeded", state'[j] = "succeeded"
      PROVE  \/ Short!Succeed(j)
             \/ Short!ReconcileLifecycle(j) /\ Short!Reconciled(j, "succeeded")
             \/ Short!ReconcileModel(j) /\ Short!Reconciled(j, "succeeded")
  <2>1. ASSUME NEW k \in Jobs, NEW s \in Short!JobState, Short!Transition(k, s)
        PROVE  k = j /\ s = "succeeded"
    BY <1>2, <1>t, <2>1 DEF Short!Transition
  <2>2. ASSUME NEW k \in Jobs, Short!ExecuteStep(k) \/ Short!Execute(k) PROVE Short!Succeed(j)
    BY <1>2, <2>1, <2>2 DEF Short!Execute, Short!ExecuteStep, Short!RunLifecycle,
       Short!RunModel, Short!Preflighted, Short!Issue, Short!VerifyLifecycle,
       Short!VerifyUnload, Short!VerifySmoke, Short!AuditVerified, Short!Succeed,
       Short!Throws, Short!Fail, Short!JobState
  <2>3. ASSUME NEW k \in Jobs, Short!ReconcileStep(k)
        PROVE  \/ Short!ReconcileLifecycle(j) /\ Short!Reconciled(j, "succeeded")
               \/ Short!ReconcileModel(j) /\ Short!Reconciled(j, "succeeded")
    <3>1. PICK s \in {"succeeded", "failed"} :
            /\ Short!Reconciled(k, s)
            /\ s = "failed" \/ Short!ReconcileLifecycle(k) \/ Short!ReconcileModel(k)
      BY <2>3 DEF Short!ReconcileStep, Short!ReconcileUnobserved, Short!ReconcileLifecycle,
         Short!ReconcileModel
    <3>2. k = j /\ s = "succeeded"
      BY <2>1, <3>1 DEF Short!Reconciled, Short!JobState
    <3> QED
      BY <3>1, <3>2
  <2> QED
    BY <1>2, <2>2, <2>3 DEF Short!Next, Short!vars, Short!HostStep, Short!DockerCommand,
       Short!Unload, Short!Generate, Short!GenerateEnds, Short!OthersAct, Short!Crash,
       Short!Restart, Short!Listen
<1>3. ASSUME NEW j \in Jobs, Short!Reconciled(j, "succeeded"),
             Short!ReconcileLifecycle(j) \/ Short!ReconcileModel(j),
             state[j] # "succeeded"
      PROVE  /\ server = "recovering" /\ Short!AsRequested(j) /\ kind[j] # "model-smoke-test"
             /\ kind[j] = "container.restart" => startedAt # metadata[j].initialStartedAt
  <2>1. \A s \in {"succeeded", "failed"} : Short!Reconciled(j, s) => s = "succeeded"
    BY <1>3, <1>t DEF Short!Reconciled, Short!Transition
  <2>2. CASE Short!ReconcileLifecycle(j)
    BY <2>1, <2>2 DEF Short!ReconcileLifecycle, Short!AsRequested, Short!IsLifecycle,
       Short!Lifecycle
  <2>3. CASE Short!ReconcileModel(j)
    BY <2>1, <2>3 DEF Short!ReconcileModel, Short!AsRequested, Short!IsLifecycle,
       Short!Lifecycle, Short!ModelUnloaded
  <2> QED
    BY <1>3, <2>2, <2>3
<1>4. ASSUME NEW j \in Jobs, Short!Succeed(j)
      PROVE  "verified" \in audits[j] /\ server # "recovering"
  BY <1>4, <1>t DEF Short!Succeed, VerifiedOK, LockOK
<1>5. Short!TrueVerdict
  BY <1>1, <1>2, <1>3, <1>4 DEF Short!TrueVerdict
<1>6. Short!AuditedSuccess
  BY <1>2, <1>3, <1>4 DEF Short!AuditedSuccess
<1>7. Short!OwnSmokeSuccess
  BY <1>2, <1>3, <1>4 DEF Short!OwnSmokeSuccess
<1> QED
  BY <1>5, <1>6, <1>7

-----------------------------------------------------------------------------
(* What MCEndings checks on its instances.                                 *)

SceneInv == (scene = "create" => IInv) /\ (scene = "short" => ShortInv)

\* A behaviour stays with the part that it has begun with, and keeps its invariant.
LEMMA SceneHolds ==
    SceneInit /\ [][SceneNext]_<<scene, allVars>> => [](SceneInv /\ scene \in {"create", "short"})
<1> DEFINE Inv == SceneInv /\ scene \in {"create", "short"}
<1>1. SceneInit => Inv
  BY InitIInv, ShortInit DEF SceneInit, SceneInv
<1>2. Inv /\ [SceneNext]_<<scene, allVars>> => Inv'
  <2> SUFFICES ASSUME Inv, [SceneNext]_<<scene, allVars>> PROVE Inv'
    OBVIOUS
  <2>1. /\ scene' = scene
        /\ scene = "create" => [Next]_vars
        /\ scene = "short" => [Short!Next]_(Short!vars)
    BY DEF SceneNext, allVars, vars, shortVars, Short!vars, Short!dbVars, Short!processVars,
       Short!hostVars, Short!bounds, dbVars, processVars, remoteVars
  <2>2. CASE scene = "create"
    BY <2>1, <2>2, IInvStep DEF SceneInv
  <2>3. CASE scene = "short"
    BY <2>1, <2>3, ShortStep DEF SceneInv
  <2> QED
    BY <2>2, <2>3
<1> QED
  BY <1>1, <1>2, PTL

\* Whether a behaviour follows creates or short mutations: the types are kept, no plan is used
\* twice, no end is audited twice, and what a create records as a success is deployed.
THEOREM EndingsInvariantHolds == SceneSpec => []SceneInvariant
<1>1. SceneInv /\ scene \in {"create", "short"} => SceneInvariant
  BY DEF SceneInv, SceneInvariant, IInv, PlanOK, Sender, PlanUsedOnce, CreateInvariant, ShortInv
<1> QED
  BY <1>1, SceneHolds, PTL DEF SceneSpec

\* What a short mutation reports as a success is so: its container is as asked for, a restart
\* has restarted it, its model is not loaded.  The request has audited it before, and the
\* reconciliation never makes up the answer of a smoke test.
THEOREM VerdictsAreTrue == SceneSpec => VerdictIsTrue
<1> DEFINE Right == scene = "short" =>
                        Short!TrueVerdict /\ Short!AuditedSuccess /\ Short!OwnSmokeSuccess
<1>1. SceneInv /\ [SceneNext]_<<scene, allVars>> => [Right]_<<scene, allVars>>
  <2> SUFFICES ASSUME SceneInv, SceneNext, scene = "short"
               PROVE  Short!TrueVerdict /\ Short!AuditedSuccess /\ Short!OwnSmokeSuccess
    OBVIOUS
  <2>1. ShortInv /\ [Short!Next]_(Short!vars)
    BY DEF SceneInv, SceneNext
  <2> QED
    BY <2>1, ShortVerdicts
<1> QED
  BY <1>1, SceneHolds, PTL DEF SceneSpec, VerdictIsTrue

-----------------------------------------------------------------------------
(* What creates and short mutations ask of the jobs table.                 *)

\* Every job takes the lock of the one target.
JobLocks == [j \in Jobs |-> {"target"}]

AsTable == INSTANCE JobTable WITH Targets <- {"target"}, locks <- JobLocks

\* A job is accepted, moves, or is left alone.
TableStep ==
    \/ \E j \in Jobs : AsTable!Accept(j) \/ \E next \in JobState : AsTable!Move(j, next)
    \/ UNCHANGED state

\* A transition that the table of transitions has is a step of the jobs table.
LEMMA MoveIsStep ==
    ASSUME NEW j \in Jobs, NEW s \in JobState, CanTransition(state[j], s),
           state' = [state EXCEPT ![j] = s]
    PROVE  TableStep
BY DEF TableStep, AsTable!Move, AsTable!CanTransition, AsTable!TRANSITIONS, CanTransition,
   TRANSITIONS, JobLocks

\* A job that is inserted while no other one is active is a step of the jobs table.
LEMMA AcceptIsStep ==
    ASSUME NEW j \in Jobs, state[j] = "absent", \A k \in Jobs : state[k] \notin ACTIVE_STATES,
           state' = [state EXCEPT ![j] = "queued"]
    PROVE  TableStep
BY DEF TableStep, AsTable!Accept, AsTable!ACTIVE_STATES, ACTIVE_STATES, JobLocks

\* What a create does to its job is a step of the jobs table.
LEMMA CreateKeepsContract ==
    ASSUME IInv, [Next]_vars
    PROVE  TableStep
<1> USE DEF IInv, dbVars, processVars, remoteVars, Goto
<1>t. state \in [Jobs -> JobState \cup {"absent"}]
  BY DEF TypeOK
<1>1. ASSUME NEW j \in Jobs, NEW e, Active(j), Fail(j, e) PROVE TableStep
  <2>1. state[j] \in {"queued", "running", "cancelling"}
    BY <1>1 DEF Active, ACTIVE_STATES
  <2>2. CanTransition(state[j], "failed")
    BY <2>1 DEF CanTransition, TRANSITIONS
  <2> QED
    BY <1>1, <2>2, MoveIsStep DEF Fail, Finish, JobState
<1>2. ASSUME NEW j \in Jobs, state[j] = "running", Succeed(j) PROVE TableStep
  BY <1>2, MoveIsStep DEF Succeed, Finish, JobState, CanTransition, TRANSITIONS
<1>3. ASSUME NEW j \in Jobs, Accept(j) PROVE TableStep
  BY <1>3, AcceptIsStep DEF Accept, ControlOK, Active
<1>4. ASSUME NEW j \in Jobs, Cancel(j) PROVE TableStep
  BY <1>4, MoveIsStep DEF Cancel, CanTransition, TRANSITIONS, JobState
<1>5. ASSUME NEW j \in Jobs, Consume(j) \/ Run(j) PROVE TableStep
  <2>1. state[j] = "queued"
    BY <1>5 DEF Consume, Run, ControlOK, StartingPC
  <2>2. CASE Run(j)
    BY <2>1, <2>2, MoveIsStep DEF Run, CanTransition, TRANSITIONS, JobState
  <2>3. CASE Consume(j)
    <3>1. UNCHANGED state \/ state' = [state EXCEPT ![j] = "failed"]
      BY <2>3 DEF Consume
    <3> QED
      BY <2>1, <3>1, MoveIsStep DEF TableStep, CanTransition, TRANSITIONS, JobState
  <2> QED
    BY <1>5, <2>2, <2>3
<1>6. ASSUME NEW j \in Jobs, WorkerStep(j), ~Consume(j), ~Run(j), ~UNCHANGED state
      PROVE  TableStep
  <2>1. pc[j] \in WorkerPC
    BY <1>6 DEF WorkerStep, WorkerPC, Observe, OpenStream, StreamEnds, VerifyPresence,
       ObserveDetails, Mismatch, Verified, Catch, Throws
  <2>2. Active(j)
    BY <2>1 DEF ControlOK, Active, ACTIVE_STATES
  <2>3. (\E e \in ErrorClass : Fail(j, e)) \/ (state[j] = "running" /\ Succeed(j))
    BY <1>6 DEF WorkerStep, Observe, OpenStream, StreamEnds, VerifyPresence,
       ObserveDetails, Mismatch, Verified, Catch, ErrorClass
  <2> QED
    BY <1>1, <1>2, <2>2, <2>3
<1>7. ASSUME NEW j \in Jobs, ReconcileStep(j), ~UNCHANGED state PROVE TableStep
  <2>1. Active(j)
    <3>1. state[j] \in {"queued", "cancelling"} \/ pc[j] \in {"rec_read", "rec_details"}
      BY <1>7 DEF ReconcileStep, ReconcileUnobserved, ReconcileRead, ReconcilePresence,
         ReconcileVerdict, ReconcileFails
    <3> QED
      BY <3>1 DEF ControlOK, Active, ACTIVE_STATES
  <2>2. (\E e \in ErrorClass : Fail(j, e)) \/ (pc[j] = "rec_details" /\ Succeed(j))
    BY <1>7 DEF ReconcileStep, ReconcileUnobserved, ReconcileRead, ReconcilePresence,
       ReconcileVerdict, ReconcileFails, ErrorClass
  <2> QED
    BY <1>1, <1>2, <2>1, <2>2 DEF ControlOK
<1>8. CASE UNCHANGED state
  BY <1>8 DEF TableStep
<1> QED
  BY <1>3, <1>4, <1>5, <1>6, <1>7, <1>8
     DEF Next, CreatePlan, Expire, Request, Refuse, Audit, RemoteStep, CreateCompletes,
         CreateStops, OthersChange, Shutdown, Exit, Crash, Stopped, Restart, Listen, vars

\* No short mutation can be cancelled.  A request that has not begun has a queued job, and one
\* that has begun, or has left its metadata, a running one.
RunsOK ==
    \A j \in Jobs :
        /\ state[j] # "cancelling"
        /\ state[j] \in {"absent", "queued"} => ~metadata[j].present
        /\ Short!Active(j) =>
               /\ pc = "queued" => state[j] = "queued"
               /\ pc \in {"preflight", "issue", "awaiting", "verified", "commit"} =>
                      state[j] = "running"

\* The initial states have it.
LEMMA RunsInit == Short!Init => RunsOK
BY DEF Short!Init, RunsOK, Short!Active, Short!ACTIVE_STATES

\* Every step keeps it.
LEMMA RunsStep ==
    ASSUME ShortInv, RunsOK, [Short!Next]_(Short!vars)
    PROVE  RunsOK'
<1> USE DEF Short!hostVars, Short!bounds, Short!dbVars, Short!processVars, RunsOK, Short!Active,
        Short!ACTIVE_STATES, Short!Transition
<1>t. /\ state \in [Jobs -> Short!JobState \cup {"absent"}]
      /\ metadata \in [Jobs -> Short!Metadata]
      /\ LockOK
  BY DEF ShortInv, Short!TypeOK
<1>1. ASSUME NEW j \in Jobs, Short!Execute(j) PROVE RunsOK'
  BY <1>1, <1>t DEF Short!Execute, LockOK
<1>2. ASSUME NEW j \in Jobs, Short!RunLifecycle(j) PROVE RunsOK'
  BY <1>2, <1>t DEF Short!RunLifecycle, LockOK, Short!Metadata
<1>3. ASSUME NEW j \in Jobs, Short!RunModel(j) PROVE RunsOK'
  BY <1>3, <1>t DEF Short!RunModel, LockOK, Short!Metadata
<1>4. ASSUME NEW j \in Jobs, Short!Preflighted(j) \/ Short!Issue(j) \/ Short!VerifyLifecycle(j)
             \/ Short!VerifyUnload(j) \/ Short!VerifySmoke(j) \/ Short!AuditVerified(j)
      PROVE  RunsOK'
  BY <1>4, <1>t DEF Short!Preflighted, Short!Issue, Short!VerifyLifecycle, Short!VerifyUnload,
     Short!VerifySmoke, Short!AuditVerified, LockOK
<1>5. ASSUME NEW j \in Jobs, Short!Succeed(j) \/ Short!Throws(j) PROVE RunsOK'
  BY <1>5, <1>t DEF Short!Succeed, Short!Throws, LockOK
<1>6. ASSUME NEW j \in Jobs, Short!Fail(j) PROVE RunsOK'
  BY <1>6, <1>t DEF Short!Fail, LockOK, Short!Metadata
<1>7. ASSUME NEW j \in Jobs, Short!ReconcileStep(j) PROVE RunsOK'
  BY <1>7, <1>t DEF Short!ReconcileStep, Short!ReconcileUnobserved, Short!ReconcileLifecycle,
     Short!ReconcileModel, Short!Reconciled, LockOK
<1>8. CASE Short!HostStep \/ Short!OthersAct
  BY <1>8 DEF Short!HostStep, Short!DockerCommand, Short!Unload, Short!Generate,
     Short!GenerateEnds, Short!OthersAct
<1>9. CASE Short!Crash \/ Short!Restart \/ Short!Listen
  BY <1>9 DEF Short!Crash, Short!Restart, Short!Listen
<1>10. CASE UNCHANGED Short!vars
  BY <1>10 DEF Short!vars
<1> QED
  BY <1>1, <1>2, <1>3, <1>4, <1>5, <1>6, <1>7, <1>8, <1>9, <1>10 DEF Short!Next,
     Short!ExecuteStep

\* What a short mutation, or its reconciliation, does to its job is a step of the jobs table.
LEMMA ShortKeepsContract ==
    ASSUME ShortInv, RunsOK, [Short!Next]_(Short!vars)
    PROVE  TableStep
<1>t. state \in [Jobs -> JobState \cup {"absent"}]
  BY DEF ShortInv, Short!TypeOK, Short!JobState, JobState
<1>1. ASSUME NEW j \in Jobs, NEW s \in JobState, CanTransition(state[j], s),
             Short!Transition(j, s)
      PROVE  TableStep
  BY <1>1, MoveIsStep DEF Short!Transition
<1>2. ASSUME NEW j \in Jobs, Short!Execute(j) PROVE TableStep
  BY <1>2, AcceptIsStep DEF Short!Execute, Short!Active, Short!Transition,
     Short!ACTIVE_STATES, ACTIVE_STATES
<1>3. ASSUME NEW j \in Jobs, Short!RunLifecycle(j) \/ Short!RunModel(j) PROVE TableStep
  <2>1. state[j] = "queued" /\ Short!Transition(j, "running")
    BY <1>3 DEF Short!RunLifecycle, Short!RunModel, RunsOK
  <2> QED
    BY <1>1, <2>1 DEF CanTransition, TRANSITIONS, JobState
<1>4. ASSUME NEW j \in Jobs, Short!Succeed(j) PROVE TableStep
  <2>1. state[j] = "running" /\ Short!Transition(j, "succeeded")
    BY <1>4 DEF Short!Succeed, RunsOK
  <2> QED
    BY <1>1, <2>1 DEF CanTransition, TRANSITIONS, JobState
<1>5. ASSUME NEW j \in Jobs, Short!Active(j), Short!Transition(j, "failed") PROVE TableStep
  <2>1. state[j] \in {"queued", "running"}
    BY <1>5 DEF RunsOK, Short!Active, Short!ACTIVE_STATES
  <2> QED
    BY <1>1, <1>5, <2>1 DEF CanTransition, TRANSITIONS, JobState
<1>6. ASSUME NEW j \in Jobs, Short!ReconcileStep(j) PROVE TableStep
  <2>1. Short!Active(j)
    BY <1>6 DEF Short!ReconcileStep, Short!ReconcileUnobserved, Short!ReconcileLifecycle,
       Short!ReconcileModel
  <2>2. \/ Short!Transition(j, "failed")
        \/ Short!Transition(j, "succeeded") /\ metadata[j].present
    BY <1>6 DEF Short!ReconcileStep, Short!ReconcileUnobserved, Short!ReconcileLifecycle,
       Short!ReconcileModel, Short!Reconciled
  <2>3. CASE metadata[j].present /\ Short!Transition(j, "succeeded")
    <3>1. state[j] = "running"
      BY <2>1, <2>3 DEF RunsOK, Short!Active, Short!ACTIVE_STATES
    <3> QED
      BY <1>1, <2>3, <3>1 DEF CanTransition, TRANSITIONS, JobState
  <2> QED
    BY <1>5, <2>1, <2>2, <2>3
<1>7. ASSUME NEW j \in Jobs, Short!ExecuteStep(j), ~UNCHANGED state PROVE TableStep
  BY <1>3, <1>4, <1>5, <1>7 DEF Short!ExecuteStep, Short!Preflighted, Short!Issue,
     Short!VerifyLifecycle, Short!VerifyUnload, Short!VerifySmoke, Short!AuditVerified,
     Short!Throws, Short!Fail, Short!dbVars
<1>8. CASE UNCHANGED state
  BY <1>8 DEF TableStep
<1> QED
  BY <1>2, <1>6, <1>7, <1>8 DEF Short!Next, Short!HostStep, Short!DockerCommand, Short!Unload,
     Short!Generate, Short!GenerateEnds, Short!OthersAct, Short!Crash, Short!Restart,
     Short!Listen, Short!vars, Short!dbVars

\* Creates and short mutations keep to the contract of the jobs table: a job is inserted while
\* no other one is active on the target, and no handler, cancellation, shutdown or reconciliation
\* after a crash asks JobService for a transition that it refuses.  In particular what a
\* reconciliation reports as a success was running when the process went down.
THEOREM EndingsKeepContract == SceneSpec => AsTable!TableSpec
<1> DEFINE Inv == SceneInv /\ scene \in {"create", "short"}
           Runs == scene = "short" => RunsOK
<1>1. SceneInit => Runs /\ AsTable!TableInit
  <2>1. SceneInit => Runs
    BY RunsInit DEF SceneInit
  <2>2. SceneInit => state = [j \in Jobs |-> "absent"]
    BY DEF SceneInit, Init, Short!Init
  <2> QED
    BY <2>1, <2>2 DEF AsTable!TableInit, JobLocks
<1>2. ASSUME Inv, Runs, [SceneNext]_<<scene, allVars>>
      PROVE  Runs' /\ [AsTable!TableNext]_<<state, JobLocks>>
  <2>1. /\ scene' = scene
        /\ scene = "create" => [Next]_vars
        /\ scene = "short" => [Short!Next]_(Short!vars)
    BY <1>2 DEF SceneNext, allVars, vars, shortVars, Short!vars, Short!dbVars, Short!processVars,
       Short!hostVars, Short!bounds, dbVars, processVars, remoteVars
  <2>2. Runs'
    BY <1>2, <2>1, RunsStep DEF SceneInv
  <2>3. TableStep
    BY <1>2, <2>1, CreateKeepsContract, ShortKeepsContract DEF SceneInv
  <2> QED
    BY <2>2, <2>3 DEF TableStep, AsTable!TableNext, AsTable!JobState, JobState, JobLocks
<1> QED
  BY <1>1, <1>2, SceneHolds, PTL DEF SceneSpec, AsTable!TableSpec

=============================================================================
