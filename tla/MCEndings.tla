------------------------------ MODULE MCEndings ------------------------------
(***************************************************************************)
(* Jobs that are interrupted, and end.  A behaviour follows one of         *)
(*   - create: two creates with two plans, as in MCModelCreate, of a model *)
(*     that nobody else changes;                                           *)
(*   - short: two short mutations of any kinds, one after the other, on    *)
(*     one target.                                                         *)
(***************************************************************************)
EXTENDS MCModelCreate

CONSTANTS
    Digest, OtherDigest, Detached, MaxForeign \* ShortMutations

VARIABLES
    scene,                                                                \* the instance
    kind, metadata, audits, running, startedAt, loaded, commands, foreign \* ShortMutations

createVars == <<error, evidence, audited, plan, confirmed, planOf, aborted, seen, shown,
                auditing, remote, changes>>
shortVars == <<kind, metadata, audits, running, startedAt, loaded, commands, foreign>>

allVars == <<vars, shortVars>>

Short == INSTANCE ShortMutations

NoCreate ==
    /\ error = None /\ evidence = None /\ audited = None /\ plan = None /\ confirmed = None
    /\ planOf = None /\ aborted = None /\ seen = None /\ shown = None /\ auditing = None
    /\ remote = None /\ changes = None

NoShort ==
    /\ kind = None /\ metadata = None /\ audits = None /\ running = None /\ startedAt = None
    /\ loaded = None /\ commands = None /\ foreign = None

SceneInit ==
    \/ scene = "create" /\ Init /\ NoShort
    \/ scene = "short" /\ Short!Init /\ NoCreate

SceneNext ==
    /\ \/ scene = "create" /\ Next /\ UNCHANGED shortVars
       \/ scene = "short" /\ Short!Next /\ UNCHANGED createVars
    /\ UNCHANGED scene

CreateDoes(A) == scene = "create" /\ A /\ UNCHANGED shortVars
ShortDoes(A) == scene = "short" /\ A /\ UNCHANGED createVars

\* The fairness of each part.  A behaviour follows one, so that a condition may serve both.
SceneFairness ==
    /\ \A j \in Jobs :
          /\ WF_allVars(CreateDoes(Audit(j)) \/ ShortDoes(Short!ReconcileStep(j)))
          /\ WF_allVars(CreateDoes(WorkerStep(j)) \/ ShortDoes(Short!ExecuteStep(j)))
          /\ WF_allVars(CreateDoes(ReconcileStep(j)))
          /\ WF_allVars(CreateDoes(RemoteStep(j)))
    /\ WF_allVars(CreateDoes(Exit) \/ ShortDoes(Short!HostStep))
    /\ WF_allVars(CreateDoes(Restart) \/ ShortDoes(Short!Restart))
    /\ WF_allVars(CreateDoes(Listen) \/ ShortDoes(Short!Listen))

SceneSpec == SceneInit /\ [][SceneNext]_<<scene, allVars>> /\ SceneFairness

-----------------------------------------------------------------------------
(* Properties of the part that is followed.                                *)

\* The types of what is followed; of creates also that a success has deployed the revision
\* and that a plan is used once.
SceneInvariant ==
    IF scene = "short" THEN Short!TypeOK ELSE CreateInvariant /\ SuccessIsDeployed

\* A short mutation is reported as a success when what that claims is so, when it was
\* audited before or found out by the reconciliation, and, of a smoke test, when its own
\* answer was read.
VerdictIsTrue ==
    [][scene = "short" =>
          Short!TrueVerdict /\ Short!AuditedSuccess /\ Short!OwnSmokeSuccess]_<<scene, allVars>>

\* Every job that was accepted ends: a create across cancellations, shutdowns and crashes,
\* a short mutation whatever the reconciliation can observe.
JobEnds ==
    \A j \in Jobs : state[j] \in ACTIVE_STATES ~> state[j] \in TERMINAL_STATES

=============================================================================
