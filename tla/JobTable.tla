------------------------------ MODULE JobTable ------------------------------
(***************************************************************************)
(* What the jobs table promises to all who work with it, with nothing said *)
(* about clients, stale reads, journals or the features that own the jobs. *)
(*                                                                         *)
(* A job is accepted while no active job holds a lock that it takes.  Then *)
(* it moves along the transition table, one move at a time, until it has   *)
(* ended.  The engine (Jobs) turns racing reads and writes into such steps *)
(* and a feature keeps to the contract when all that its handlers and its  *)
(* recovery do to its jobs are such steps: JobService has to refuse none   *)
(* of them with JOB_STATE_CONFLICT.                                        *)
(***************************************************************************)
EXTENDS JobStates

CONSTANTS Jobs, Targets

VARIABLES
    state,  \* jobs.state, "absent" before the insert
    locks   \* the targets whose mutation lock a job takes: its target, or none

TableInit ==
    /\ state = [j \in Jobs |-> "absent"]
    /\ locks \in [Jobs -> SUBSET Targets]

\* A job is inserted.
Accept(j) ==
    /\ state[j] = "absent"
    /\ \A k \in Jobs : state[k] \in ACTIVE_STATES => locks[k] \cap locks[j] = {}
    /\ state' = [state EXCEPT ![j] = "queued"]
    /\ UNCHANGED locks

\* A job gets into its next state.
Move(j, next) ==
    /\ CanTransition(state[j], next)
    /\ state' = [state EXCEPT ![j] = next]
    /\ UNCHANGED locks

TableNext == \E j \in Jobs : Accept(j) \/ \E next \in JobState : Move(j, next)

TableSpec == TableInit /\ [][TableNext]_<<state, locks>>

=============================================================================
