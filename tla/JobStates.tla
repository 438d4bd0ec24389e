----------------------------- MODULE JobStates -----------------------------
(***************************************************************************)
(* The life cycle of a job: the states of the jobs table and the           *)
(* transition table of JobService.  Every module that keeps jobs extends   *)
(* this one, so that one transition table stands behind all of them.       *)
(***************************************************************************)

\* The CHECK constraint on jobs.state.
JobState == {"queued", "running", "cancelling", "succeeded", "failed", "cancelled"}

\* TERMINAL_STATES: no handler touches the row of such a job again.
TERMINAL_STATES == {"succeeded", "failed", "cancelled"}

\* The predicate of the partial index uq_jobs_active_mutation_target, and the
\* filter of findNonTerminal.
ACTIVE_STATES == {"queued", "running", "cancelling"}

\* TRANSITIONS, as a relation.
TRANSITIONS ==
    ({"queued"} \X {"running", "failed", "cancelled"})
      \cup ({"running"} \X {"succeeded", "failed", "cancelling"})
      \cup ({"cancelling"} \X {"cancelled", "failed"})

CanTransition(from, to) == <<from, to>> \in TRANSITIONS

=============================================================================
