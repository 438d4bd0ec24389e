------------------------------ MODULE MCJobs ------------------------------
(***************************************************************************)
(* A small instance of Jobs: two mutating jobs that compete for one target *)
(* and a read-only job on it, driven by two clients.                       *)
(***************************************************************************)
EXTENDS Jobs, TLC

CONSTANTS j1, j2, j3, t1, c1, c2

MCTargetOf == [j \in Jobs |-> t1]
MCMutating == [j \in Jobs |-> j # j3]

\* The mutating jobs are interchangeable, and so are the clients.
MCSymmetry == Permutations({j1, j2}) \cup Permutations({c1, c2})

=============================================================================
