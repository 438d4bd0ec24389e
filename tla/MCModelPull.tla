---------------------------- MODULE MCModelPull ----------------------------
(***************************************************************************)
(* Two pulls, one after the other, of a model with two digests.            *)
(***************************************************************************)
EXTENDS ModelPull

CONSTANTS j1, j2, d1, d2

=============================================================================
