-------------------------- MODULE MCManualRollback --------------------------
(***************************************************************************)
(* Two requests to roll the update back: the target is alone on its host,  *)
(* or others select containers and remote commands outlive their channel.  *)
(***************************************************************************)
EXTENDS ManualRollback

CONSTANTS j1, j2

MCFaults == [b \in BOOLEAN |-> IF b THEN 3 ELSE 1]

MCCrashes == [b \in BOOLEAN |-> IF b THEN 3 ELSE 2]

=============================================================================
