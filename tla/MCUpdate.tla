------------------------------ MODULE MCUpdate ------------------------------
(***************************************************************************)
(* Two updates.  Of one target that is alone: the second update brings     *)
(* what the registry has by then.  Of each of two targets that address one *)
(* service, whose remote commands outlive their channel.                   *)
(***************************************************************************)
EXTENDS Update

CONSTANTS j1, j2, t1, t2, i1, i2, i3

TwoTargets == [j \in Jobs |-> IF j = j1 THEN t1 ELSE t2]

NextImage == [j \in Jobs |-> IF j = j1 THEN i2 ELSE i3]

MCFaults == [b \in BOOLEAN |-> IF b THEN 3 ELSE 2]

MCCrashes == MCFaults

=============================================================================
