--------------------------- MODULE MCUpdateBlocked ---------------------------
(***************************************************************************)
(* Two targets that address one service: once an update of one of them has *)
(* replaced the container, what was journaled for the other no longer      *)
(* exists.                                                                 *)
(***************************************************************************)
EXTENDS Update

CONSTANTS j1, j2, t1, t2, i1, i2, i3

TwoTargets == [j \in Jobs |-> IF j = j1 THEN t1 ELSE t2]

OnlyOne == [b \in BOOLEAN |-> 1]

NextImage == [j \in Jobs |-> IF j = j1 THEN i2 ELSE i3]

=============================================================================
