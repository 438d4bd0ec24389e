--------------------------- MODULE MCModelCreate ---------------------------
(***************************************************************************)
(* Two creates with two plans for one model name.  Both plans make d1.     *)
(* The model d0 that may be there before satisfies the revision of p2, but *)
(* not that of p1.                                                         *)
(***************************************************************************)
EXTENDS ModelCreate

CONSTANTS j1, j2, p1, p2, d0, d1

MCProduct == [p \in Plans |-> d1]

MCSatisfying == [p \in Plans |-> IF p = p1 THEN {d1} ELSE {d0, d1}]

=============================================================================
