----------------------------- MODULE MCLogStream -----------------------------
(***************************************************************************)
(* One stream of live logs, whose browser disconnects when it likes.       *)
(***************************************************************************)
EXTENDS LogStream

CONSTANT s1

=============================================================================
