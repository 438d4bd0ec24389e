------------------------------ MODULE UpdateTx ------------------------------
(***************************************************************************)
(* What a container update promises, with nothing said about how: an       *)
(* update of a target is a transaction on the image its service runs.      *)
(*                                                                         *)
(* While an update is open the image it started from still counts.  The    *)
(* update then commits (the service runs the candidate), reverts (the      *)
(* service runs what it ran before), or ends with an outcome that claims   *)
(* nothing about the service.  Between updates the image does not change.  *)
(***************************************************************************)
CONSTANTS Jobs, Targets, Images, TargetOf, CandidateOf

VARIABLES phase, served

txVars == <<phase, served>>

Phase == {"idle", "open", "updated", "reverted", "unverified"}

TxInit ==
    /\ phase = [j \in Jobs |-> "idle"]
    /\ served \in [Targets -> Images]

\* One update at a time on a target.
Open(j) ==
    /\ phase[j] = "idle"
    /\ \A k \in Jobs : TargetOf[k] = TargetOf[j] => phase[k] # "open"
    /\ phase' = [phase EXCEPT ![j] = "open"]
    /\ UNCHANGED served

Commit(j) ==
    /\ phase[j] = "open"
    /\ phase' = [phase EXCEPT ![j] = "updated"]
    /\ served' = [served EXCEPT ![TargetOf[j]] = CandidateOf[j]]

Revert(j) ==
    /\ phase[j] = "open"
    /\ phase' = [phase EXCEPT ![j] = "reverted"]
    /\ UNCHANGED served

GiveUp(j) ==
    /\ phase[j] = "open"
    /\ phase' = [phase EXCEPT ![j] = "unverified"]
    /\ \E i \in Images : served' = [served EXCEPT ![TargetOf[j]] = i]

TxNext == \E j \in Jobs : Open(j) \/ Commit(j) \/ Revert(j) \/ GiveUp(j)

TxSpec == TxInit /\ [][TxNext]_txVars

=============================================================================
