----------------------------- MODULE EventFeed -----------------------------
(***************************************************************************)
(* What an event stream of a job promises to the panel that shows it: the  *)
(* events are delivered in the order in which they were recorded, each of  *)
(* them once and none left out, until the panel itself starts over.        *)
(***************************************************************************)
EXTENDS Naturals, Sequences

CONSTANT Id \* sequence numbers of events

VARIABLES
    recorded,  \* the events that the job has recorded so far
    round,     \* how often the panel has started over
    delivered  \* the events that it has received since

feedVars == <<recorded, round, delivered>>

FeedInit == recorded \in Seq(Id) /\ round = 0 /\ delivered = <<>>

Record ==
    /\ Len(recorded') = Len(recorded) + 1 /\ recorded'[Len(recorded) + 1] \in Id
    /\ recorded = SubSeq(recorded', 1, Len(recorded))
    /\ UNCHANGED <<round, delivered>>

Deliver ==
    /\ Len(delivered) < Len(recorded)
    /\ delivered' = Append(delivered, recorded[Len(delivered) + 1])
    /\ UNCHANGED <<recorded, round>>

StartOver ==
    /\ round' = round + 1 /\ delivered' = <<>>
    /\ UNCHANGED recorded

FeedNext == Record \/ Deliver \/ StartOver

Feed == FeedInit /\ [][FeedNext]_feedVars

=============================================================================
