-------------------------- MODULE ModelCreatePanel --------------------------
(***************************************************************************)
(* The panel that follows a model create                                   *)
(* (apps/web/src/ModelCreatePanel.tsx) on the event stream of its job.     *)
(*                                                                         *)
(* The effect that opens the event source depends on the job object, which *)
(* every answer replaces: so each answer closes the source and opens a new *)
(* one, which names no last event and starts at the beginning.             *)
(***************************************************************************)
EXTENDS JobEventStream

CONSTANTS
    None,
    MaxFailedReads \* bound on the requests for the job that fail

VARIABLES
    shown,  \* job.state, None without a job
    source, \* the EventSource of the effect
    reads,  \* the requests for the job that the effect has under way, and their answers
    cancel, \* the request to cancel, and its answer
    failed, \* how many reads failed (bound)
    lines   \* for each sequence number of a progress event: how often it is in the list

panelVars == <<shown, source, reads, cancel, failed, lines>>
vars == <<streamVars, panelVars>>

\* The most often that a repetition of one line is told apart.
MaxLines == 2

Init ==
    /\ StreamInit
    /\ shown = None /\ source = "none"
    /\ reads = {"asked"} /\ cancel = None /\ failed = 0
    /\ lines = [i \in {} |-> 0]

-----------------------------------------------------------------------------
(* Rendering.                                                              *)

\* setJob(): the effect of the previous job is cleaned up, with its source and what it
\* asked; a job that has not ended gets a new one.
Render(state) ==
    /\ shown' = state /\ reads' = {}
    /\ IF state \in TERMINAL_STATES THEN source' = "none" /\ conn' = Closed
       ELSE source' = "open" /\ conn' = Opened(0)

\* The server answers a request for the job, or for the active job of the target: none,
\* when it has ended.
ReadHandled ==
    /\ "asked" \in reads
    /\ shown = None => ~Terminal
    /\ reads' = (reads \ {"asked"}) \cup {jobState}
    /\ UNCHANGED <<streamVars, shown, source, cancel, failed, lines>>

ReadAnswered ==
    /\ \E state \in reads \cap JobState : Render(state)
    /\ UNCHANGED <<jobState, log, breaks, cancel, failed, lines>>

ReadFails ==
    /\ reads # {} /\ failed < MaxFailedReads
    /\ failed' = failed + 1
    /\ \E r \in reads : reads' = reads \ {r}
    /\ UNCHANGED <<streamVars, shown, source, cancel, lines>>

\* cancelJob(): one at a time (busy).
Cancel ==
    /\ cancel = None /\ shown \in ACTIVE_STATES
    /\ cancel' = "asked"
    /\ UNCHANGED <<streamVars, shown, source, reads, failed, lines>>

\* ModelCreateService.cancel(): as for a pull.
CancelHandled ==
    /\ cancel = "asked"
    /\ \/ jobState = "queued" /\ Transition("cancelled") /\ cancel' = "cancelled"
       \/ jobState = "running" /\ Transition("cancelling") /\ cancel' = "cancelling"
       \/ jobState = "cancelling" /\ cancel' = "cancelling" /\ UNCHANGED streamVars
    /\ UNCHANGED <<shown, source, reads, failed, lines>>

CancelAnswered ==
    /\ cancel \in JobState
    /\ Render(cancel) /\ cancel' = None
    /\ UNCHANGED <<jobState, log, breaks, failed, lines>>

CancelFails ==
    /\ cancel # None
    /\ cancel' = None
    /\ UNCHANGED <<streamVars, shown, source, reads, failed, lines>>

-----------------------------------------------------------------------------
(* The event source.                                                       *)

\* onProgress, onState and onEnd.
Receive ==
    /\ conn.pipe # <<>>
    /\ LET m == Head(conn.pipe) IN
         \/ /\ m.type = "end" /\ Render(m.payload)
            /\ UNCHANGED lines
         \/ /\ m.type = "event" /\ m.payload = "progress"
            /\ lines' = [i \in DOMAIN lines \cup {m.id} |->
                           IF i # m.id THEN lines[i]
                           ELSE IF i \in DOMAIN lines /\ lines[i] < MaxLines THEN lines[i] + 1
                           ELSE IF i \in DOMAIN lines THEN MaxLines ELSE 1]
            /\ conn' = [conn EXCEPT !.pipe = Tail(@)]
            /\ UNCHANGED <<shown, source, reads>>
         \/ /\ m.type = "event" /\ m.payload \in JobState
            /\ reads' = reads \cup {"asked"}
            /\ conn' = [conn EXCEPT !.pipe = Tail(@)]
            /\ UNCHANGED <<shown, source, lines>>
         \/ /\ m.type = "ready"
            /\ conn' = [conn EXCEPT !.pipe = Tail(@)]
            /\ UNCHANGED <<shown, source, reads, lines>>
    /\ UNCHANGED <<jobState, log, breaks, cancel, failed>>

\* Mutant of Interrupted: the source is closed and the job is not asked for.
InterruptedForGood ==
    /\ source = "open" /\ breaks < MaxBreaks
    /\ breaks' = breaks + 1
    /\ source' = "closed" /\ conn' = Closed
    /\ UNCHANGED <<jobState, log, shown, reads, cancel, failed, lines>>

\* onerror: the source is closed for good, and the job is asked for once.
Interrupted ==
    /\ source = "open" /\ breaks < MaxBreaks
    /\ breaks' = breaks + 1
    /\ source' = "closed" /\ conn' = Closed
    /\ reads' = reads \cup {"asked"}
    /\ UNCHANGED <<jobState, log, shown, cancel, failed, lines>>

\* streamCreateJobEvents().
PollCreateStream == PollStream /\ UNCHANGED panelVars

PanelNext ==
    \/ ReadHandled \/ ReadAnswered \/ ReadFails
    \/ Cancel \/ CancelHandled \/ CancelAnswered \/ CancelFails
    \/ Receive \/ Interrupted

Next ==
    \/ JobNext /\ UNCHANGED panelVars
    \/ PollCreateStream
    \/ PanelNext

Spec == Init /\ [][Next]_vars

\* The loop polls on a timer, requests are answered, the network delivers what it does not
\* lose.  Nothing obliges the job to end.
FairSpec ==
    /\ Spec
    /\ WF_vars(PollCreateStream)
    /\ WF_vars(Receive) /\ WF_vars(ReadHandled) /\ WF_vars(ReadAnswered)
    /\ WF_vars(CancelAnswered \/ CancelFails)

-----------------------------------------------------------------------------
(* Properties.                                                             *)

\* The type of every variable.
TypeOK ==
    /\ StreamTypeOK
    /\ shown \in JobState \cup {None}
    /\ source \in {"none", "open", "closed"}
    /\ reads \subseteq JobState \cup {"asked"}
    /\ cancel \in JobState \cup {"asked", None}
    /\ failed \in 0..MaxFailedReads
    /\ \A i \in DOMAIN lines : i \in 1..Len(log) /\ lines[i] \in 1..MaxLines

\* A final state that the panel shows is the state of the job, and the panel has stopped
\* listening: no answer of an earlier moment is under way that could replace it, but for
\* the one to a cancellation.
OutcomeIsFinal ==
    shown \in TERMINAL_STATES => shown = jobState /\ source = "none" /\ reads = {}

\* A panel that shows an active job has a source, or an answer to come that brings one.
NeverDeaf == shown \in ACTIVE_STATES => source = "open" \/ reads # {} \/ failed > 0

\* A job that ends is seen to end, and is seen so from then on.
OutcomeShown == (Terminal /\ shown # None) ~> [](shown = jobState)

=============================================================================
