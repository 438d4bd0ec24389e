--------------------------- MODULE ModelPullPanel ---------------------------
(***************************************************************************)
(* The panel that follows a model pull (apps/web/src/ModelPullPanel.tsx    *)
(* and model-pull.ts) on the event stream of its job.                      *)
(*                                                                         *)
(* The browser's EventSource connects again after an interruption and      *)
(* names the last event that it received.  The panel itself throws its     *)
(* EventSource away, and opens another that names none, whenever           *)
(* onSucceeded is another function: the effect depends on it, ModelsPanel  *)
(* passes load, and load is another one whenever the dashboard becomes     *)
(* busy or idle.  Another request, the cancellation, travels on a          *)
(* connection of its own: its answer and the events overtake one another.  *)
(***************************************************************************)
EXTENDS JobEventStream

CONSTANTS
    None,
    Refuses,   \* can the server answer a reconnection with an error?
    MaxReopens \* how often the dashboard becomes busy or idle

VARIABLES
    shown,    \* state.job.state, None without a job
    source,   \* the EventSource
    reopened, \* how often it was replaced by another
    received, \* the ids of the events that it received, the last of which is lastEventId
    reply,    \* the answer to the active-job request or to the cancellation
    busy      \* setBusy

panelVars == <<shown, source, reopened, received, reply, busy>>
vars == <<streamVars, panelVars>>

LastEventId == IF received = <<>> THEN 0 ELSE received[Len(received)]

Init ==
    /\ StreamInit
    /\ shown = None /\ source = "none" /\ reopened = 0 /\ received = <<>>
    /\ reply = "asked" /\ busy = TRUE

-----------------------------------------------------------------------------
(* Requests.                                                               *)

\* The server answers the request for the active job of the target.
ReadActive ==
    /\ reply = "asked" /\ shown = None /\ ~Terminal
    /\ reply' = jobState
    /\ UNCHANGED <<streamVars, shown, source, reopened, received, busy>>

\* The job has ended: there is none to show.
NoActiveJob ==
    /\ reply = "asked" /\ shown = None /\ Terminal
    /\ reply' = None /\ busy' = FALSE
    /\ UNCHANGED <<streamVars, shown, source, reopened, received>>

\* cancel() on the server: it ends a queued job, and makes a running one cancelling.
CancelHandled ==
    /\ reply = "asked" /\ shown # None
    /\ \/ jobState = "queued" /\ Transition("cancelled") /\ reply' = "cancelled"
       \/ jobState = "running" /\ Transition("cancelling") /\ reply' = "cancelling"
       \/ jobState = "cancelling" /\ reply' = "cancelling" /\ UNCHANGED streamVars
    /\ UNCHANGED <<shown, source, reopened, received, busy>>

Answered ==
    /\ reply \in JobState
    /\ shown' = reply /\ reply' = None /\ busy' = FALSE
    /\ UNCHANGED <<streamVars, source, reopened, received>>

\* The request fails, or is refused because the job has ended.
Unanswered ==
    /\ reply # None /\ shown # None
    /\ reply' = None /\ busy' = FALSE
    /\ UNCHANGED <<streamVars, shown, source, reopened, received>>

\* The user asks for the cancellation.
Cancel ==
    /\ ~busy /\ shown \in ACTIVE_STATES
    /\ reply' = "asked" /\ busy' = TRUE
    /\ UNCHANGED <<streamVars, shown, source, reopened, received>>

-----------------------------------------------------------------------------
(* The event source.                                                       *)

\* The effect of a new job.
Connect ==
    /\ source = "none" /\ shown # None
    /\ source' = "open" /\ conn' = Opened(0)
    /\ UNCHANGED <<jobState, log, breaks, shown, reopened, received, reply, busy>>

\* The effect again, because onSucceeded is another function: the source is closed, whatever
\* it was doing and even after the end, and one is opened that starts with the first event.
Reopen ==
    /\ source # "none" /\ reopened < MaxReopens
    /\ reopened' = reopened + 1
    /\ source' = "open" /\ conn' = Opened(0) /\ received' = <<>>
    /\ UNCHANGED <<jobState, log, breaks, shown, reply, busy>>

\* applyPullSseEvent(): a job, a change of its state, or something that leaves it alone.
Shows(m) ==
    IF m.type \in {"ready", "end"} \/ m.payload \in JobState THEN m.payload ELSE shown

\* Mutant of Receive: an event is taken for the end when it tells of a final state.
ReceiveState ==
    /\ conn.pipe # <<>>
    /\ LET m == Head(conn.pipe) IN
         /\ shown' = Shows(m)
         /\ received' = IF m.id > 0 THEN Append(received, m.id) ELSE received
         /\ IF m.type = "end" \/ m.payload \in TERMINAL_STATES
            THEN source' = "closed" /\ conn' = Closed
            ELSE conn' = [conn EXCEPT !.pipe = Tail(@)] /\ UNCHANGED source
    /\ UNCHANGED <<jobState, log, breaks, reopened, reply, busy>>

\* A message is dispatched; the end closes the source.
Receive ==
    /\ conn.pipe # <<>>
    /\ LET m == Head(conn.pipe) IN
         /\ shown' = Shows(m)
         /\ received' = IF m.id > 0 THEN Append(received, m.id) ELSE received
         /\ IF m.type = "end" THEN source' = "closed" /\ conn' = Closed
            ELSE conn' = [conn EXCEPT !.pipe = Tail(@)] /\ UNCHANGED source
    /\ UNCHANGED <<jobState, log, breaks, reopened, reply, busy>>

\* The connection breaks: what is under way is lost.
Interrupted ==
    /\ source = "open" /\ breaks < MaxBreaks
    /\ breaks' = breaks + 1
    /\ source' = "waiting" /\ conn' = Closed
    /\ UNCHANGED <<jobState, log, shown, reopened, received, reply, busy>>

\* Mutant of Reconnect: the cursor of the request is not looked at.
ReconnectFromStart ==
    /\ source = "waiting"
    /\ source' = "open" /\ conn' = Opened(0)
    /\ UNCHANGED <<jobState, log, breaks, shown, reopened, received, reply, busy>>

\* The browser connects again, with Last-Event-ID.
Reconnect ==
    /\ source = "waiting"
    /\ source' = "open" /\ conn' = Opened(LastEventId)
    /\ UNCHANGED <<jobState, log, breaks, shown, reopened, received, reply, busy>>

\* An answer other than 200 closes an EventSource for ever.
Refused ==
    /\ Refuses /\ source = "waiting"
    /\ source' = "refused"
    /\ UNCHANGED <<streamVars, shown, reopened, received, reply, busy>>

\* streamPullJobEvents().
PollPullStream == PollStream /\ UNCHANGED panelVars

PanelNext ==
    \/ ReadActive \/ NoActiveJob \/ CancelHandled \/ Answered \/ Unanswered \/ Cancel
    \/ Connect \/ Reopen \/ Receive \/ Interrupted \/ Reconnect \/ Refused

Next ==
    \/ JobNext /\ UNCHANGED panelVars
    \/ PollPullStream
    \/ PanelNext

Spec == Init /\ [][Next]_vars

\* The loop polls on a timer, the network delivers what it does not lose, and the browser
\* connects again.  Nothing obliges the job to end, or the dashboard to become busy.
FairSpec ==
    /\ Spec
    /\ WF_vars(PollPullStream)
    /\ WF_vars(Connect) /\ WF_vars(Receive) /\ WF_vars(Reconnect)
    /\ WF_vars(Answered \/ Unanswered)

-----------------------------------------------------------------------------
(* Properties.                                                             *)

F == INSTANCE EventFeed WITH
        Id <- 1..(MaxEvents + Cardinality(JobState)),
        recorded <- Recorded, round <- reopened, delivered <- received

\* The type of every variable.
TypeOK ==
    /\ StreamTypeOK
    /\ shown \in JobState \cup {None}
    /\ source \in {"none", "open", "waiting", "closed", "refused"}
    /\ reopened \in 0..MaxReopens
    /\ received \in Seq(1..Len(log))
    /\ reply \in JobState \cup {"asked", None}
    /\ busy \in BOOLEAN

\* Whatever breaks, one EventSource receives the events of the job in order, each of them
\* once over all its connections; the source that the panel opens in its place receives them
\* again, from the first: the stream implements EventFeed.
DeliversLikeFeed == F!Feed

\* A source is closed for its end only when it has received every event that there is, the
\* one with the outcome included.
EndIsComplete == source = "closed" => Terminal /\ received = Recorded

\* A job that ends is seen to end, unless the server refused the panel.
EndReachesPanel == Terminal /\ source # "none" ~> source \in {"closed", "refused"}

=============================================================================
