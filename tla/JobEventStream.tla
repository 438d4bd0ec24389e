--------------------------- MODULE JobEventStream ---------------------------
(***************************************************************************)
(* The event stream of one job: the job with its recorded events, the loop *)
(* that writes them to a connection (pull-job-events.ts and                *)
(* create-job-events.ts), and the connection, which delivers in order or   *)
(* breaks.                                                                 *)
(*                                                                         *)
(* The job is any job that obeys the transition table; what runs it is     *)
(* modelled by ModelPull and ModelCreate.  A restart of the API breaks the *)
(* connection and ends the job.                                            *)
(***************************************************************************)
EXTENDS JobStates, Naturals, Sequences, FiniteSets

CONSTANTS
    MaxEvents, \* bound on the events that are not changes of the state
    MaxBreaks  \* bound on the times that the connection breaks

VARIABLES
    jobState, \* jobs.state
    log,      \* job_events: the payload of each event, by its sequence number
    conn,     \* the connection: the cursor of the loop, and what is under way
    breaks    \* how often it broke (bound)

streamVars == <<jobState, log, conn, breaks>>

\* The events that have a public form: changes of the state, and the others, of which
\* "progress" stands for all.  An event without one is skipped, but the cursor passes it.
Visible == JobState \cup {"progress"}

Payload == Visible \cup {"hidden"}

Terminal == jobState \in TERMINAL_STATES

Closed == [open |-> FALSE, cursor |-> 0, pipe |-> <<>>]

Ready == [type |-> "ready", id |-> 0, payload |-> jobState]
End == [type |-> "end", id |-> 0, payload |-> jobState]

\* A stream is opened after a cursor; its first message is the job as it is.
Opened(after) == [open |-> TRUE, cursor |-> after, pipe |-> <<Ready>>]

StreamInit ==
    /\ jobState = "queued"
    /\ log = <<"queued">>
    /\ conn = Closed
    /\ breaks = 0

-----------------------------------------------------------------------------
(* The job.                                                                *)

\* JobService.transition(): the row and its event in one transaction.
Transition(to) ==
    /\ CanTransition(jobState, to)
    /\ jobState' = to
    /\ log' = Append(log, to)
    /\ UNCHANGED <<conn, breaks>>

AppendEvent(payload) ==
    /\ ~Terminal
    /\ Cardinality({i \in DOMAIN log : log[i] \notin JobState}) < MaxEvents
    /\ log' = Append(log, payload)
    /\ UNCHANGED <<jobState, conn, breaks>>

-----------------------------------------------------------------------------
(* The loop of the server.                                                 *)

\* ORDER BY sequence: the n-th of ids is the one that n of them do not follow.
InOrder(ids) ==
    [n \in 1..Cardinality(ids) |-> CHOOSE i \in ids : Cardinality({h \in ids : h <= i}) = n]

\* The events after the cursor that have a public form.
NewEvents ==
    LET ids == InOrder({i \in DOMAIN log : i > conn.cursor /\ log[i] \in Visible})
    IN [k \in 1..Len(ids) |-> [type |-> "event", id |-> ids[k], payload |-> log[ids[k]]]]

\* Mutant of PollStream: only a turn that has events to write sees that the job has ended.
PollStreamEndsWithEvents ==
    /\ conn.open /\ conn.cursor < Len(log)
    /\ conn' = [conn EXCEPT !.cursor = Len(log), !.open = ~Terminal,
                            !.pipe = @ \o NewEvents \o IF Terminal THEN <<End>> ELSE <<>>]
    /\ UNCHANGED <<jobState, log, breaks>>

\* One turn: the job and its events are read together, the new events are written, and a
\* job that has ended ends the stream.
PollStream ==
    /\ conn.open /\ (conn.cursor < Len(log) \/ Terminal)
    /\ conn' = [conn EXCEPT !.cursor = Len(log), !.open = ~Terminal,
                            !.pipe = @ \o NewEvents \o IF Terminal THEN <<End>> ELSE <<>>]
    /\ UNCHANGED <<jobState, log, breaks>>

\* The job goes on, whoever is watching.
JobNext ==
    \/ \E to \in JobState : Transition(to)
    \/ \E payload \in {"progress", "hidden"} : AppendEvent(payload)

\* The sequence numbers of the events that a panel is to receive.
Recorded == InOrder({i \in DOMAIN log : log[i] \in Visible})

StreamTypeOK ==
    /\ jobState \in JobState
    /\ log \in Seq(Payload) /\ Len(log) > 0
    /\ conn.open \in BOOLEAN /\ conn.cursor \in 0..Len(log)
    /\ \A k \in DOMAIN conn.pipe : conn.pipe[k].id \in 0..Len(log)
    /\ breaks \in 0..MaxBreaks

=============================================================================
