------------------------------ MODULE LogStream ------------------------------
(***************************************************************************)
(* Live container logs: the panel (apps/web/src/LiveLogsPanel.tsx and      *)
(* log-stream.ts), the route of the API (server.ts, logs.ts) and the       *)
(* command that it runs on the host (streamPrivateKey() of packages/ssh).  *)
(*                                                                         *)
(* Each connection of the panel is a stream: a request of the browser, a   *)
(* handler of the API and an SSH connection with docker logs --follow.     *)
(* The promise of an aborted request is rejected before the user can click *)
(* again, so that a disconnection is one step of the panel.                *)
(***************************************************************************)
EXTENDS Naturals, Sequences, FiniteSets

CONSTANTS
    None,
    Stream,     \* the connections that the panel makes
    MaxChunks,  \* bound on the chunks that a container writes
    MaxEntries  \* MAX_LOG_ENTRIES

VARIABLES
    panel,   \* streamState, entries, controllerRef, and the last chunk received of each stream
    browser, \* for each stream, the request: none, here, gone
    route,   \* for each stream, the handler: none, opening, streaming, over
    ssh,     \* for each stream, the SSH connection with the command, and how much was written
    events   \* for each stream, what is on the way to the browser

vars == <<panel, browser, route, ssh, events>>

Connected == panel.state \in {"connecting", "connected"}

Init ==
    /\ panel = [state |-> "idle", entries |-> <<>>, controller |-> None,
                last |-> [s \in Stream |-> 0]]
    /\ browser = [s \in Stream |-> "none"]
    /\ route = [s \in Stream |-> "none"]
    /\ ssh = [s \in Stream |-> [state |-> "none", sent |-> 0, read |-> 0, exited |-> FALSE]]
    /\ events = [s \in Stream |-> <<>>]

\* writeEvent(): nothing is written to a browser that is gone.
Write(s, es) == events' = [events EXCEPT ![s] = IF browser[s] = "here" THEN @ \o es ELSE @]

Event(type) == [type |-> type, n |-> 0]
Log(n) == [type |-> "log", n |-> n]

-----------------------------------------------------------------------------
(* The handler of the API and the command.                                 *)

\* connectPinned(): the client is ready, and the command is asked for.
SshReady(s) ==
    /\ route[s] = "opening" /\ ssh[s].state = "connecting"
    /\ ssh' = [ssh EXCEPT ![s].state = "starting"]
    /\ UNCHANGED <<panel, browser, route, events>>

Refuse(s) ==
    /\ route' = [route EXCEPT ![s] = "over"]
    /\ ssh' = [ssh EXCEPT ![s].state = "ended"]
    /\ Write(s, <<Event("refused")>>)
    /\ UNCHANGED <<panel, browser>>

\* No connection, or not to the pinned host.
SshFails(s) == route[s] = "opening" /\ ssh[s].state = "connecting" /\ Refuse(s)

\* The startup timer fires, or the command cannot be started.
StartFails(s) == route[s] = "opening" /\ ssh[s].state = "starting" /\ Refuse(s)

\* The command streams: the handler takes over the reply, writes the header and the first
\* event, listens to the command and to the end of the browser, and lets the command flow.
Starts(s) ==
    /\ route[s] = "opening" /\ ssh[s].state = "starting"
    /\ route' = [route EXCEPT ![s] = "streaming"]
    /\ ssh' = [ssh EXCEPT ![s].state = "open"]
    /\ Write(s, <<Event("ready")>>)
    /\ UNCHANGED <<panel, browser>>

\* The container writes a line that docker logs follows.
Writes(s) ==
    /\ ssh[s].state = "open" /\ ~ssh[s].exited /\ ssh[s].sent < MaxChunks
    /\ ssh' = [ssh EXCEPT ![s].sent = @ + 1]
    /\ UNCHANGED <<panel, browser, route, events>>

\* The container stops, and docker logs ends.
Exits(s) ==
    /\ ssh[s].state = "open" /\ ~ssh[s].exited
    /\ ssh' = [ssh EXCEPT ![s].exited = TRUE]
    /\ UNCHANGED <<panel, browser, route, events>>

\* The data event of the channel, for what has arrived.
Forwards(s) ==
    /\ ssh[s].state = "open" /\ ssh[s].read < ssh[s].sent
    /\ \E n \in (ssh[s].read + 1)..ssh[s].sent :
         /\ ssh' = [ssh EXCEPT ![s].read = n]
         /\ Write(s, [i \in 1..(n - ssh[s].read) |-> Log(ssh[s].read + i)])
    /\ UNCHANGED <<panel, browser, route>>

\* Mutant of Completes: the exit of the command is taken for the end of its output.
CompletesOnExit(s) ==
    /\ ssh[s].state = "open" /\ ssh[s].exited
    /\ ssh' = [ssh EXCEPT ![s].state = "ended"]
    /\ route' = [route EXCEPT ![s] = "over"]
    /\ Write(s, <<Event("end"), Event("eof")>>)
    /\ UNCHANGED <<panel, browser>>

\* The channel is closed, after the last of its data: done is resolved.
Completes(s) ==
    /\ ssh[s].state = "open" /\ ssh[s].exited /\ ssh[s].read = ssh[s].sent
    /\ ssh' = [ssh EXCEPT ![s].state = "ended"]
    /\ route' = [route EXCEPT ![s] = "over"]
    /\ Write(s, <<Event("end"), Event("eof")>>)
    /\ UNCHANGED <<panel, browser>>

\* The channel fails: done is rejected.
Breaks(s) ==
    /\ ssh[s].state = "open"
    /\ ssh' = [ssh EXCEPT ![s].state = "ended"]
    /\ route' = [route EXCEPT ![s] = "over"]
    /\ Write(s, <<Event("error"), Event("eof")>>)
    /\ UNCHANGED <<panel, browser>>

\* Mutant of BrowserGone: the listener of the handler is removed with the first data.
BrowserGoneUnheard(s) ==
    /\ browser' = [browser EXCEPT ![s] = "gone"]
    /\ events' = [events EXCEPT ![s] = <<>>]
    /\ IF route[s] = "streaming" /\ ssh[s].read = 0
       THEN route' = [route EXCEPT ![s] = "over"] /\ ssh' = [ssh EXCEPT ![s].state = "ended"]
       ELSE UNCHANGED <<route, ssh>>

\* The connection of the browser is closed: the listener of the handler, if it is there
\* already, cancels the command.
BrowserGone(s) ==
    /\ browser' = [browser EXCEPT ![s] = "gone"]
    /\ events' = [events EXCEPT ![s] = <<>>]
    /\ IF route[s] = "streaming"
       THEN route' = [route EXCEPT ![s] = "over"] /\ ssh' = [ssh EXCEPT ![s].state = "ended"]
       ELSE UNCHANGED <<route, ssh>>

-----------------------------------------------------------------------------
(* The panel.                                                              *)

\* connect(): a request with a controller of its own.  The entries stay.
Connect(s) ==
    /\ ~Connected /\ panel.state # "left" /\ browser[s] = "none"
    /\ browser' = [browser EXCEPT ![s] = "here"]
    /\ route' = [route EXCEPT ![s] = "opening"]
    /\ ssh' = [ssh EXCEPT ![s].state = "connecting"]
    /\ panel' = [panel EXCEPT !.state = "connecting", !.controller = s]
    /\ UNCHANGED events

\* disconnect(): by the user, or because an operation starts that disables the panel.
Disconnect ==
    /\ panel.controller # None
    /\ panel' = [panel EXCEPT !.state = "idle", !.controller = None]
    /\ BrowserGone(panel.controller)

\* The panel is unmounted: another target is selected, or the user signs out.
Leave ==
    /\ panel.state # "left"
    /\ panel' = [panel EXCEPT !.state = "left", !.controller = None]
    /\ IF panel.controller = None THEN UNCHANGED <<browser, route, ssh, events>>
       ELSE BrowserGone(panel.controller)

\* clear(): the stream goes on.
Clear ==
    /\ panel.entries # <<>> /\ panel.state # "left"
    /\ panel' = [panel EXCEPT !.entries = <<>>]
    /\ UNCHANGED <<browser, route, ssh, events>>

\* appendBoundedLogEntries(): the oldest entries make room.
AppendBounded(entries, entry) ==
    LET all == Append(entries, entry)
    IN IF Len(all) > MaxEntries THEN Tail(all) ELSE all

\* What an event does to a panel that is mounted.
Shown(s, e) ==
    CASE e.type = "ready" -> [panel EXCEPT !.state = "connected"]
      [] e.type = "log" -> [panel EXCEPT !.entries = AppendBounded(@, <<s, e.n>>), !.last[s] = e.n]
      [] e.type = "end" -> [panel EXCEPT !.state = "ended"]
      [] e.type = "error" -> [panel EXCEPT !.state = "error"]

\* The loop that reads the response.
Receive(s) ==
    /\ browser[s] = "here" /\ events[s] # <<>> /\ Head(events[s]).type \notin {"eof", "refused"}
    /\ panel' = Shown(s, Head(events[s]))
    /\ events' = [events EXCEPT ![s] = Tail(@)]
    /\ UNCHANGED <<browser, route, ssh>>

\* The end of the function: the reference to the controller is cleared if it is its own.
Released(s) == IF panel.controller = s THEN None ELSE panel.controller

\* The response has ended, or it is an error.
Ends(s) ==
    /\ browser[s] = "here" /\ events[s] # <<>> /\ Head(events[s]).type \in {"eof", "refused"}
    /\ panel' = [panel EXCEPT !.state = IF Head(events[s]).type = "refused" THEN "error" ELSE @,
                              !.controller = Released(s)]
    /\ BrowserGone(s)

\* The network loses the connection; the end of a response and its last event are written
\* together, and are lost together.
Lost(s) ==
    /\ browser[s] = "here"
    /\ events[s] # <<>> => Head(events[s]).type # "eof"
    /\ panel' = [panel EXCEPT !.state = "error", !.controller = Released(s)]
    /\ BrowserGone(s)

Next ==
    \/ Disconnect \/ Leave \/ Clear
    \/ \E s \in Stream :
         \/ Connect(s) \/ Receive(s) \/ Ends(s) \/ Lost(s)
         \/ SshReady(s) \/ SshFails(s) \/ StartFails(s) \/ Starts(s)
         \/ Writes(s) \/ Exits(s) \/ Forwards(s) \/ Completes(s) \/ Breaks(s)

Spec == Init /\ [][Next]_vars

\* Timers bound the start of a command, what arrives is read, and a channel is closed when
\* its command has ended.  Nothing obliges a container to stop.
Progress(s) ==
    /\ WF_vars(SshReady(s) \/ SshFails(s))
    /\ WF_vars(StartFails(s) \/ Starts(s))
    /\ WF_vars(Forwards(s))
    /\ WF_vars(Completes(s))
    /\ WF_vars(Receive(s) \/ Ends(s))

FairSpec == Spec /\ \A s \in Stream : Progress(s)

-----------------------------------------------------------------------------
(* Properties.                                                             *)

\* The type of every variable.
TypeOK ==
    /\ panel.state \in {"idle", "connecting", "connected", "ended", "error", "left"}
    /\ panel.controller \in Stream \cup {None}
    /\ panel.entries \in Seq(Stream \X (1..MaxChunks)) /\ Len(panel.entries) <= MaxEntries
    /\ browser \in [Stream -> {"none", "here", "gone"}]
    /\ route \in [Stream -> {"none", "opening", "streaming", "over"}]
    /\ \A s \in Stream : ssh[s].read <= ssh[s].sent /\ ssh[s].exited \in BOOLEAN

\* The list shows the newest lines that were received of a stream, without a gap, whatever
\* was dropped at its start.
EntriesAreNewest ==
    \A i \in DOMAIN panel.entries :
        LET s == panel.entries[i][1]
            later == {k \in DOMAIN panel.entries : k > i /\ panel.entries[k][1] = s}
        IN panel.entries[i][2] = panel.last[s] - Cardinality(later)

\* A stream is reported to have ended when everything that the command wrote was shown.
EndIsWhole ==
    \A s \in Stream : events[s] # <<>> /\ Head(events[s]).type = "end" => panel.last[s] = ssh[s].sent

\* A panel that says that it is connected holds the controller of a request that is open:
\* Disconnect reaches it, however the end of an earlier stream and a new one interleave.
ConnectedIsHeld == Connected => panel.controller # None /\ browser[panel.controller] = "here"

\* A handler that is over leaves no connection to the host.
OverReleases == \A s \in Stream : route[s] = "over" => ssh[s].state = "ended"

\* A command whose output nobody reads is one that started after its browser had gone.
AbandonedEarly ==
    \A s \in Stream : browser'[s] = "gone" /\ route'[s] = "streaming" =>
        browser[s] = "gone" /\ route[s] \in {"opening", "streaming"}

\* A stream that ends on the host is seen to end by a panel that is there to see it.
EndIsSeen ==
    \A s \in Stream : ssh[s].exited ~> browser[s] = "gone"

\* A command does not go on after the browser has disconnected.
FollowEnds == \A s \in Stream : browser[s] = "gone" ~> ssh[s].state = "ended"

=============================================================================
