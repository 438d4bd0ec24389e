------------------------------ MODULE MCStreams ------------------------------
(***************************************************************************)
(* What travels between a browser, the API and a host.  A behaviour        *)
(* follows one of                                                          *)
(*   - pull: the panel of a model pull on the events of its job;           *)
(*   - create: the panel of a model create on the events of its job;       *)
(*   - exchange: one HTTP exchange with Ollama over SSH;                   *)
(*   - logs: the live logs of a container.                                 *)
(***************************************************************************)
EXTENDS Naturals, Sequences

CONSTANTS None, s1, s2

VARIABLES
    scene,                                 \* the instance
    jobState, log, conn, breaks,           \* JobEventStream
    shown, source,                         \* both panels of jobs
    reopened, received, reply, busy,       \* ModelPullPanel
    reads, cancel, failed, lines,          \* ModelCreatePanel
    call, client, arrived, decoder, timer, outcome, \* PinnedExchange
    panel, browser, route, ssh, events     \* LogStream

jobVars == <<jobState, log, conn, breaks, shown, source>>
pullVars == <<reopened, received, reply, busy>>
createVars == <<reads, cancel, failed, lines>>
exchangeVars == <<call, client, arrived, decoder, timer, outcome>>
logsVars == <<panel, browser, route, ssh, events>>

sceneVars == <<scene, jobVars, pullVars, createVars, exchangeVars, logsVars>>

pullPart == <<jobVars, pullVars>>
createPart == <<jobVars, createVars>>

Streams == {s1, s2}

\* The bytes of a response, and a line of a body.
Bytes == {"CR", "LF", "h", "H", "{", "}"} \cup
             {"0", "1", "2", "3", "4", "5", "6", "7", "8", "9"}
Line == <<"{", "}", "LF">>

Pull == INSTANCE ModelPullPanel WITH
    MaxEvents <- 1, MaxBreaks <- 1, Refuses <- TRUE, MaxReopens <- 1
Create == INSTANCE ModelCreatePanel WITH MaxEvents <- 1, MaxBreaks <- 1, MaxFailedReads <- 0
Exchange == INSTANCE PinnedExchange WITH
    Byte <- Bytes, Bodies <- {<<>>, <<"{">>, Line, Line \o Line}, MaxLine <- 2, MaxChunks <- 2
Logs == INSTANCE LogStream WITH Stream <- Streams, MaxChunks <- 3, MaxEntries <- 2

NoJob == jobState = None /\ log = None /\ conn = None /\ breaks = None /\ shown = None /\ source = None
NoPull == reopened = None /\ received = None /\ reply = None /\ busy = None
NoCreate == reads = None /\ cancel = None /\ failed = None /\ lines = None
NoExchange ==
    /\ call = None /\ client = None /\ arrived = None
    /\ decoder = None /\ timer = None /\ outcome = None
NoLogs == panel = None /\ browser = None /\ route = None /\ ssh = None /\ events = None

SceneInit ==
    \/ scene = "pull" /\ Pull!Init /\ NoCreate /\ NoExchange /\ NoLogs
    \/ scene = "create" /\ Create!Init /\ NoPull /\ NoExchange /\ NoLogs
    \/ scene = "exchange" /\ Exchange!ExchangeInit /\ NoJob /\ NoPull /\ NoCreate /\ NoLogs
    \/ scene = "logs" /\ Logs!Init /\ NoJob /\ NoPull /\ NoCreate /\ NoExchange

SceneNext ==
    /\ \/ scene = "pull" /\ Pull!Next /\ UNCHANGED <<createVars, exchangeVars, logsVars>>
       \/ scene = "create" /\ Create!Next /\ UNCHANGED <<pullVars, exchangeVars, logsVars>>
       \/ /\ scene = "exchange" /\ Exchange!ExchangeNext
          /\ UNCHANGED <<jobVars, pullVars, createVars, logsVars>>
       \/ /\ scene = "logs" /\ Logs!Next
          /\ UNCHANGED <<jobVars, pullVars, createVars, exchangeVars>>
    /\ UNCHANGED scene

\* The fairness of each part, where it is followed.
PullFairness ==
    /\ WF_pullPart(scene = "pull" /\ Pull!PollPullStream)
    /\ WF_pullPart(scene = "pull" /\ Pull!Connect)
    /\ WF_pullPart(scene = "pull" /\ Pull!Receive)
    /\ WF_pullPart(scene = "pull" /\ Pull!Reconnect)
    /\ WF_pullPart(scene = "pull" /\ (Pull!Answered \/ Pull!Unanswered))

CreateFairness ==
    /\ WF_createPart(scene = "create" /\ Create!PollCreateStream)
    /\ WF_createPart(scene = "create" /\ Create!Receive)
    /\ WF_createPart(scene = "create" /\ Create!ReadHandled)
    /\ WF_createPart(scene = "create" /\ Create!ReadAnswered)
    /\ WF_createPart(scene = "create" /\ (Create!CancelAnswered \/ Create!CancelFails))

ExchangeFairness ==
    /\ WF_exchangeVars(scene = "exchange" /\ (Exchange!Ready \/ Exchange!ConnectFails))
    /\ WF_exchangeVars(scene = "exchange" /\ Exchange!TimesOut)

LogsFairness ==
    \A s \in Streams :
        /\ WF_logsVars(scene = "logs" /\ (Logs!SshReady(s) \/ Logs!SshFails(s)))
        /\ WF_logsVars(scene = "logs" /\ (Logs!StartFails(s) \/ Logs!Starts(s)))
        /\ WF_logsVars(scene = "logs" /\ Logs!Forwards(s))
        /\ WF_logsVars(scene = "logs" /\ Logs!Completes(s))
        /\ WF_logsVars(scene = "logs" /\ (Logs!Receive(s) \/ Logs!Ends(s)))

SceneSpec ==
    /\ SceneInit /\ [][SceneNext]_sceneVars
    /\ PullFairness /\ CreateFairness /\ ExchangeFairness /\ LogsFairness

-----------------------------------------------------------------------------
(* Properties of the part that is followed.                                *)

\* A pull that ends is seen to end, by a source that was opened anew too, unless the server
\* refused the panel.
EndReachesPanel ==
    (IF scene = "pull" THEN Pull!Terminal /\ source # "none" ELSE FALSE)
        ~> source \in {"closed", "refused"}

\* A create that ends is seen to end, and is seen so from then on.
OutcomeShown ==
    (IF scene = "create" THEN Create!Terminal /\ shown # None ELSE FALSE) ~> [](shown = jobState)

\* Once the channel is open every exchange ends, and one that is not a stream ends whatever
\* the host does or leaves.
ExchangeEnds ==
    (IF scene = "exchange" THEN client = "open" \/ call.kind \notin Exchange!Streaming ELSE FALSE)
        ~> outcome # "none"

\* A log stream that ends on the host is seen to end by a panel that is there to see it.
EndIsSeen ==
    \A s \in Streams : (IF scene = "logs" THEN ssh[s].exited ELSE FALSE)
                        ~> (IF scene = "logs" THEN browser[s] = "gone" ELSE FALSE)

\* Whatever is followed to its end is seen to end.
EndsAreSeen == EndReachesPanel /\ OutcomeShown /\ ExchangeEnds /\ EndIsSeen

=============================================================================
