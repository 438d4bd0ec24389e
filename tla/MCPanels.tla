------------------------------ MODULE MCPanels ------------------------------
(***************************************************************************)
(* What a tab of the browser shows while the API goes on.  A behaviour     *)
(* follows one of                                                          *)
(*   - pull: the panel of a model pull on the events of its job;           *)
(*   - create: the panel of a model create on the events of its job;       *)
(*   - dashboard: a dashboard, and the panels of its operations;           *)
(*   - audit: the pages of the audit events, and what is purged of them;   *)
(*   - logs: the live logs of a container.                                 *)
(***************************************************************************)
EXTENDS Naturals, Sequences

CONSTANTS
    None,
    MaxEvents, MaxBreaks, Refuses, MaxReopens, MaxFailedReads, \* of the panels of jobs
    Target, MaxRebinds, MaxRequests,                         \* of Dashboard
    Action, All, PageSize, BatchSize, MaxBatches, Retention, \* of AuditTrail
    MaxTime, MaxRecorded,
    Stream, MaxChunks, MaxEntries                            \* of LogStream

VARIABLES
    scene,                                                \* the instance
    jobState, log, conn, breaks, shown, source,           \* both panels of jobs
    reopened, received, reply, asking,                    \* ModelPullPanel
    reads, cancel, failed, lines,                         \* ModelCreatePanel
    phase, selected, status, loading, requests, op, busy, bound, \* Dashboard
    now, events, recorded, purge, panel, answer, walk,    \* AuditTrail
    viewer, browser, route, ssh, written                  \* LogStream

jobVars == <<jobState, log, conn, breaks, shown, source>>
pullVars == <<reopened, received, reply, asking>>
createVars == <<reads, cancel, failed, lines>>
dashboardVars == <<phase, selected, status, loading, requests, op, busy, bound>>
auditVars == <<now, events, recorded, purge, panel, answer, walk>>
logsVars == <<viewer, browser, route, ssh, written>>

sceneVars == <<scene, jobVars, pullVars, createVars, dashboardVars, auditVars, logsVars>>

Pull == INSTANCE ModelPullPanel WITH busy <- asking
Create == INSTANCE ModelCreatePanel
Dashboard == INSTANCE Dashboard
Audit == INSTANCE AuditTrail WITH MaxEvents <- MaxRecorded
Logs == INSTANCE LogStream WITH panel <- viewer, events <- written

\* What the code takes for granted of its parameters.
ASSUME PullPanelAssumption ==
    /\ None \notin Pull!JobState \cup {"asked"}
    /\ MaxBreaks \in Nat /\ MaxReopens \in Nat

ASSUME CreatePanelAssumption ==
    /\ None \notin Create!JobState \cup {"asked"}
    /\ MaxBreaks \in Nat /\ MaxFailedReads \in Nat

ASSUME DashboardAssumption ==
    /\ None \notin Target \cup Dashboard!Panel
    /\ MaxRebinds \in Nat /\ MaxRequests \in Nat

ASSUME AuditAssumption ==
    /\ PageSize \in Nat \ {0} /\ BatchSize \in Nat
    /\ MaxBatches \in Nat /\ Retention \in Nat /\ MaxTime \in Nat /\ MaxRecorded \in Nat

ASSUME LogsAssumption == None \notin Stream /\ MaxChunks \in Nat /\ MaxEntries \in Nat

NoJob == jobState = None /\ log = None /\ conn = None /\ breaks = None /\ shown = None /\ source = None
NoPull == reopened = None /\ received = None /\ reply = None /\ asking = None
NoCreate == reads = None /\ cancel = None /\ failed = None /\ lines = None
NoDashboard ==
    /\ phase = None /\ selected = None /\ status = None /\ loading = None
    /\ requests = None /\ op = None /\ busy = None /\ bound = None
NoAudit ==
    /\ now = None /\ events = None /\ recorded = None /\ purge = None
    /\ panel = None /\ answer = None /\ walk = None
NoLogs == viewer = None /\ browser = None /\ route = None /\ ssh = None /\ written = None

SceneInit ==
    \/ scene = "pull" /\ Pull!Init /\ NoCreate /\ NoDashboard /\ NoAudit /\ NoLogs
    \/ scene = "create" /\ Create!Init /\ NoPull /\ NoDashboard /\ NoAudit /\ NoLogs
    \/ scene = "dashboard" /\ Dashboard!Init /\ NoJob /\ NoPull /\ NoCreate /\ NoAudit /\ NoLogs
    \/ scene = "audit" /\ Audit!Init /\ NoJob /\ NoPull /\ NoCreate /\ NoDashboard /\ NoLogs
    \/ scene = "logs" /\ Logs!Init /\ NoJob /\ NoPull /\ NoCreate /\ NoDashboard /\ NoAudit

SceneNext ==
    /\ \/ /\ scene = "pull" /\ Pull!Next
          /\ UNCHANGED <<createVars, dashboardVars, auditVars, logsVars>>
       \/ /\ scene = "create" /\ Create!Next
          /\ UNCHANGED <<pullVars, dashboardVars, auditVars, logsVars>>
       \/ /\ scene = "dashboard" /\ Dashboard!Next
          /\ UNCHANGED <<jobVars, pullVars, createVars, auditVars, logsVars>>
       \/ /\ scene = "audit" /\ Audit!Next
          /\ UNCHANGED <<jobVars, pullVars, createVars, dashboardVars, logsVars>>
       \/ /\ scene = "logs" /\ Logs!Next
          /\ UNCHANGED <<jobVars, pullVars, createVars, dashboardVars, auditVars>>
    /\ UNCHANGED scene

SceneSpec == SceneInit /\ [][SceneNext]_sceneVars

-----------------------------------------------------------------------------
(* Properties of the part that is followed.                                *)

\* A source of the panel of a pull closes for its end only when it has every event, the
\* outcome included.
\* The panel of a create shows a final state only when it is final, and while it shows an
\* active job it has a source or an answer to come.
PanelInvariant ==
    /\ scene = "pull" => Pull!TypeOK /\ Pull!EndIsComplete
    /\ scene = "create" => Create!TypeOK /\ Create!OutcomeIsFinal /\ Create!NeverDeaf

\* One EventSource of the panel of a pull receives the events of its job in order, each of
\* them once over all its connections; the next source receives them again, from the first.
Feed == INSTANCE EventFeed WITH
    Id <- Nat, recorded <- IF scene = "pull" THEN Pull!Recorded ELSE <<>>,
    round <- IF scene = "pull" THEN reopened ELSE 0,
    delivered <- IF scene = "pull" THEN received ELSE <<>>

DeliversLikeFeed == Feed!Feed

\* The panels of one tab do not run two operations at once; controls are disabled only for
\* a request that a mounted panel waits for, and that panel is of the selected target.
DashboardInvariant ==
    scene = "dashboard" =>
        /\ Dashboard!TypeOK
        /\ Dashboard!OneLiveOperation /\ Dashboard!BusyIsLive /\ Dashboard!LiveIsSelected

\* Who goes through the pages to the last one has seen every event that stayed; what is
\* shown is of the filter that is shown; and a purge that calls itself complete leaves no
\* expired event.
AuditInvariant ==
    scene = "audit" =>
        Audit!TypeOK /\ Audit!NothingSkipped /\ Audit!ShownMatches /\ Audit!PurgeIsComplete

\* A purge removes expired events only, the oldest first.
PurgesOldestFirst == [][scene = "audit" => Audit!OldestPurged]_sceneVars

\* The live logs show the newest lines of a stream, without a gap, and tell its end only
\* after them; a panel that says that it is connected can disconnect; and a handler that is
\* over leaves no connection to the host.
LogsInvariant ==
    scene = "logs" =>
        /\ Logs!TypeOK /\ Logs!EntriesAreNewest /\ Logs!EndIsWhole
        /\ Logs!ConnectedIsHeld /\ Logs!OverReleases

\* A command whose output nobody reads is one that started after its browser had gone.
OnlyAbandonedEarly == [][scene = "logs" => Logs!AbandonedEarly]_sceneVars

=============================================================================
