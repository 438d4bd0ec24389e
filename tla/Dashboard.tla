------------------------------ MODULE Dashboard ------------------------------
(***************************************************************************)
(* The dashboard (apps/web/src/App.tsx), which selects a target and shows  *)
(* its status, and the panels of operations that it mounts: LifecyclePanel *)
(* and UpdatePanel, the latter with ContainerUpdatePanel and               *)
(* ManualRollbackPanel.                                                    *)
(*                                                                         *)
(* A panel is mounted for a target and the container it is bound to (its   *)
(* key).  When the dashboard shows another pair, or none, the panel is     *)
(* discarded with its state, and its effect is cleaned up; the request     *)
(* that it has under way goes on.  React renders, and runs effects, before *)
(* the next event of the browser.  Answers arrive in any order.            *)
(*                                                                         *)
(* The candidate of a rollback is left out: the panel may start one        *)
(* whenever it is mounted.                                                 *)
(***************************************************************************)
EXTENDS Naturals, Sequences, FiniteSets

CONSTANTS
    None,
    Target,
    MaxRebinds, \* bound on the operations that replace a container
    MaxRequests \* bound on the requests under way

VARIABLES
    phase,    \* what App shows; the rest is about the dashboard
    selected, \* selectedTargetId
    status,   \* the status shown: a target and its container, or None
    loading,  \* catalogBusy and statusBusy
    requests, \* the requests under way, in the order in which they were made
    op,       \* the phase of each panel that is mounted, "idle" for the others
    busy,     \* lifecycleBusy and updateBusy
    bound     \* the container that the server has for each target

vars == <<phase, selected, status, loading, requests, op, busy, bound>>

Panel == {"lifecycle", "update", "rollback"}

\* A request: what for, whose answer the panel still waits for (live), what the server has
\* done already, and the container that the target had when it was made.
Request(type, t, panel) ==
    [type |-> type, target |-> t, panel |-> panel, live |-> panel # None, done |-> FALSE,
     from |-> IF t = None THEN 0 ELSE bound[t]]

Nothing == \* a dashboard that is not there
    /\ selected' = None /\ status' = None /\ requests' = <<>>
    /\ loading' = [catalog |-> FALSE, status |-> FALSE]
    /\ op' = [p \in Panel |-> "idle"] /\ busy' = [lifecycle |-> FALSE, update |-> FALSE]

Init ==
    /\ phase = "loading"
    /\ selected = None /\ status = None /\ requests = <<>>
    /\ loading = [catalog |-> FALSE, status |-> FALSE]
    /\ op = [p \in Panel |-> "idle"] /\ busy = [lifecycle |-> FALSE, update |-> FALSE]
    /\ bound = [t \in Target |-> 0]

-----------------------------------------------------------------------------
(* App: what is shown.                                                     *)

\* The answers of setupStatus() and session().
Boot ==
    /\ phase = "loading"
    /\ \/ phase' \in {"bootstrap", "login", "fatal"}
          /\ UNCHANGED <<selected, status, loading, requests, op, busy, bound>>
       \/ /\ phase' = "authenticated"
          /\ loading' = [catalog |-> TRUE, status |-> FALSE]
          /\ requests' = <<Request("catalog", None, None)>>
          /\ UNCHANGED <<selected, status, op, busy, bound>>

\* authenticate(): the dashboard is mounted, and loads the catalog.
Authenticate ==
    /\ phase \in {"bootstrap", "login"}
    /\ phase' = "authenticated"
    /\ loading' = [catalog |-> TRUE, status |-> FALSE]
    /\ requests' = <<Request("catalog", None, None)>>
    /\ UNCHANGED <<selected, status, op, busy, bound>>

OperationBusy == busy.lifecycle \/ busy.update

\* signedOut(): the user asked for it, or an answer has status 401.
SignedOut ==
    /\ phase = "authenticated"
    /\ ~OperationBusy \/ requests # <<>>
    /\ phase' = "login" /\ Nothing
    /\ UNCHANGED bound

-----------------------------------------------------------------------------
(* What is mounted.                                                        *)

\* The target and the container that the panels are mounted for.
KeyOf(target, st) == IF st # None /\ st.target = target THEN st ELSE None

Key == KeyOf(selected, status)

\* The answers to requests of panels that are discarded change nothing in a panel.
Orphan(rs, panels) == [i \in DOMAIN rs |-> [rs[i] EXCEPT !.live = @ /\ rs[i].panel \notin panels]]

\* Mutant of Render: the panels are mounted for the selection, whatever status there is.
RenderKeepsPanels(sel, st, rs, over) ==
    LET same == sel = selected IN
    /\ selected' = sel /\ status' = st
    /\ requests' = IF same THEN rs ELSE Orphan(rs, Panel)
    /\ op' = [p \in Panel |-> IF ~same THEN "idle" ELSE IF p \in over THEN "shown" ELSE op[p]]
    /\ busy' = IF ~same \/ over # {} THEN [lifecycle |-> FALSE, update |-> FALSE] ELSE busy

\* The dashboard shows a selection and a status: the panels of another key are discarded,
\* and the cleanup of their effects tells the dashboard that they are not busy.  over: the
\* panels, of those that stay, whose operation is over.
Render(sel, st, rs, over) ==
    LET same == KeyOf(sel, st) = Key IN
    /\ selected' = sel /\ status' = st
    /\ requests' = IF same THEN rs ELSE Orphan(rs, Panel)
    /\ op' = [p \in Panel |-> IF ~same THEN "idle" ELSE IF p \in over THEN "shown" ELSE op[p]]
    /\ busy' = IF ~same \/ over # {} THEN [lifecycle |-> FALSE, update |-> FALSE] ELSE busy

-----------------------------------------------------------------------------
(* Loading.                                                                *)

Room == Len(requests) < MaxRequests

\* The user selects a target: the effect of the selection loads its status.
Select(t) ==
    /\ phase = "authenticated" /\ Room
    /\ ~loading.catalog /\ ~OperationBusy /\ selected # None /\ t # selected
    /\ loading' = [loading EXCEPT !.status = TRUE]
    /\ Render(t, status, Append(requests, Request("status", t, None)), {})
    /\ UNCHANGED <<phase, bound>>

Refresh ==
    /\ phase = "authenticated" /\ Room
    /\ selected # None /\ ~loading.status /\ ~OperationBusy
    /\ loading' = [loading EXCEPT !.status = TRUE]
    /\ requests' = Append(requests, Request("status", selected, None))
    /\ UNCHANGED <<phase, selected, status, op, busy, bound>>

\* The requests rs without the i-th.
Without(rs, i) == SubSeq(rs, 1, i - 1) \o SubSeq(rs, i + 1, Len(rs))

\* loadStatus(): the answer of any moment since the request, or a failure.
StatusAnswered(i) ==
    LET r == requests[i] IN
    /\ r.type = "status"
    /\ loading' = [loading EXCEPT !.status = FALSE]
    /\ \E st \in {None} \cup [target : {r.target}, container : r.from..bound[r.target]] :
         Render(selected, st, Without(requests, i), IF r.live THEN {r.panel} ELSE {})
    /\ UNCHANGED <<phase, bound>>

\* loadCatalog(): the preferred target is selected, or the one that is, or any; a change
\* of the selection loads the status, and so does refreshTarget().
CatalogAnswered(i) ==
    LET r == requests[i]
        rest == Without(requests, i)
        Then(sel) == IF sel # selected /\ sel # None THEN <<Request("status", sel, None)>> ELSE <<>>
        After == IF r.target = None THEN <<>>
                 ELSE <<[Request("status", r.target, r.panel) EXCEPT !.live = r.live]>>
    IN /\ r.type = "catalog"
       /\ \E sel \in IF r.target # None THEN {r.target, selected}
                     ELSE IF selected = None THEN Target \cup {None} ELSE {selected} :
            /\ loading' = [catalog |-> FALSE, status |-> Then(sel) \o After # <<>> \/ loading.status]
            /\ Render(sel, status, rest \o Then(sel) \o After, {})
       /\ UNCHANGED <<phase, bound>>

-----------------------------------------------------------------------------
(* Operations.                                                             *)

\* LifecyclePanel.execute(): while it is busy UpdatePanel is not mounted.
StartLifecycle ==
    /\ Room /\ Key # None /\ ~busy.lifecycle
    /\ ~busy.update /\ ~loading.status /\ ~loading.catalog
    /\ op' = [p \in Panel |-> IF p = "lifecycle" THEN "executing" ELSE "idle"]
    /\ busy' = [busy EXCEPT !.lifecycle = TRUE]
    /\ requests' = Append(requests, Request("operation", Key.target, "lifecycle"))
    /\ UNCHANGED <<phase, selected, status, loading, bound>>

\* The step of ContainerUpdatePanel that follows a phase, each with a request of its own:
\* prepare(), createIntent(), execute().
UpdateStep == [idle |-> "preparing", shown |-> "preparing", review |-> "intent-creating",
               confirm |-> "executing"]

\* While it is busy ManualRollbackPanel is not mounted.
StartUpdate ==
    /\ Room /\ Key # None /\ ~busy.lifecycle /\ op["rollback"] # "executing"
    /\ op["update"] \in DOMAIN UpdateStep
    /\ op' = [op EXCEPT !["update"] = UpdateStep[@], !["rollback"] = "idle"]
    /\ busy' = [busy EXCEPT !.update = TRUE]
    /\ requests' = Append(requests, Request("operation", Key.target, "update"))
    /\ UNCHANGED <<phase, selected, status, loading, bound>>

\* ManualRollbackPanel.execute(): while it is busy ContainerUpdatePanel is not mounted.
StartRollback ==
    /\ Room /\ Key # None /\ ~busy.lifecycle /\ ~busy.update
    /\ op' = [op EXCEPT !["update"] = "idle", !["rollback"] = "executing"]
    /\ busy' = [busy EXCEPT !.update = TRUE]
    /\ requests' = Append(requests, Request("operation", Key.target, "rollback"))
    /\ UNCHANGED <<phase, selected, status, loading, bound>>

\* The server executes an update or a rollback, which replaces the container.
Executed(i) ==
    LET r == requests[i] IN
    /\ r.type = "operation" /\ ~r.done /\ r.panel \in {"update", "rollback"}
    /\ r.live => op[r.panel] = "executing"
    /\ bound[r.target] < MaxRebinds
    /\ bound' = [bound EXCEPT ![r.target] = @ + 1]
    /\ requests' = [requests EXCEPT ![i].done = TRUE]
    /\ UNCHANGED <<phase, selected, status, loading, op, busy>>

\* The answer to a step that only prepares, or its failure.
Prepared(i) ==
    LET r == requests[i] IN
    /\ r.type = "operation" /\ r.live /\ r.panel = "update" /\ op["update"] # "executing"
    /\ \E next \in {IF op["update"] = "preparing" THEN "review" ELSE "confirm", "shown"} :
         op' = [op EXCEPT !["update"] = next]
    /\ busy' = [busy EXCEPT !.update = FALSE]
    /\ requests' = Without(requests, i)
    /\ UNCHANGED <<phase, selected, status, loading, bound>>

\* The answer to an operation, or its failure: the target is refreshed.  An update shows
\* its result before that, the others wait for it.
Answered(i) ==
    LET r == requests[i]
        update == r.live /\ r.panel = "update"
    IN /\ r.type = "operation" /\ r.live => op[r.panel] = "executing"
       /\ r.type = "operation"
       /\ op' = IF update THEN [op EXCEPT !["update"] = "shown"] ELSE op
       /\ busy' = IF update THEN [busy EXCEPT !.update = FALSE] ELSE busy
       /\ loading' = [loading EXCEPT !.catalog = TRUE]
       /\ requests' = Append(Without(requests, i),
                             [Request("catalog", r.target, r.panel) EXCEPT !.live = r.live /\ ~update])
       /\ UNCHANGED <<phase, selected, status, bound>>

Next ==
    \/ Boot \/ Authenticate \/ SignedOut
    \/ Refresh \/ StartLifecycle \/ StartUpdate \/ StartRollback
    \/ \E t \in Target : Select(t)
    \/ \E i \in DOMAIN requests :
         \/ StatusAnswered(i) \/ CatalogAnswered(i) \/ Executed(i) \/ Prepared(i) \/ Answered(i)

Spec == Init /\ [][Next]_vars

-----------------------------------------------------------------------------
(* Properties.                                                             *)

\* The type of every variable.
TypeOK ==
    /\ phase \in {"loading", "bootstrap", "login", "authenticated", "fatal"}
    /\ selected \in Target \cup {None}
    /\ status \in [target : Target, container : 0..MaxRebinds] \cup {None}
    /\ \A p \in Panel : op[p] \in {"idle", "preparing", "review", "intent-creating", "confirm",
                                   "executing", "shown"}
    /\ busy.lifecycle \in BOOLEAN /\ busy.update \in BOOLEAN
    /\ bound \in [Target -> 0..MaxRebinds]

LiveOperations == {i \in DOMAIN requests : requests[i].live}

\* The panels of one tab do not run two operations at once, whichever of them is mounted
\* when the other starts.
OneLiveOperation == Cardinality(LiveOperations) <= 1

\* What disables the controls of the dashboard is a request that a mounted panel waits for:
\* a panel that is discarded in the middle of its operation does not leave them disabled.
BusyIsLive == OperationBusy => LiveOperations # {}

\* A panel that waits is mounted for the selected target, and for a container that the
\* target has or had: a late status of another target takes the panels away.
LiveIsSelected ==
    \A i \in LiveOperations : selected = requests[i].target /\ Key # None

=============================================================================
