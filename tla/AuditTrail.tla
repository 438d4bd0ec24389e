------------------------------ MODULE AuditTrail ------------------------------
(***************************************************************************)
(* The audit events (packages/db/src/audit-query.ts, apps/api/src/audit.ts *)
(* and audit-read.ts), the retention that every start of the API applies   *)
(* (audit-feature.ts), and the panel that goes through them page by page   *)
(* (apps/web/src/AuditPanel.tsx).                                          *)
(*                                                                         *)
(* A page is named by an offset, newest events first: while the user goes  *)
(* from page to page events are recorded, and purged.  Every statement of  *)
(* the database runs in a tick of its own, so that the API may die between *)
(* two batches of a purge.                                                 *)
(***************************************************************************)
EXTENDS Naturals, Sequences, FiniteSets

CONSTANTS
    None,
    Action,     \* what is recorded; a filter names one of them
    All,        \* the filter that names none
    PageSize,   \* PAGE_SIZE
    BatchSize,  \* retentionBatchSize
    MaxBatches, \* retentionMaxBatches
    Retention,  \* retentionDays
    MaxTime,    \* bound on the clock
    MaxEvents   \* bound on the events recorded

VARIABLES
    now,      \* now()
    events,   \* audit_events
    recorded, \* the identifiers that were used
    purge,    \* the purge under way: its cutoff and the batches done, None otherwise
    panel,    \* filters, offset, events, hasMore, busy, error
    answer,   \* the answer of the API that is on the way, None otherwise
    walk      \* history variable: what was there when the first page was read, and was shown since

vars == <<now, events, recorded, purge, panel, answer, walk>>

Event == [id : 1..MaxEvents, time : 0..MaxTime, action : Action]

NoWalk == [due |-> {}, seen |-> {}]

\* load() is called when the panel is mounted.
Init ==
    /\ now = 0 /\ events = {} /\ recorded = {}
    /\ purge = None
    /\ panel = [filter |-> All, offset |-> 0, shown |-> <<>>, hasMore |-> FALSE,
                busy |-> TRUE, error |-> FALSE]
    /\ answer = None /\ walk = NoWalk

-----------------------------------------------------------------------------
(* The table.                                                              *)

\* ORDER BY timestamp DESC, id DESC, in which e follows d.
Older(d, e) == d.time > e.time \/ (d.time = e.time /\ d.id > e.id)

Matching(filter) == {e \in events : filter \in {All, e.action}}

\* LIMIT ? of n rows.
AtMost(limit, n) == IF limit <= n THEN limit ELSE n

\* The n-th row is the one that n - 1 of the others precede.
Rows(filter) ==
    LET M == Matching(filter)
    IN [n \in 1..Cardinality(M) |-> CHOOSE e \in M : Cardinality({d \in M : Older(d, e)}) = n - 1]

\* The cutoff of a purge that starts now; no event is older when there is no such time yet.
Cutoff == IF now < Retention THEN 0 ELSE now - Retention

Expired(cutoff) == {e \in events : e.time < cutoff}

\* AuditService.record(): a random identifier.
Record ==
    /\ purge = None
    /\ \E id \in (1..MaxEvents) \ recorded, action \in Action :
         /\ events' = events \cup {[id |-> id, time |-> now, action |-> action]}
         /\ recorded' = recorded \cup {id}
    /\ UNCHANGED <<now, purge, panel, answer, walk>>

Tick ==
    /\ purge = None /\ now < MaxTime
    /\ now' = now + 1
    /\ UNCHANGED <<events, recorded, purge, panel, answer, walk>>

-----------------------------------------------------------------------------
(* Retention.                                                              *)

\* The API starts, perhaps after it died in the middle of a purge, and purges before it
\* listens.  What it was asked before is lost.
Restart ==
    /\ purge' = [cutoff |-> Cutoff, batches |-> 0, purged |-> 0, complete |-> FALSE]
    /\ answer' = None
    /\ panel' = IF panel.busy
                THEN [panel EXCEPT !.busy = FALSE, !.error = TRUE, !.shown = <<>>, !.hasMore = FALSE]
                ELSE panel
    /\ UNCHANGED <<now, events, recorded, walk>>

Purging == purge # None /\ ~purge.complete /\ purge.batches < MaxBatches

Purged(removed, complete) ==
    /\ events' = events \ removed
    /\ purge' = [purge EXCEPT !.batches = @ + 1, !.purged = @ + Cardinality(removed), !.complete = complete]
    /\ UNCHANGED <<now, recorded, panel, answer, walk>>

\* LIMIT ?: a full batch, or all that there are.
Batches(expired) == {es \in SUBSET expired : Cardinality(es) = AtMost(BatchSize, Cardinality(expired))}

\* The subsets that ORDER BY timestamp ASC, id ASC LIMIT ? can select.
Oldest(expired) ==
    {es \in Batches(expired) : \A e \in es, d \in expired \ es : Older(d, e)}

\* Mutant of PurgeBatch: the limit selects any of the expired events.
PurgeBatchAny ==
    /\ Purging
    /\ LET expired == Expired(purge.cutoff) IN
       \E removed \in Batches(expired) :
         Purged(removed, Cardinality(removed) < BatchSize)

\* Mutant of PurgeBatch: a full batch is taken for the last one.
PurgeBatchOnce ==
    /\ Purging
    /\ \E removed \in Oldest(Expired(purge.cutoff)) : Purged(removed, Cardinality(removed) <= BatchSize)

\* A turn of the loop of purgeExpired(): a batch that is not full is the last one.
PurgeBatch ==
    /\ Purging
    /\ \E removed \in Oldest(Expired(purge.cutoff)) : Purged(removed, Cardinality(removed) < BatchSize)

\* The API listens, also when a statement of the purge fails.
Listen ==
    /\ purge # None
    /\ purge' = None
    /\ UNCHANGED <<now, events, recorded, panel, answer, walk>>

-----------------------------------------------------------------------------
(* The panel.                                                              *)

\* load(), of the page that the panel is set to.
Load(filter, offset) ==
    /\ panel' = [panel EXCEPT !.filter = filter, !.offset = offset, !.busy = TRUE, !.error = FALSE]
    /\ UNCHANGED <<now, events, recorded, purge, answer>>

\* apply() and reset().
Apply(filter) == ~panel.busy /\ Load(filter, 0) /\ walk' = NoWalk

Previous ==
    /\ ~panel.busy /\ panel.offset > 0
    /\ Load(panel.filter, panel.offset - PageSize)
    /\ UNCHANGED walk

Forward ==
    /\ ~panel.busy /\ panel.hasMore
    /\ Load(panel.filter, panel.offset + PageSize)
    /\ UNCHANGED walk

\* history(): a page and one row more.
Page(filter, offset) ==
    LET rows == Rows(filter)
        page == SubSeq(rows, offset + 1, AtMost(offset + PageSize, Len(rows)))
    IN [filter |-> filter, shown |-> page, hasMore |-> Len(rows) > offset + PageSize]

\* The API answers.
Handled ==
    /\ purge = None /\ panel.busy /\ answer = None
    /\ answer' = Page(panel.filter, panel.offset)
    /\ walk' = [due |-> IF panel.offset = 0 THEN Matching(panel.filter) ELSE walk.due,
                seen |-> (IF panel.offset = 0 THEN {} ELSE walk.seen) \cup {answer'.shown[i] : i \in DOMAIN answer'.shown}]
    /\ UNCHANGED <<now, events, recorded, purge, panel>>

Answered ==
    /\ answer # None
    /\ panel' = [panel EXCEPT !.shown = answer.shown, !.hasMore = answer.hasMore, !.busy = FALSE]
    /\ answer' = None
    /\ UNCHANGED <<now, events, recorded, purge, walk>>

\* The request fails, or is refused because of its offset or its period of time.
Fails ==
    /\ panel.busy
    /\ panel' = [panel EXCEPT !.shown = <<>>, !.hasMore = FALSE, !.busy = FALSE, !.error = TRUE]
    /\ answer' = None
    /\ UNCHANGED <<now, events, recorded, purge, walk>>

Next ==
    \/ Record \/ Tick
    \/ Restart \/ PurgeBatch \/ Listen
    \/ \E filter \in Action \cup {All} : Apply(filter)
    \/ Previous \/ Forward \/ Handled \/ Answered \/ Fails

Spec == Init /\ [][Next]_vars

-----------------------------------------------------------------------------
(* Properties.                                                             *)

\* The type of every variable.
TypeOK ==
    /\ now \in 0..MaxTime
    /\ events \subseteq Event /\ \A d, e \in events : d.id = e.id => d = e
    /\ recorded \subseteq 1..MaxEvents
    /\ purge = None \/ purge.batches \in 0..MaxBatches
    /\ panel.filter \in Action \cup {All} /\ panel.offset \in {PageSize * k : k \in 0..MaxEvents}
    /\ Len(panel.shown) <= PageSize

\* Who goes through the pages to the last one has seen every event that was there when the
\* first page was read and is still there, whatever is recorded and purged between them.
NothingSkipped ==
    ~panel.busy /\ ~panel.error /\ ~panel.hasMore => walk.due \cap events \subseteq walk.seen

\* The events that are shown are of the filter that is shown, and newest first.
ShownMatches ==
    ~panel.busy =>
        /\ \A i \in DOMAIN panel.shown : panel.filter \in {All, panel.shown[i].action}
        /\ \A i, k \in DOMAIN panel.shown : i < k => Older(panel.shown[i], panel.shown[k])

\* A purge removes no event within the period of retention, and none while an older one
\* stays: when the API dies in the middle, what is left has no gap.
OldestPurged ==
    \A e \in events \ events' :
        /\ e.time + Retention < now
        /\ \A d \in events' : Older(d, e)

PurgesOldestFirst == [][OldestPurged]_vars

\* A purge that calls itself complete leaves no expired event, and one that does not has
\* removed as much as it may.
PurgeIsComplete ==
    purge # None =>
        /\ purge.complete => Expired(purge.cutoff) = {}
        /\ ~Purging /\ ~purge.complete => purge.purged = MaxBatches * BatchSize

=============================================================================
