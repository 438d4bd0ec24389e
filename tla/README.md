# Ollama Remote Control: a TLA+ model of its job engine and its remote mutations

This directory holds a formal model of the parts of Ollama Remote Control (ORC) that change something: rows in its
database, containers on a Docker host and models in an Ollama instance; and of what travels from there to a browser. The
model is written from the TypeScript sources under `src/`; `PROJECT.json` names, for every definition that models code,
the lines it stands for.

ORC is a single-threaded Node process: a Fastify API on one SQLite database, which is accessed synchronously. Between
two `await`s a handler runs undisturbed, and at every `await` any other handler may run. The process can die between
any two commits. Remote hosts are reached over SSH: Docker Compose commands, and HTTP requests to Ollama through a
tunnel. What has been issued there takes effect on its own schedule.

## 1. Inventory

| Component | State | Operations | What is hard | What makes it correct |
|---|---|---|---|---|
| Job engine (`jobs.ts`, `packages/db/src/index.ts`, migration 0006) | tables `jobs` and `job_events` | create, transition, append event, list non-terminal | every feature opens a connection of its own; a transition is a read, a check and a conditional write | one active mutation per target; the journal tells the story of the row; a terminal row is final |
| Container update (`update-orchestrator.ts`) | the job and its stage events, the binding of the target, locals of the handler | execute: validate, replace, rebind, verify health, roll back | each remote call can fail before, during or after its effect; the rollback can fail too | an update commits or reverts as a whole, or says that it does not know |
| Update recovery (`update-reconciliation.ts`) | the same tables, after a crash | reconcile, before the API listens | the crash may have come between a remote effect and its event, also during an earlier recovery | verdicts rest on evidence; every update ends |
| Compose replacement, SSH commands (`packages/docker`, `packages/ssh`) | the service on the host | `docker compose up` with a digest override, checks after it | a timeout ends the channel, not necessarily the command | the replacement is new and runs the image requested |
| Targets and bindings (`targets.ts`, `target-binding.ts`, migration 0005) | `ollama_targets.selected_container_id` | select, compare-and-swap rebind | a selection during an update sees the container that the update has just created | one target per container; between updates the binding names the running container |
| Preflight, plan, intent (`update-preflight.ts`, `update-plan.ts`, `update-execution-intent.ts`) | snapshots, intents | capture, plan, create intent | a plan is stale as soon as the container is replaced | an intent is executed only on the container it was made for |
| Manual rollback (`manual-rollback-*.ts`) | like an update | candidate, execute, compensate, reconcile | a rollback that fails is itself undone, and can be interrupted there | like an update |
| Short mutations (`container-lifecycle.ts`, `model-unload.ts`, `model-smoke.ts`, `short-mutation-reconciliation.ts`) | the job | start, stop, restart, unload, smoke test, reconcile | after a crash the host is looked at once, and others change it too | success only with the postcondition observed, and audited |
| Model pull (`model-pull.ts`) | the job, abort controllers, workers | start, run, cancel, shut down, reconcile | cancellation, shutdown, stream end, crash and remote completion in any order | a cancelled pull asked for nothing; a success is earned; one audit record; every pull ends |
| Model create and deploy plans (`model-create.ts`, `modelfile-deploy-plan*.ts`) | plans, the job, workers, deployment rows | plan, start, run, cancel, shut down, reconcile | checks before the lock; a plan is used once; a crash in the middle of a replacement | a confirmation serves one create; a deployment has left the model it names |
| Event streams (`pull-job-events.ts`, `create-job-events.ts`) and their panels | a cursor per connection; the job a panel shows | poll the journal into SSE, reconnect, read, cancel | the job ends between two polls, the connection breaks, answers overtake events | every event once and in order for one source; the end of a create is shown and stays |
| SSH exchanges (`ssh-http.ts`, `ollama-*-stream.ts`, `ollama-*-http.ts`) | decoder, timers, settlement | connect pinned, forward, write, decode, settle | chunks cut lines anywhere; result, error, close and timers race | what is delivered does not depend on how bytes are divided (two exceptions); every exchange ends |
| Live logs (`logs.ts`, `server.ts`, `LiveLogsPanel.tsx`) | a request, a handler and an SSH connection per stream | open, forward, complete, disconnect | either side leaves at any moment | the end follows the last line; what ends is released |
| Host onboarding (`hosts.ts`, `OnboardingPanel.tsx`) | hosts, pinned fingerprints, the panel | probe, acknowledge, create, discover, select | what answers at an endpoint changes between the steps | a private key reaches only the host that was confirmed |
| Authentication (`auth.ts`, `LoginLimiter` in `server.ts`) | users, sessions, failure counters | bootstrap, sign in, sign out | hashing is awaited between the check and the write | one administrator; a bound on attempts; lifetimes are kept |
| Modelfile library (`modelfile-library.ts`, `packages/db/src/modelfiles.ts`, `LocalModelfilesPanel.tsx`) | artifacts and immutable revisions; the draft | create, append, clone, import, edit, save | two editors of one artifact; lost answers | history is linear; no stored text is lost, and no draft by a save that fails |
| Modelfile text (`packages/core`, `StructuredModelfileEditor.tsx`) | a text | parse, edit, compile, compare | offsets, quotation marks, line ends | an edit changes what was typed only; nothing is dropped |
| Audit (`audit*.ts`, `packages/db/src/audit-query.ts`, `AuditPanel.tsx`) | append-only records | record, page, purge | pages by offset over a changing list; a purge in batches | nothing that stays is skipped; a finished purge is complete |
| Dashboard (`App.tsx` and the panels it mounts) | selection, status, panels and their requests | select, refresh, start operations | late answers; panels that are thrown away with their state | one operation at a time, for the target selected |
| Deployments, provenance (`modelfile-deployments.ts`, `provenance*.ts`) | append-only evidence | record, derive | written by a trigger on the job row | evidence binds a revision to a digest it produced |
| Inventory, health, status, secrets, routes | none or read-only | | | |

How they interact: the mutating features share the job engine, whose partial unique index on the active mutating jobs
of a target is the only mutual exclusion in the system. They meet again on the remote host, and in the binding of a
target, which the update, its recovery, the manual rollback and the selection of a target write. At startup the
reconciliations run one after the other in `onReady` hooks before the API listens: update, model pull, then (features
registered in `production.ts`) the retention of audit events, manual rollback, model create, and the short mutations. A
reconciliation that throws keeps the API from starting. Browsers see the result through answers, event streams and log
streams, which arrive in any order.

## 2. Modules

| Module | Models | Extends / uses |
|---|---|---|
| `JobStates` | the states of a job and its transition table | |
| `JobTable` | what the jobs table promises to the features: jobs are accepted and move at once | refined by `Jobs`; the features keep to it |
| `Jobs`, `JobsProofs` | the job engine at the granularity of database transactions, and its theorems | `JobStates`, `TLAPS` |
| `Update`, `UpdateProofs` | the update transaction, its recovery, the Compose service, the binding table, and its theorems | `JobStates`, `TLAPS` |
| `ManualRollback`, `ManualRollbackProofs` | the manual rollback, its compensation and its recovery, and its theorems | `JobStates`, `TLAPS` |
| `UpdateTx` | what both promise: a transaction on the image served | refined by `Update` and `ManualRollback` |
| `ModelPull`, `ModelPullProofs` | requests, workers, streams, cancellation, shutdown, reconciliation, audit, and its theorems | `JobStates`, `TLAPS` |
| `ModelCreate` | the same for creates, with plans and deployments | `JobStates` |
| `ShortMutations` | lifecycle, unload and smoke-test jobs and their reconciliation | `JobStates` |
| `EndingsProofs` | theorems about `ModelCreate` and `ShortMutations` | `MCEndings`, `TLAPS` |
| `JobEventStream` | the journal, the loop that polls it, the connection | `JobStates` |
| `ModelPullPanel`, `ModelCreatePanel` | the two panels at the other end | `JobEventStream` |
| `EventFeed` | what an event stream promises | refined by `ModelPullPanel` |
| `PinnedExchange` | one HTTP exchange over a pinned SSH channel: decoding, timers, settlement | |
| `LogStream` | live logs from the channels of the command to the viewer | |
| `Auth` | setup, sessions and the limiter | |
| `HostOnboarding` | probe, acknowledgement, private key, discovery, selection | |
| `AuthProofs` | theorems about `Auth`, `HostOnboarding` and `PinnedExchange` | `MCAuth`, `TLAPS` |
| `ModelfileLibrary` | artifacts and revisions | |
| `LocalModelfilesPanel` | the editor tab on the library | `ModelfileLibrary` |
| `ModelfileLibraryProofs` | theorems about the library and the tab | `LocalModelfilesPanel`, `TLAPS` |
| `ModelfileText`, `ModelfileDeploy`, `ModelfileDiff` | parsing and patching, compilation, comparison, as operators | |
| `StructuredEditor` | the controls that edit a draft | `ModelfileText`, `ModelfileDeploy`, `ModelfileDiff` |
| `Dashboard` | selection, status and the panels of operations | |
| `AuditTrail` | events, retention, pages | |
| `PanelsProofs` | theorems about the two panels of jobs, the dashboard, the audit pages and the live logs | `MCPanels`, `TLAPS` |
| `MC*` | instances for TLC | |

**Scenes.** Several MC modules hold more than one instance. A variable `scene` is chosen initially and never changes,
and a behaviour follows the instance it names while the variables of the others rest. They check components that face
the same question side by side; a property of such a run is a property of each instance on its own, and nothing is
composed by it.

**Jobs.** `row` is the `jobs` table with its timestamps reduced to set or null, `journal` the `job_events` of a job in
order of sequence, `call[c]` what client `c` holds between the read and the write of `JobService.transition`.
`BeginTransition` is the first half (read the row, consult `TRANSITIONS`), `TransitionWithEvent` and `StateConflict`
are the two outcomes of the conditional update, `Create` is the insert under the lock index. The clients stand for
connections: within one Node process the two halves run without an `await` between them, but the code does not rely on
it, an API that is closing can overlap its successor, and the compare-and-swap is there for that. `JobTable` is the
engine without clients, stale reads and journals; it is also the contract that the features are proved to keep to.

**Update.** A step is one commit, or one await with what follows it up to the next commit. `pc[j]` says where the
handler of job `j`, or its recovery, stands; labels in `BusyPC` are between two commits without an await, where only a
crash can come in between (`MayRun`). `stages[j]` is the set of stage events with the container identifier each
carries, which is all that the recovery reads of the journal; `old[j]` is the container of the snapshot. The host runs
one Compose service, and each `up` replaces its container by a new one: `created` lists the containers in order of
creation with the image they run and whether the configured image names a tag. `commands` are the `up` commands that
have been issued and have not taken effect. A remote call may fail for a reason the model knows, or by one of
`MaxFaults` faults (`FailsBecause`). `Discover` and `SaveSelection` are the selection of a container for another
target of the host. A crash forgets every local and puts active jobs to `pending`; `Restart` enters the recovery, which
handles one job after the other, and `Listen` opens the API. `StartupBlocked` is a reconciliation that throws.
The variable `alone` is chosen initially and never changes. It says that the first target is the only one on its host
and that a command ends with its channel: then every job is of that target (`Target(j)`) and nobody selects containers.
Otherwise `TargetOf` gives the targets, and `Detached` says whether a remote command outlives the SSH channel it was
started on: the code only ends its side of the channel when a command times out (`packages/ssh/src/index.ts`,
`finishError`), so both answers are checked. `MaxFaults` and `MaxCrashes` bound a host that is alone and one that is
not separately.
After an update the configured image of the container is a digest, and `PrepareIntent` (like the code) refuses a
container without a tag. A run therefore contains a second update of the same target only when the first one ended
before it replaced the container.

**ManualRollback** begins where an update has succeeded. Its lock admits one job, so one journal and one program counter
serve all. Forward step, compensation and recovery each issue an `up` and then journal, rebind and verify. The journal is
the set of its stage events, each with the container it names. As in `Update`, `alone` says whether another target of
the host can select containers and whether commands outlive their channel.

**UpdateTx.** A transaction on the image of a target is opened, then commits, reverts, or gives up; between
transactions the image does not change. The refinement takes for the image served, while a job has begun its forward
step, the one it started from.

**ModelPull, ModelCreate.** `pc[j]` is the worker of job `j` at its awaits. A read of the inventory is two steps, `Observe`
(the host is sampled) and the step that uses what was seen, so a value can be stale when it is used. `remote[j]` is the
request as Ollama sees it: it may complete although its client is gone. `auditing` holds the jobs between their terminal
transition and their audit record: no handler runs there, only a crash. `Shutdown` is `shutdown()` from the `onClose`
hook, `Exit` its end, `Crash` the death of the process. `OthersChange` is another user of the host. `confirmed[p]` is
the authority in the token of plan `p`; `Product[p]` is what Ollama makes of its revision, `Satisfying[p]` the models
whose details `verifyCompiledModelfileDeploy` accepts, which compares only what the revision sets: a model made earlier
can be among them. The binding of a target moves only under its mutation lock, which these jobs hold until they end, so
the branches for a changed binding or revision cannot be reached.

**ShortMutations.** The request that starts such a job waits for it. The container, the model and what is loaded belong to
the host; `HostStep` carries out commands that were sent, also those whose sender is gone, and `foreign` counts what others do.

**Event streams and panels.** `log` is the journal, `conn` the connection with what is under way in it. The loop reads
the row and the events in one tick. A pull panel keeps a browser `EventSource`, which reconnects with the last event it
saw. The panel also throws its source away and opens another, which names no event, whenever its parent passes another
`onSucceeded` (`Reopen`): the models panel passes `load`, which is another function as soon as the dashboard becomes busy
or idle. `MaxReopens` bounds this; `received` is what the present source has received. A create panel closes its source
on every error and every new job object, reads the job, and starts from event 1.

**PinnedExchange.** A body is any sequence of bytes, which the server divides into chunks (`Divides`) and the network into
segments, with chunked, sized or plain framing; the four kinds of exchange differ in decoding, in the timers and in what
settles them. The bytes are one-character strings because how they are divided is what the properties are about: the
header is two of them, and a size line has one digit. The loops of the decoders are recursive functions that take one
round after the other (`NextChunk`, `TakeByte`, `NextDecoded`); a round that finds nothing to do changes nothing, so the
number of rounds is a bound and not a choice. Where the code emits a line it calls `onProgress`; the model keeps the list.

**LogStream.** A stream is a request of the browser, a handler of the API and an SSH connection. The two channels of the
command each keep their order.

**Auth** gives every handler the `await` of the password hash between its read and its write. **HostOnboarding** keeps
the panel, the requests under way (`calls`) with the step each has reached, and the host key that answers now (`keyAt`),
which changes at will; `confirmed` and `entrusted` record what the user acknowledged and where a private key was used.

**ModelfileLibrary, LocalModelfilesPanel.** Rows, pointers and audit records; an import reads the host twice. In the tab,
`calls` holds the functions of the panel that are in progress, each with the request it waits for (`phase`): a request
takes effect on the server in one step and is answered in a later one. A save is not over when its answer comes:
it reads the list, then the history, and the end of the list enables the controls before the save ends. The functions do
not look at the selection when an answer arrives. A call fails at any of its requests (`CallFails`, `ListFails`); an
answer of 401 instead takes the whole panel away (`SignedOut`), and so does whatever changes its key or the surface
(`Leave`); what such a panel has sent becomes the request of another client. `MaxSaves` bounds what the tab stores,
`MaxCalls` the calls in progress. The import form of the panel goes on like its creation, and the view of a historical
revision does not touch the draft: neither has actions of its own.

**ModelfileText and its users.** A text is a sequence of tokens, fine enough for line ends, blanks and quotation marks,
and a node a pair of positions; the directives that the code treats alike are represented by one of them.
`StructuredEditor` types tokens into the controls, which a browser normalises (a textarea has line feeds only).

**Dashboard** has React's order: an event is handled, the tree is rendered, effects run, and only then comes the next
event. A panel lives as long as its key. It leaves out what goes on inside the models panel (`ModelPullPanel` and
`ModelCreatePanel` have that), the completion of onboarding, and *Check again* in the panels of an update and a rollback.
**AuditTrail** gives each statement its own step where the API can die between.

## 3. Runs

Ten runs pass, and two show that the code does not do what its documents say. A module's type invariant is a conjunct of
an invariant of its run, unless it is only proved (`Jobs`, `Auth`, `HostOnboarding`).

| Run | Instance | Checks |
|---|---|---|
| `jobs` | 3 jobs (2 mutating, 1 not) on one target, 2 clients, journals of up to 3 entries before a stage event is refused; symmetric | `MutationLock`, `JournalMatchesRow`, `TimesMatchState`, `TerminalIsFinal`, `ActsAtOnce` (refinement of `JobTable`) |
| `update` | alone: 2 updates of one target, 3 images, 3 faults, 3 crashes, commands end with their channel. Not alone: 2 targets on one service, commands outlive their channel, 2 faults, 2 crashes. Fair | `UpdateInvariant` (the binding tracks the service; a rollback that the journal proves runs the old image), `OutcomeIsVerified`, `UpdateIsAtomic` (refinement of `UpdateTx`), `AloneUpdateEnds` |
| `rollback` | 2 requests. Alone: 3 faults, 3 crashes. Not alone: selections of another target, detached commands, 1 fault, 2 crashes. Fair | `RollbackInvariant` (the binding tracks the service; the journal proves images), `OutcomeIsVerified`, `RollbackIsAtomic` (refinement of `UpdateTx`), `RollbackEnds` |
| `model_pull` | 2 pulls, 2 digests, 1 foreign change, 1 fault, 1 crash, fair | `PullInvariant` (cancelled is clean, success is earned, audited once), `UnverifiedWasCancelled`, `PullEnds` |
| `model_create` | 2 starts, 2 plans, 2 digests, 1 foreign change, 1 fault, 1 crash | `CreateInvariant` (a plan is used once, every end is audited once), `SuccessIsDeployed`, `AbortIsHeeded` |
| `endings` | create: the same without foreign changes. Short: 2 jobs of any kinds, 1 foreign change, 1 fault, 1 crash, detached commands. Fair | `SceneInvariant`, `VerdictIsTrue`, `JobEnds` |
| `library` | library: 2 artifacts, 4 revisions, 1 import, records that fail. Panel: a tab that saves twice with 2 calls in progress, comes and goes, and another client, 3 revisions. Editor: 4 drafts, 4 keys, 2 edits | `HistoryInvariant`, `HistoryOnlyGrows`, `DraftsAreSafe`, `EditsAreFaithful`, `TextInvariant` (text is covered, nothing is dropped, the difference rebuilds and is shortest) |
| `auth` | auth: 2 requests, 2 addresses, 2 accounts, 1 session, limit 2, window and lifetime 2, clock to 4. Host: 2 endpoints, 2 keys of which any may answer first, 1 change, 4 requests of which 2 are under way; symmetric in requests and keys. Exchange: 100 bodies of up to 2 lines, 2 chunks, lines of 2 bytes | `LimiterBound`, `OneAdministrator`, `Lifetimes`, `HostInvariant`, `ExchangeInvariant` (reports are the lines in order, success is complete, a refusal has a reason; two exceptions for pulls) |
| `streams` | pull: 1 event beside the states, 1 break, a source opened anew once. Create: 1 event, 1 break. Exchange: 4 bodies of up to 2 lines, 2 chunks. Logs: 2 streams, 3 chunks, a list of 2. Fair | `EndsAreSeen` |
| `panels` | pull and create: 1 event beside the states, 2 breaks, a source of the pull opened anew once, 1 failed read. Dashboard: 2 targets, 1 rebind, 3 requests. Audit: 2 actions, pages and batches of 1, 2 batches, 3 events, clock to 2. Logs: 2 streams, 3 chunks, a list of 2 | `PanelInvariant`, `DashboardInvariant`, `AuditInvariant`, `LogsInvariant`, `DeliversLikeFeed` (refinement of `EventFeed`), `PurgesOldestFirst`, `OnlyAbandonedEarly` |
| `update_blocked` | 2 targets, 1 fault, 1 crash | finding: `UpdateEnds` is violated |
| `logs_leak` | 1 stream, 1 chunk | finding: `FollowEnds` is violated |

Each property of a passing run has a mutant, a definition in the module that changes one action the way a plausible bug
would, and TLC finds the property violated when the mutant takes the place of the action.

**Why the bounds are enough.** Two mutating jobs are the smallest number that can contend for a lock; a third that is
not mutating shows that the lock leaves it alone, and two clients are what a race takes. An update has two remote
replacements, forward and rollback, and a recovery one of its own; three faults let all of them fail in a row, three
crashes interrupt a recovery twice. Three images separate the image that was there from the candidate of each update.
Two pulls are what it takes for the late effect of one to meet the other, and two starts for a plan to be used twice. A
sign-in limit of two with a window of two lets a bucket fill, expire and fill again. Two lines in two chunks cut a line
at every place, join lines and cut a size line. Three chunks with a list of two entries overflow the list. Pages and
batches of one make every boundary an edge, and two batches with three events leave a purge incomplete. The drafts have a
quoted text that looks like directives, both line ends, a comment, an empty directive, a value that is not closed and a
directive given twice; two edits make the second one start from what the first one left. Deadlock is not checked: when
every job has ended and nobody sends a request, the system rests.

**Fairness.** `WF` on the steps of a handler or worker: the event loop runs what it has started, and remote calls end,
because Compose commands have a timeout and streams an idle timeout. `WF` on the remote command: it takes effect or its
channel ends. `WF` on restart and listen: the container runtime restarts the process. `WF` on the polling loop, the
delivery of a connection that does not break, the reconnection of an `EventSource` and the answer to a request: they are
timers and I/O of a running process. In an exchange only the set-up of the channel, which has a timeout of its own, and
the timers are fair: the host need not answer at all. Requests, cancellations, shutdowns, crashes, breaks, faults and sources
that are opened anew are never fair, and they are bounded, which says that a host that stays broken forever is outside the liveness claims.

## 4. What the checks show

- The lock index and the conditional update suffice, whatever clients interleave. `transition()` may write timestamps
  computed from an old row; they are right nevertheless, because the state it compares determines them.
- No job is ever reported as updated, rolled back or recovered without the health check of the very container that the
  target is bound to at that moment, and that container runs the image the verdict implies. This holds with a second
  target on the service and with commands that come late.
- Seen from outside, an update of a target that is alone is a transaction, and so is its manual rollback, across three
  failures and three crashes at any place, recoveries included. Both always end.
- A confirmation to create serves once because of its conditional consumption, not because of the check before it.
- Unless somebody else touches the model, a create recorded as succeeded has left a model that passes the verification.
  No create is sent for a job that is being cancelled, nor once a shutdown has begun.
- A success of a short mutation is true when it is told; it is audited before, or found out by the reconciliation; and a
  smoke test that was interrupted never succeeds by looks.
- Requests that run together can exceed the login limit, but only by those that were under way when it was reached.
- A private key is used only under a host key that the user acknowledged for that endpoint.
- History is linear, and the later of two appends from one parent is refused. A draft survives a save that fails as long
  as its panel stays: a panel that is signed out or left takes the draft along.
- One source of a pull's panel receives every event once and in order over breaking connections; a source that the panel
  opens in its place starts with the first event again. Every end is seen.
- Progress does not depend on where the network cuts the bytes. A create, a read and a smoke test succeed only with the
  whole of a response that tells where it ends, and a pull in chunks only with every line of it. There are two
  exceptions, both of pulls, which the properties name: the length of a response is not heeded, and a line of the
  greatest length is refused when it is cut between its CR and its LF.
- Going through the audit pages may show an event twice while others are recorded, but skips none that stays.

**Findings.**

1. `update_blocked`: while an update is open, an operator selects a container for another target and gets the one that
   the update has just created. From then on the rollback cannot bind its own container, and after a crash the recovery
   cannot either: it throws, and the API does not start until the database is repaired. The specification promises that
   interrupted jobs are reconciled (`docs/SPEC.md:652`).
2. `logs_leak`: the route of the live logs awaits the remote stream and registers its close listener afterwards
   (`server.ts:636-660`). A browser that leaves in between is never heard, and `docker logs --follow` stays open on the host
   (`docs/SPEC.md:578`). `OnlyAbandonedEarly` shows that this is the only way.

**Other divergences** that the models contain. They have no run of their own; each was seen in a behaviour of the module
named, and the passing properties are stated so that they do not exclude it.

- `Update`: a `docker compose up` that timed out is not stopped. Its update is reported as failed before the replacement,
  the lock is free, and the next update runs beside it (`docs/SPEC.md:674`). `ShortMutations`: likewise for
  `docker stop` and `restart`.
- `Update`: the service is pinned to a digest, so the tag that `docs/SPEC.md:680` wants preserved is lost and no further
  update of that container can be planned. With detached commands an update need not end on one target either: the
  handler rebinds after a failed rollback without a journal event (`update-orchestrator.ts:504-511`), and a crash right
  there leaves a binding that the recovery does not accept.
- `ManualRollback`: a selection by another target blocks the recovery for good, as in finding 1
  (`manual-rollback-reconciliation.ts:478`).
- `ModelPull`: the cancellation of a running pull ends as `CANCEL_UNVERIFIED` without any look at the target
  (`docs/SPEC.md:666`).
- `ModelCreate`: two starts read the inventory before either takes the lock; the second replaces a model that its plan has
  not confirmed. After a crash before the create was sent, the reconciliation takes the old model for the result and records
  its digest (`docs/SPEC.md:442`); the digest to be replaced is in the metadata, but is not compared.
- `ModelfileLibrary`: an import takes digest and text from two reads and compares nothing, so the text may be of another
  digest (`docs/wave-2w-modelfile-library.md:31`).
- `LocalModelfilesPanel`: a draft is lost without a question when any of its requests is answered with 401
  (`LocalModelfilesPanel.tsx:83-87`, `App.tsx:442-446`), when the user turns to another surface or target, and when a raw
  Modelfile is imported in the same workspace, which changes the key of the panel (`LocalModelfilesWorkspace.tsx:25,32`).
  In a panel that stays, after a creation two loads are in flight, and the second answer replaces what was typed since
  the first (`docs/wave-2w-modelfile-library.md:54`). The end of the list enables the controls while the save is still
  reading the history (`LocalModelfilesPanel.tsx:221-223`): what is typed and saved then is replaced by the answer that
  comes last, and a history that cannot be read is shown as an error of the save, which was stored. When the history
  cannot be read after a conflict, the newer revision has become the base of the draft without the notice that says so
  (`:228-233`), and the next save replaces it.
- `ModelPullPanel`: the answer to a cancellation that arrives after the end replaces it: the panel stays at cancelling.
  Whenever the dashboard becomes busy or idle the source is closed and another opened without a cursor
  (`ModelPullPanel.tsx:140`, `ModelsPanel.tsx:122,224`, `App.tsx:394`): every event comes again from the first, past
  states are shown again, also after the end, and the end reports its success again.
- `ModelCreatePanel`: every state event makes the stream start over from event 1, so progress is listed again; and when the
  read after an interruption fails, nothing connects again (`docs/SPEC.md:656`).
- `StructuredEditor`: typing three quotation marks into a value swallows the directives after it
  (`modelfile-editor.ts:159`); a directive without a separator joins what is typed into it; clearing the value of a pair
  disables its control; a directive added to a draft whose last value is not closed becomes part of that value.
- `Dashboard`: a late status of another target takes the panels away; a successful update changes the key of its panel, so
  that its result is not shown.
- `HostOnboarding`: a late discovery is shown under the host that is active by then; the server refuses what does not
  belong to it.
- `PinnedExchange`: a pull and a create have no timer while the channel is being opened. That is why `ExchangeEnds` asks
  for an open channel in their case. A pull counts the CR of a line until its LF has come, so that a line of the greatest
  length is refused when a segment or a chunk ends between the two (`ollama-pull-stream.ts:200,210`), and it does not
  look at `Content-Length`, so that a response that is cut off after a line is a complete one
  (`ollama-pull-stream.ts:292-298`).
- `ModelfileDeploy`: a parameter with the name `__proto__` is assigned to a plain object, which does not keep it; it is
  not in the request for Ollama, and nobody is told (`modelfile-deploy.ts:116-132`).

## 5. What is proved

For every value of the constants, from the named assumptions on them alone (`...Assumption`: types, that `None` is none
of the values, that the set of requests of `Auth` is finite, that pages are not empty; what a plan produces satisfies it):

| Module | Theorem | Statement |
|---|---|---|
| `JobsProofs` | `TypeCorrect`, `LockIsExclusive`, `TimesAgree`, `JournalAgrees` | `TypeOK`, `MutationLock`, `TimesMatchState`, `JournalMatchesRow` always |
| | `TerminalRowsAreFinal` | `TerminalIsFinal` |
| | `EngineActsAtOnce` | `ActsAtOnce`: the engine implements `JobTable` |
| `UpdateProofs` | `UpdateTypeCorrect`, `RollbacksAreProven`, `BindingFollowsService`, together `UpdateInvariantHolds` | `UpdateInvariant` always |
| | `VerdictsHaveEvidence` | `OutcomeIsVerified` |
| | `UpdateImplementsTx` | `UpdateIsAtomic`: the update implements `UpdateTx` |
| | `UpdateKeepsContract` | what it does to its jobs are steps of `JobTable` |
| `ManualRollbackProofs` | `RollbackInvariantHolds` | `RollbackInvariant` always |
| | `VerdictsHaveEvidence` | `OutcomeIsVerified` |
| | `RollbackImplementsTx` | `RollbackIsAtomic`: the manual rollback implements `UpdateTx` |
| | `RollbackKeepsContract` | what it does to its jobs are steps of `JobTable` |
| `ModelPullProofs` | `PullTypeCorrect`, `CancelledStaysClean`, `SuccessWasEarned`, `EndsAreAuditedOnce`, together `PullInvariantHolds` | `PullInvariant` always |
| | `OnlyCancellationsAreUnverified` | `UnverifiedWasCancelled` |
| | `PullKeepsContract` | what pulls do to their jobs are steps of `JobTable` |
| `EndingsProofs` | `CreateTypeCorrect`, `PlansServeOnce`, `EndsAreAuditedOnce`, together `CreateInvariantHolds` | `CreateInvariant` always |
| | `SuccessesAreDeployed` | `SuccessIsDeployed` always |
| | `AbortsAreHeeded` | `AbortIsHeeded` |
| | `EndingsInvariantHolds` | `SceneInvariant` of `MCEndings` always |
| | `VerdictsAreTrue` | `VerdictIsTrue` |
| | `EndingsKeepContract` | what creates and short mutations do to their jobs are steps of `JobTable` |
| `AuthProofs` | `AuthTypeCorrect`, `LimiterBounded` | `TypeOK`, `LimiterBound` always |
| | `OneAdministratorHolds` | `OneAdministrator` |
| | `LockoutEndsHolds`, `SessionLifetimeHolds`, together `LifetimesHold` | `Lifetimes` |
| | `OnboardingIsSafe`, for the scene `HostInvariantHolds` | `HostInvariant` always |
| | `ExchangeIsRight`, for the scene `ExchangeInvariantHolds` | `ExchangeInvariant` always, for every body, division into chunks and segments, and limit on a line |
| `ModelfileLibraryProofs` | `LibraryTypeCorrect`, `HistoryLinear`, `CurrentNewest`, `AuditTruthful`, together `HistoryInvariantHolds` | `HistoryInvariant` always |
| | `HistoryGrows` | `HistoryOnlyGrows` |
| | `EditorKeepsHistory`, `PanelTypeCorrect` | the library under an editor keeps a linear history; `PanelTypeOK` |
| | `NoUpdateIsLost`, `DraftsAreKept`, together `DraftsAreSafeHolds` | `DraftsAreSafe` |
| `PanelsProofs` | `PanelInvariantHolds`, `DashboardInvariantHolds`, `AuditInvariantHolds`, `LogsInvariantHolds` | the four invariants of `MCPanels` always |
| | `PullImplementsFeed` | `DeliversLikeFeed`: the stream of a pull and its panel implement `EventFeed`, in which a panel may start over |
| | `OldestArePurged`, `AbandonedOnlyEarly` | `PurgesOldestFirst`, `OnlyAbandonedEarly` |

A module that proves something about an instance of an MC module uses the name the MC module gives to it (`Short!`,
`Host!`, `Pull!`, ...), and a lemma shows that a step of the whole is a step of the part that is followed, or none.

**Jobs.** The inductive invariant is `TypeOK /\ CallOK /\ MutationLock /\ TimesMatchState`. `CallOK` is what the properties
lack: a client between its read and its write holds a legal transition from a row whose timestamps agreed with its state.
The row may have moved on, but the write happens only if its state is still the one that was read, and state determines
which timestamps are set. The lock is preserved because the transition table has no way from a terminal state back to an
active one and `Create` is guarded by the index. The journal invariant is proved on top: an appended stage event does not
change which state event is the last, and an appended state event is a legal successor of it (`TellsStage`,
`TellsState`).

**The contract.** Every mutating feature writes its job rows through the engine, and its module sets their states
directly. What makes that right is a contract, `JobTable`, and two kinds of theorem. The engine implements it
(`EngineActsAtOnce`): whatever clients interleave, the table sees acceptances under the lock and moves along the transition
table. And each feature, its recovery and its crashes included, does nothing else (`...KeepsContract`). So
`JobService` refuses none of its transitions with `JOB_STATE_CONFLICT`, an error that none of the handlers could treat,
because the job would stay active and keep its lock. In `ModelPull` and `ModelCreate` the terminal transitions carry no guard from
the transition table: that they need none is what is proved. Each needs the part of its invariant that ties the place of
a handler to the state of its job (`StateOK`, `ControlOK`, `RunsOK`), and that a target has one handler. The theorems are
about one feature each. Together with the engine's they say that features share no state but the table, the binding and
the host: a job of another feature on the same target is one that `Accept` refuses.

**Update** is proved in two layers. The first assumes nothing about the host. `LockOK` leaves one handler or recovery per
target, so what it holds stays as it is between its steps: the container it is about to bind or to verify runs the image
it stands for (`HoldsOK`), the target is bound to what is being verified (`BoundOK`), and the journal has the health
check before the verdict (`VerifiedOK`). Type correctness, `ProvenRollbackRunsOldImage` and `OutcomeIsVerified` follow,
for any number of targets on one service and commands that come late. The second layer, `AloneInv`, is under `alone`: every
command that runs is awaited (`CommandsOK`), the journal says whether the forward step has begun (`JournalOK`), what is verified is
still the container that was created last (`HeadOK`), and unless an update is open or has ended without knowing, the binding
names the running container (`BindingOK`, `FollowsOK`). The step of the refinement uses it twice: a job that commits or
reverts leaves the image that it says running, and outside the forward step no step changes what is served (`ServedOK`).

**ManualRollback** has one invariant, whose last parts (`AloneOK`, `HeadOK`, `FollowsOK`) are implications from `alone`.
Its lock is that one job is active at all, and its journal is that of this job; `UntouchedOK` says that the binding stays
with the container of the update until there is a replacement, which is what makes the early failures reversible.

**ModelPull.** `ControlOK` ties the worker to the phase of the process and to the state of its job, `RequestOK` says
that nothing is requested before the route is known and that what is verified has been pulled. `AbortOK` separates the
two reasons of an abort, cancellation and shutdown. `BaselineOK` is about what was read: while only pulls that did not
complete have been at the model, it is still so. `AuditOK` holds between the terminal transition and its record.

**ModelCreate.** A job that may send (`Sender`) has consumed its plan, and no two jobs have consumed one (`PlanOK`): that is
the conditional consumption, because the check before it is made by both. A worker whose job is being cancelled or whose
process is closing has been told so (`AbortOK`), and it sends only where it looks. The details that were found to satisfy a
revision are those of the installed model, or of one that the create itself has replaced by its product (`DetailsOK`).

**ShortMutations.** The difficult conjunct is `StartsOK`: the start that the metadata of a lifecycle job names is not later
than the last start of the container, and it is earlier as soon as the command of a restart has ended. The handler only
looks whether the container runs; that it was restarted follows from the end of the command alone.

**Auth.** `LimiterBounded` counts: a check in flight was admitted while its bucket was below the limit, so a bucket that
is full and the checks that still run stay below the limit plus the number of requests. The other theorems need
`CreatedIsStored` (who is told that he is the administrator is the one stored) and `ResetsSoon` (no window ends later
than one window from now).

**HostOnboarding.** The panel waits for one probe at a time and accepts none meanwhile, so what it accepts was acknowledged
for the endpoint that was probed (`AcknowledgedOK`). A request to create a host carries its endpoint and its key with it, and
stores them only after that key has answered (`RequestsOK`); what the panel does in the meantime does not matter.

**PinnedExchange.** The invariant tells what the decoder holds by how many bytes have arrived, and not by where they
were cut (`DecoderOK`). For lines (`LinesOK`): after n bytes of the body the rest is what follows the last line feed,
and what was reported are the lines that ended before, unless one was refused, which then is a line of the body, or what
arrived ended between the CR and the LF of a line of the greatest length (`Excused`, `LongRest`). For
chunks (`StreamOK`): the buffer is the part of the response from the last size line or chunk that was taken to the last
byte that arrived, and the lines are those of the chunks taken. A segment extends the buffer and the loop restores the
invariant round by round; after as many rounds as there are bytes no round is left to do, because each one takes at
least a byte (`ConsumeChunkedOK`). For the decoder of the reads (`DecodedOK`): what it has put together is the body up
to the chunk it stands at, so a chunk that is cut off is an error, and the last chunk gives all of the body. The theorem
is about every sequence of bytes as a body, so it rests on what makes a division well defined: the byte at a place of
the response belongs to one chunk (`ChunkIs`, `ChunkedIs`). A chunk has at most nine bytes, because a size line has one
digit. The library's theorems on induction and on recursive functions take an operator and cannot be used;
`SetInduction` says it of a set that holds 0 and every successor, by the least element of its complement, and
`Recursion` gets from it that the functions which the loops define exist. The exception of a pull's success with a
part of a sized response is in the property: nothing of it can be proved, because the code does not look.

**ModelfileLibrary, LocalModelfilesPanel.** Every step adds a first revision, or a successor of the current one, or nothing
(`StepAdds`). The invariant needs one conjunct beside the properties, that no two rows have one identity: it makes the row
that the pointer names the same as the row with the largest number, so that the successor's number is new. A step of the
editor is a step of the library or none (`EditorStepsLibrary`), so the tab inherits its invariant. Calls in progress have
different numbers (`NumbersOK`), what one was made with stays with it, and what it says was read or stored is a row that
exists, with the text that was submitted (`CallsOK`); rows stay, so this survives whatever other calls and clients do
(`CallStays`). A save is then followed by its number to the step that stores it. Of the draft the theorem says nothing
once the panel has gone.

**The panels** have an invariant each.

- Pull: what is on its way to the panel is what it misses of the job, in order and without a gap, then perhaps the end
  (`OnItsWay`), and the cursor of the loop stands behind it (`PullFlow`). A connection that breaks loses what was on its way,
  and the next one starts from the last event received. `Ranked` and `SortedIs` show that the n-th event of a job is well
  defined and stays the n-th when another one is appended. A source that is opened anew is a new beginning of the same.
- Create: an answer that tells a final state tells the one the job is in (`AnswersOK`), though answers overtake events.
- Dashboard: at most one request is waited for by a mounted panel, and the controls are disabled for exactly that one
  (`WaitingOK`, `BusyOK`). Each rendering orphans the requests of the panels it throws away, and enables their controls.
- Audit: an event that the walk has not shown yet has a rank behind the pages that were read (`WalkOK`). An event that is
  recorded only raises ranks; a purge removes events of the last ranks, so that it lowers none of those that stay.
- Logs: the queue to the browser holds the lines from the last one received to the last one forwarded, then the end
  (`LogsFlow`), and a normal end only when everything was forwarded (`LogsClosed`).

Only model-checked, because the proof system cannot see recursive operators: what the text modules compute
(`EditsAreFaithful`, `TextInvariant`). Liveness, too, stays with TLC, because fairness and `ENABLED` are beyond the proof system:
`AloneUpdateEnds`, `RollbackEnds`, `PullEnds`, `JobEnds`, `EndsAreSeen`.

## 6. Not modelled

- Secrets: encryption has no state of its own. SSH and TLS themselves, Docker, Ollama and the browser are external; they
  are modelled by what the code relies on.
- Routes, static assets, validation wording, redaction, quoting and parsing of commands and replies: formatting, about
  which no property speaks.
- Provenance observations and graphs, registry lookups, model catalogues, status and inventory views: they read and
  derive; a read that a decision depends on is part of the module of the decision.
- What the clone of a Modelfile checks: it accepts a description of 2000 characters where the column has 1000
  (`modelfile-portability.ts:10`); such a clone is rolled back.

## 7. Plan

1. A composition of `Update` and `ManualRollback` over one `JobTable`. Each is proved to keep to it alone, and the engine
   to implement it; what is left is that both, on one host, still do what each promises.
2. Provenance: backfill and lineage, where a migration and live writes meet.
3. Proofs: smaller leaves in `EndingsProofs`, whose steps cite a common list of definitions.
