# dot-ai-controller: TLA+ models and proofs

The controller is a Kubernetes operator with five reconcilers that talk to one
outside service, MCP, over HTTP. What is hard in it is not any single function but
the company each keeps: reconcilers, informer handlers, tickers and goroutines that
outlive the object they were started for; retries of requests that may already have
been carried out; caches that lag behind; and a process that may end at any step.
These modules model that. `PROJECT.json` maps every definition to its lines of
`src/`, lists the runs, the mutants, the hazards and the theorems.

Contents: [inventory](#inventory), [modules](#modules), [runs and bounds](#runs),
[fairness](#fairness), [proofs](#proofs), [findings and observations](#findings-and-observations),
[what is not modelled](#what-is-not-modelled), [plan](#plan).

Reading order: `ChangeDelivery`, `DebounceLoop`, `DebounceBuffer`, `DebounceBufferProofs`,
`ResourceSync`, `ResourceSyncProofs`, `CooldownPersistence`, `CooldownPersistenceProofs`,
`Remediation`, `RemediationProofs`, `CapabilityScan`, `CapabilityScanProofs`,
`GitKnowledgeSource`, `CRDInformers`, `Solution`, each followed by its `Proofs`.

## Inventory

All Go paths are under `src/internal/controller/` unless they say otherwise.
controller-runtime runs one worker per reconciler and serves reads from a cache;
`src/cmd/main.go` wires the manager, the reconcilers and the shutdown.

| Part | State | Operations | Interacts with |
|---|---|---|---|
| Resource sync, one watcher (`resourcesync_debounce.go`, `resourcesync_mcp.go`, handlers in `resourcesync_controller.go`) | bounded change queue and closed flag, `changes` map, flush under way, `lastError` | `makeOnAdd/Update/Delete`, `trySendChange`, `Run`, `record`, `flush`, `requeueChangesFromMap`, `sendWithRetry`, `stopWatcher` | informers, reconciler (stop), MCP |
| Resource sync, reconciler (`resourcesync_controller.go`) | `activeConfigs`, per config: spec, informers, backoff; CRD informers; the status page | `Reconcile`, `startWatcher`, `stopWatcher`, `performInitialSync`, `performResync`, `periodicResyncLoop`, `updateStatus`, `onCRDAdd/Delete` | API server, watchers, MCP |
| Remediation (`remediationpolicy_controller.go`, `_ratelimit.go`, `_mcp.go`) | `processedEvents`, `objectCooldowns`, `cooldownTracking`, `rateLimitTracking`, `startupTime`; policy status | `reconcileEvent`, `processEvent`, `reconcilePolicy`, `isRateLimited`, `updatePolicyStatus` | events, API server, MCP, notifications |
| Cooldown persistence (`persistence.go`) | dirty marks, one ConfigMap per policy, goroutine of the periodic sync | `MarkDirty`, `Sync`, `Load`, `StartPeriodicSync`, `Stop` | remediation (shared map), API server, `main` |
| Notifications (`remediationpolicy_notifications.go`, `_slack.go`, `_googlechat.go`) | none | formatting and posting; errors are logged | Slack, Google Chat |
| Capability scan (`capabilityscan_*.go`) | config map, CRD queue (100), pending upserts and deletes, status | `Reconcile`, `performStartupReconciliation`, `HandleCRDEvent`, buffer `Run/record/flush`, `updateStatus*` | CRD watch, MCP |
| Git knowledge source (`gitknowledgesource_*.go`) | per source lock, status with `LastSyncedCommit`, counters, schedule; finalizer | `Reconcile`, `doSync`, `GetChangedFiles`, `handleDeletion`, `NextSyncDuration` | git, MCP, API server |
| Solution (`solution_controller.go`) | status, owner references on children | `Reconcile`, `ensureResourceOwnership`, `checkResourceHealth` | API server |
| Graceful shutdown (`src/internal/shutdown/shutdown.go`) | flag | `SetupSignalHandler`, readiness `Check` | `main` |
| Composition (`src/cmd/main.go`) | none of its own | wiring, `Stop` after the manager returns | all |

What makes each part correct, and where it is hard:

* **Watcher.** A change the queue took is never lost before the final flush and
  never overtaken by an older one. Hard: a flush with retries takes longer than the
  window, so requeued changes meet newer ones; answers get lost; a stop arrives at
  any point of it, from another goroutine.
* **Reconciler and resyncs.** At most one watcher works per config; MCP becomes equal
  to the cluster when both rest. Hard: a stopped watcher's goroutines run on beside
  its successor's, and a full resync posts a snapshot that flushes have outdated.
* **Remediation.** No event is sent again while it is marked, or counted twice; events of one workload keep
  their distance. Hard: dedup state is in memory and ages, requests last up to 15
  minutes, a new process stands by while the old one works on, the key of a cooldown is looked
  up anew, in caches, each time it is used.
* **Persistence.** A long cooldown survives a restart. Hard: sync, `Stop`, load and the
  reconciler overlap on the same maps, and every API call may fail.
* **Capability scan.** MCP's capabilities become those of the cluster, and none is deleted
  without cause. Hard: startup diff beside live CRD events and beside that of an earlier
  activation; a bounded queue; failures that are not retried; requests that MCP accepts and carries out
  later; three writers of one status.
* **Informers.** A watcher lists what the cluster has before its first resync, for MCP
  deletes what the resync lacks. Hard: CRDs come and go between discovery, the first list
  and the handling of a notice, the discovery finds every served version and a notice names one, and an
  informer once started is never taken out of its factory.
* **Git.** What an incremental sync skips is at MCP, and a source that is gone leaves no
  documents. Hard: syncs whose status is lost; a commit some of whose files failed; forced pushes;
  edits during a sync, and between the cleanup and the end of the finalizer.
* **Solution.** A status is of the spec it names, and only solutions that named a resource
  own it. Hard: the spec is edited, or the solution deleted and created again under its
  name, while a reconcile works on its copy; status writes conflict; resources are not watched.

## Modules

**ChangeDelivery** is the abstract specification of one watcher: variables for the
newest accepted and the last delivered change of each resource. `Deliver` moves MCP
forward only; `Delivery` is its liveness.

**DebounceLoop** is the abstract specification of one debounce goroutine as the reconciler and MCP see
it, over as many starts as there are: a set of changes that wait, in the channel or in the
buffer, the batch of the flush under way, what MCP stores. It says which changes a flush may
take (`Flush`, `FinalFlush`), what may become of them (`FlushOk`, `FlushRetries`, `FlushFails`) and when others vanish
(`Record`: a newer one is recorded over it; `FinalFlush`: it was still queued). It is the interface of the
next two modules: `DebounceBuffer` implements it, every slot of `ResourceSync` behaves by it.

**DebounceBuffer** is the watcher itself, one action per statement that another
goroutine can observe. `Notify` is a handler up to the point where it has read the
closed flag, `SendQueued`, `SendDropped` and `SendPanics` the three outcomes of its
`select`; `RecvChange`, `Tick`, `FinalFlush` and `Return` are the cases of `Run`, and `TickAfterCancel` that of a tick that is
taken although the context is done (its request is not made, its changes are put back);
`SendOk`, `SendPartial`, `SendRetries`, `SendGivesUp` and the `Backoff` actions one
attempt of `sendWithRetry` each; `FlagQueueClosed`, `CancelWatcher`, `CloseQueue` the
statements of `stopWatcher`. Each change has a version that the code lacks; with it the
properties tell old from new. `accepted` is a history variable.

**ResourceSync** is the reconciler for one config with its watchers. The changes in the queue and in the buffer
are one set `pending` per watcher, ordered by `ver` for each resource: an older change may go out while a newer one waits in
the queue, a batch may go out again after others have posted, and the final flush may leave the newest change behind. That
this is what queue, buffer and retries amount to is proved (below, composition). Watchers are
slots, so that an old one's goroutines can overlap the new one's. An informer lists once (`listed`), for which the initial
sync waits, and its cache (`store`) lags behind from then on as before. `Exit` is a crash or
a shutdown alike, because watcher contexts come from `context.Background()`. Actions are
named for their functions: `ReconcileDeleted/Changed/New/Unchanged`, `StartWatcher`,
`ListResources` to `ResyncRetries` for `performResync`, `Tick*` for
`periodicResyncLoop`.

**CooldownPersistence** has the maps of the reconciler that matter to it
(`cooldownTracking`), the dirty marks, the ConfigMaps, and two callers of `Sync`: the
periodic goroutine and `Stop`. `Sync` is a snapshot (`BeginSync`), a write or a miss per
policy, and the clearing of all marks (`EndSync`).

**Remediation** is the one worker that takes events and policies from the queue. `job` is the
reconcile under way; it is split where time may pass or the cluster may change what the
next lookup finds: the object cooldown check, the rate limit check, the marking, the
request, its answer, the attempts of the status update. A cached policy is either
current (`fresh`) or not; a write through an outdated copy conflicts. A process is set up (`StandBy`, where
`startupTime` is taken) before it gets the leader's lease (`Lead`, with empty maps and a list of all
events), and the leader works on in between. Every use of the rate limit key is a
lookup with any result of `Lookups`: the owner, or one of the fallbacks of `resolveOwnerForRateLimiting` for a
Job or Pod that is not in the cache or cannot be read. `sent`, `passedAt`, `cooledAt` and
`handled` are history variables; those of the cooldowns are by workload, the key of the owner, and note what
was done with that key only, as `found` of the job notes the checks that were.

**CapabilityScan** is the reconciler of one config. Each activation has a slot with its copy of the spec,
its queue, its batch (`pending`) and two goroutines: `loop`, the buffer (`Recv`, `Flush`, `Return`,
`EndFlush`), and `startup` (`ListCluster`, `ListMCP`, `EndStartup`). What a flush
and a diff send is a job in `work`, one scan and then the deletes, with `ScanOk`, `ScanFails`,
`ScanRetries` and the same for deletes. MCP answers a scan when it has accepted it: the resource is in
`scanning`, from which `Analyse` or `AnalysisFails` take it at any later time, also after a delete or
an exit of the controller. `Deliver` and `Relist` are the CRD informer,
`HandleCRDEvent` the handler. `updateStatus` and `updateLastScanTime` are the two functions that write the
status. `gone`, `unlisted` and `excused` are history variables: what was missing, what a listing
left out, and where MCP is wrong since a loss of a kind that `Converges` names. Only what is wrong at the moment
of the loss is excused (`Wrong`), and no longer than until a request or an analysis puts it right.

**GitKnowledgeSource** is the reconciler of one source. `job` is the reconcile under way:
the clone, the ingest of one file after the other, the status update, or cleanup and
release of the finalizer. `CloneIncremental` and `CloneFull` are the choice of `doSync`,
`NotSent`, `Skip`, `IngestOk` and `AnswersLost` the outcomes of a file, `EndSync` what `doSync` puts
into the status, `WriteStatus` and `WriteStatusFails` its update. The branch is a sequence
of commits, a commit a map from files to contents; `Push` and `Rewind` move it. `fresh` says that
nobody wrote the object since the reconcile read it, so a write does not conflict. `failed`,
`ahead`, `missed` and `kept` are history variables that name the exceptions of the properties.

**CRDInformers** is the inside of `startWatcher` that `ResourceSync` takes for one step: `Discover`,
`StartInformers`, the CRD informer (`CRDsListed`, `CRDSeen`) and its handlers (`onCRDAdd`, `onCRDDelete`),
the informers of the types (`Reflect`), the wait for the caches and the resyncs. A resource is `served` in a set
of versions, of which the discovery gives each an informer; `crd` is the one version that `gvrFromCRD` picks, for the
notices. `activeInformers` and `factory` are two sets, as in the code: what leaves the first stays in the second.
`lasting`, `unnamed` and `escaped` are history variables: discovered types whose objects are there all the time,
discovered types that no notice has named, and resources of which a change of the CRD, not only the last, gave no notice.

**Solution** is the reconciler for the solutions of a namespace, with the garbage collector
beside it. `initializeSolutionStatus` is the first reconcile; a later one owns the resources of its copy
of the spec one by one (`ensureOwnerReference`, `SkipOwnership`), then reads the solution anew
(`ReadFresh`), counts (`CheckResource`) and writes (`WriteStatus`, `WriteConflicts`, `WriteFails`), up to
`MaxAttempts` times. Owners are pairs of a name and an incarnation, for the UID. `named` is a history variable.

`MC*` modules give the constants values. How the components meet: a watcher of `ResourceSync`
is `DebounceBuffer` on the inside, with `DebounceLoop` between them, and `CRDInformers` on the side of the cluster;
`CooldownPersistence` has the part of `Remediation`'s state that survives, and the order of `main`: signal,
drained manager, `Stop`. The other reconcilers share nothing in the process.

## Runs

Every passing run checks one instance completely. Every property has a mutant, a small
change a bug could make to a mapped definition, under which TLC finds the property
violated; mutants stand before the definition they replace, under `A bug:`.

| Run | What it shows | Bounds and why they do |
|---|---|---|
| `debounce` | `Conserved`, `PipelineOrdered`, `ErrorMeansUnsent`, `DeliversIfMCPAnswers`, `StopEndsLoop`, and that the watcher implements `ChangeDelivery` and `DebounceLoop` | two resources of different types, so two handlers run at once; two versions (a change in flight and a newer one pending or queued), queue of 2, one retry; the proofs have no bound on the versions |
| `send_on_closed_queue` | a finding | |
| `resync` | `MapIsTruth`, `NoStaleResync`, `SlotsAreLoops`, `StaleEnds`, `Converges`, `StatusSettles` | two watchers that overlap, two specs, one changing resource among others that always exist, one content beside absence, two events of the environment (edits, deletions, exits, changes): two changes of a resource, so that a newer one waits behind an older one in flight |
| `cooldown_restart` | `HonouredOncePersisted`, `CleanStopPersists`, `StopReturns` | two policies, a cooldown above and one exactly at the minimum, two processes, three units of time |
| `remediation_safety` | `CountersHonest`, `NoEarlyRepeat`, `Spaced` | two Pods of two Jobs of a CronJob, alike (symmetry); a lookup that does not find the CronJob gives a key of the Pod's own; two occurrences (two events, or one that recurs), two attempts per status update, two processes that overlap, three units of time: a mark ages and its event comes back, an event is sent while the second process stands by, and an event passes after the cooldown of another (all three occur) |
| `capability_scan` | `DeletesJustified`, `ReadyIsClean`, `Converges` | one resource, in any state at the start and with or without a capability; two specs of which one excludes it; two activations that overlap; a queue of one; an analysis that ends at any time or never; two events (changes of the CRD, edits of the config, exits). One resource suffices because no guard relates two but that of the full queue, which two updates of one fill |
| `orphans_of_partial_list` | a finding | |
| `git_source` | `RecordedIsThere`, `GoneIsClean`, `NotForgotten`, `Settles` | two files; three commits, of which one changes a file and removes the other and one reverts the change, so that a diff may be empty for a file that moved; two specs with different servers and filters, one with a size limit, an invalid schedule and retention; a clone of depth two, so that the recorded commit may be out of reach; three events (pushes, forced pushes, edits, deletions, creations, exits): an edit during a sync and one during the sync after it, or a deletion, an edit of the deleted object and an exit |
| `synced_but_missing` | a finding | |
| `crd_informers` | `MapFollows`, `InitialIsComplete`, `Settles` | a custom resource in one or both of two versions and a built-in one in one, four events: a CRD that goes, comes back in other versions and goes again while its notices wait, or a stop in between |
| `initial_sync_blocked` | a finding | |
| `solution` | `StatusIsOfItsSpec`, `OwnersNamedIt`, `Settles` | a solution that may be deleted and created again, two resources of which one is in another namespace, two attempts, three events. Solutions meet only in the owners of a resource, where an older incarnation of the same one stands for another |

Deadlock checking is off where the bounds on the environment, or the end of the
process, leave nothing to do; each cfg says which.

Times are coarse units. In `Remediation` they keep the order of the code's ages
(object cooldown < age of marks), in `CooldownPersistence` they are compared with the
minimum duration. An event or an expiry in the same unit covers both orders that the
finer clock allows, except where a comment says which one is meant.

## Fairness

* `DebounceBuffer`: strong fairness of the cases of `Run`'s `select`, because Go picks at
  random among ready cases, so one that is ready again and again is picked. Weak fairness of what follows a started
  flush (HTTP client timeout), of a handler's `select` (it has a default case) and of the rest of
  `stopWatcher`. Nothing says that `stopWatcher` is called or MCP answers; `MCPAnswers` is
  the antecedent of `DeliversIfMCPAnswers`.
* `ResourceSync`: weak fairness of Reconcile (requeued by controller-runtime), informers,
  goroutines and expiring backoffs; one for the cases of a debounce loop, which exclude each other. `MCPAnswers` (of
  whoever posts), `StartsSucceed` and `StatusWritesWork` are antecedents: without
  them the code cannot converge, and the properties are implications from them.
* `CooldownPersistence`: weak fairness of `Stop` and the end of the periodic goroutine; `Stop` has
  timeouts for everything it waits for.
* `Remediation`: none; its properties are safety.
* `CapabilityScan`: weak fairness of everything but the environment and retries, as one action: the
  process runs. It is less than fairness of each goroutine. A request may fail
  at its last attempt, so nothing is assumed of the requests; `Converges` says what a failure may leave wrong. MCP's
  analyses are external and have no fairness: that those of a resource end is an antecedent (`AnalysesEnd`).
* `GitKnowledgeSource`: weak fairness of the reconciler and of the delayed requeue: the process runs.
  `Settles` assumes besides that git answers again and again and that from some time on
  only conflicting writes fail, and that no schedule is missed (below).
* `CRDInformers`: weak fairness of each goroutine (informers, CRD handlers, resyncs): the API server
  and MCP answer. No fairness of stops. `Settles` needs that what was discovered has been listed, or can be; `initial_sync_blocked` shows why.
* `Solution`: weak fairness of the reconcile under way, of the garbage collector and of delayed
  requeues; strong fairness of the start of a reconcile for each solution, as one worker serves the queue
  in turn. `ApiAnswers` is an antecedent of `Settles`.

## Proofs

`DebounceBufferProofs` proves, for all resources, informers, queue sizes, retry counts
and versions, from `ConstantsOK` alone:

* `TypeCorrect`: type correctness, including the bound on the queue.
* `NoAcceptedChangeLost`, `OrderKept`, `ErrorIsTruthful`: the invariants of `debounce`; and
  `StopLosesOnlyTheQueue`, a consequence of them.
* `ImplementsDeliverySafety`: every step maps to a step of `ChangeDelivery` or a stutter.
* `ImplementsDebounceLoop`: every step maps to a step of `DebounceLoop` or a stutter.

The inductive invariant `IInv` is the conjunction of `TypeOK`, `Conserved`, `PipelineOrdered` and
`ErrorMeansUnsent`. None is inductive alone. `Conserved` needs the order of the
pipeline: a requeue that loses against a newer pending change keeps the newest one only
because what is pending is newer than what was in flight. `PipelineOrdered` in turn needs the exclusion, a part of `ErrorMeansUnsent`,
that nothing is recorded while a flush is under way. The proof has one lemma per kind of
step (`NotifyKeeps`, `SendQueuedKeeps`, `RecvChangeKeeps`, `BeginFlushKeeps`, `BatchStays`,
`BatchRequeued`, `SendOkKeeps`, `QuietStepKeeps`), and `InvNext` puts them together.
`LossOnlyInQueue` follows from `IInv`, so no run checks it. The refinement of `DebounceLoop` needs `IInv` too: that a
flush takes all that waits but what is newer is the order of queue and buffer, and that a failed batch comes back whole is the
exclusion. `LoopInv` adds that the queue closes after the cancellation, so the two branches that leave the loop are one
action. Each kind of step has a lemma `...Maps`.

`ResourceSyncProofs` proves `MapIsTruth` and `NoStaleResync` for all resources, specs and
watchers. The inductive invariant adds to `MapIsTruth` that a Reconcile about to start a
watcher has none in the map: Reconcile is split there, and without it a start could
take the entry of a watcher that then nobody stops. `StepKinds` sorts the steps by what
they do to the map, the contexts and the goroutines; one case of `InvNext` follows for each kind.
`NoStaleResync` rests on `MapIsTruth`: the goroutine's own check of the map is long past when
it posts, but a watcher that is not in the map has a context that is done. `TypeOK` includes that a loop has a
batch exactly while it flushes.

Composition. `EverySlotIsALoop` (`SlotsAreLoops`) says that each slot of `ResourceSync`, whatever the reconciler, the resyncs
and the other slots do, takes steps of `DebounceLoop` that shares MCP; its invariant says that a slot
whose goroutine has ended has nothing left (`EndedEmpty`) and that a version on its way is at most the number of events so
far (`VersOld`), so a change that is queued behind another is the newer one. `SlotsDoWhatLoopsDo` is the converse for the goroutine's own steps: in a state of a slot, what
`DebounceLoop` allows it, `ResourceSync` does. With `ImplementsDebounceLoop`: each way in which the real loop moves
changes from its queue to MCP is one that `ResourceSync` has, so `Converges` and the others are checked against all of them.
What `DebounceBuffer` knows of the stop (flag, cancellation, close in this order, handlers that come late) is in
`ResourceSync` the one step `stopWatcher`; the comment of `Notice` says why a late send adds nothing.

`CooldownPersistenceProofs` proves `HonouredOncePersisted` for all keys, policies, durations
and bounds. The inductive invariant follows a cooldown around its way: `SyncsNotAhead`, no snapshot of a
sync has a later end than memory, so a write never puts into a ConfigMap what memory
lacks; `LoadedCovers`, what `Load` returned covers the ConfigMaps until it is restored, for which
`StartsQuietly` excludes that a sync writes meanwhile; `MemoryCovers`, the property. `TypeOK` and `CleanStopPersists`
are proved too: while nobody but the final sync runs, all cooldowns are marked, and one that lasts is in its snapshot and still to
be written, was missed by a failure, or is in its ConfigMap (`StopInv`). That covers the policies that are switched
off, as one may persist again before its turn comes.

`RemediationProofs` proves `CountersHonest` for all events, policies and bounds. Its
inductive invariant says that a reconcile between the mark and the end of the status
update still has its count to give: at most one increment follows each mark, which is
what fails when an error whose write may have been done is retried. `TypeOK`, `NoEarlyRepeat` and `Spaced` follow from
invariants that relate marks and cooldowns to the clock. `Repeatable` is about a version that was sent: for the process that
sent it, it is still marked, or old enough; when it is taken up again, it is that, or it was sent while this process
stood by. For a later process it rests on `Marked`: no mark is earlier than the event, so what is not historical was
marked after `startupTime`. `Cooling`: since an event passed a policy under the key of its
owner, the owner is in the cooldowns this has set, or they are over; `Checked`: what the job notes as found
with the owner's key has been compared with that cooldown.

`CapabilityScanProofs` proves `TypeOK`, `DeletesJustified` and `ReadyIsClean` for all resources, specs, filters,
slots, queue sizes and bounds, and whatever MCP's analyses do. `DeletesJustified` follows a chain. A delete of a flush was
pending before, queued before that, and before that called for by an informer whose news tell
of a deletion that had begun: `StagesGone` and `CallsJustified` say so of each link. A
delete of the startup diff was not listed: `ListedCovers` says that what the list lacks
was missing or left out, and `StartupAlone` that a slot taken by a new activation has no
requests of the filters it had before. Each action, or kind of action, has a lemma; the requests share
`WorkShrinksKeeps`. `ReadyIsClean` holds because the two functions that write the status agree (`StatusWrites`).

`GitKnowledgeSourceProofs` proves `TypeOK`, `RecordedIsThere`, `GoneIsClean` and `NotForgotten` for all
files, trees, commits, servers, specs, depths and bounds. `Current` is what the three share: while
nobody else writes the object, a reconcile works on its spec and generation, and when somebody did, a
request is queued. `RecordInv` carries `RecordedIsThere` through a sync: what was taken up without failing is in
place, and `LeftOut`, what was not taken up is absent from the commit or vouched for by the record. That record is
still the one of the clone when the status is written, or the write conflicts. `CleanInv` and `QueueInv` follow
the cleanup to the end of the finalizer, and a result without a requeue to the queue.

`CRDInformersProofs` proves `TypeOK`, `InitialIsComplete` and `MapFollows` for all names, versions and bounds.
For the second, an object that lasts is in the cache of an informer that is waited for as soon as that informer
has listed, and no notice on its way removes its type (`LastingIsWatched`). For the third, the notices of a
resource, one after the other, lead from what notices have brought of it into the map (`Kept`: the entries but for the
discovered ones that no notice has named) to the version that the CRD informer knows (`Leads`, `Leading`); before
the first list of the CRDs nothing has been named. `Places` and
`LeadsOn` say what handling the first of a queue leaves of them.

`SolutionProofs` proves `TypeOK`, `StatusIsOfItsSpec` and `OwnersNamedIt` for all solutions, resources and bounds.
`OwnersInv` adds that the reconcile's copy names only what its incarnation has named, if that still lives, and that no
resource has an owner from the future. `StatusInv` follows a count from the reading to the write: ready, failed and
what is left make up the total, which is that of the spec as long as nobody writes, and after a write by others
that of the status conflicts. Each lemma `...Moves` says what a kind of step may do to one solution or resource,
`OwnersStep` and `StatusStep` that no such move breaks the invariant.

All assume nothing but the `ConstantsOK` of their modules. Liveness is out of the prover's reach and only
model-checked. No module has a recursive definition.

## Findings and observations

Findings are runs with `expect: violation`; PROJECT.json quotes the lines.

1. A handler may send on the closed change queue (`send_on_closed_queue`).
2. When discovery of an API group fails, a startup reconciliation deletes the capabilities
   of resources that the cluster has (`orphans_of_partial_list`). `DeletesJustified` shows that,
   within the filters, every other resource whose capability is deleted was missing at some
   time while the process ran.
3. A git source whose files failed to sync becomes Synced at the next sync, without them
   (`synced_but_missing`). `RecordedIsThere` shows that only files that failed when last taken up,
   or that an unrecorded sync has sent since, may be missing.
4. A CRD removed between the discovery and the first list of its informer keeps the watcher from
   its initial sync and from all resyncs (`initial_sync_blocked`). `Settles` of `CRDInformers`
   shows that it is only such a type that does.

What the properties name as exceptions, because the code does it (no run of its own):

* An event that the old leader sends after a new process was set up, and before it leads, is sent again:
  `startupTime` is taken in `SetupWithManager` (`remediationpolicy_controller.go:753`), before the lease, though its
  comment (`:46-48`) says that it prevents notification storms on restart. The chart elects a leader and grants
  1260 seconds, so in a rollout both processes run. It is the second exception of `NoEarlyRepeat`.
* Two events of one workload may pass within a cooldown when a lookup of the owner fails or misses: each failure has a key of
  its own (`remediationpolicy_ratelimit.go:88-103`, `:127-132`). `Spaced` is about lookups that found the owner.
* Of a custom resource served in several versions, a removal of the CRD takes one from `activeInformers`
  (`resourcesync_controller.go:612`, `gvrFromCRD` `:633`), though the discovery had an informer made for each (`:758-793`).
  If the others' watches miss the deletion of the objects, their lists fail from then on, and every resync sends these
  objects until the watcher is stopped. `MapFollows` and `Settles` say that this is so only of types of the
  discovery that no notice has named (`unnamed`, `Ghosts`).
* A resource that is created between the list of the cluster (`capabilityscan_controller.go:236`) and that of MCP (`:245`), of
  which MCP has a capability, loses it as an orphan (`:249`). An analysis of a deleted
  resource that MCP ends after the delete leaves a capability (`docs/capability-scan-guide.md:103-108`: scans are carried out in
  the background), until the next startup finds it. Both are named in `Converges`.

Seen while modelling, without a run: the final flush of a watcher leaves queued changes behind, though a
doc promises the opposite (`LossOnlyInQueue` says that nothing else is lost); a partial success is an error to `flush`, so its branch
for `!resp.Success` is dead and the whole batch is resent (`resourcesync_debounce.go:185-213`); a
resync's error in the status is overwritten by the next Reconcile; a resync with no resources is
skipped, so an emptied cluster leaves MCP as it was; a conflict in the status update of a config
starts the five-minute backoff too, and a tick in the backoff skips the resync, not only the status
update (`resourcesync_controller.go:1430`).

In remediation and persistence: a cooldown of exactly one hour is never marked (`persistence.go:238`); a sync clears
the marks of cooldowns that it did not write (`persistence.go:303`), which a clean stop repairs and a crash does not; rewriting a
ConfigMap drops entries with less than an hour to go; restoring may replace a newer cooldown by the
older one; an event whose request failed is requeued but found marked, unless the request took more than
ten minutes: then it is sent again (`remediationpolicy_controller.go:606`), the first exception of `NoEarlyRepeat`;
a missing token is neither counted nor retried; counts that
the cache learns of between the two reads that initialise a policy's status are set to zero
(`remediationpolicy_controller.go:499`); `cooldownMinutes` without `eventsPerMinute` has no effect, and one of up to five
minutes is hidden by the object cooldown.

In the capability scan: the final flush uses the cancelled context, sends nothing, and its error
makes the config of the new activation not Ready for good, because a Reconcile that changes nothing writes
no status; the end of a startup reconciliation clears the error its failed scan has just set;
`initialScanComplete` is in the API but never set; a CRD deleted and created again in one window is
not scanned; `maxAttempts` counts retries, not attempts; a deletion that the informer learns of by
a relist is queued as a scan; two configs with different filters and one collection delete
each other's capabilities.

In git sources: a next time that is past by the time its distance is taken makes it 0, and the schedule
ends (`gitknowledgesource_scheduler.go:76`); documents of removed files, and of files a new filter excludes, stay at MCP, for
`DeleteDocument` has no caller, though `prds/done/44-knowledgesource-crd.md:127` wants removed files deleted; `Clone` does not use its
context (`gitknowledgesource_git.go:105`); a sync that timed out records its commit; `DocumentCount` counts a document again
with every sync; a file that has grown too large keeps its old document.

In informers: a CRD that changes its version is not noticed, as the CRD informer has no `UpdateFunc`
(`resourcesync_controller.go:515`); a type that comes back gets a second set of handlers on the informer it had (`:563-569`), so
its changes are queued twice, by two listeners that keep no order between them: an older state may be queued after
a newer one; a discovery that fails in part makes the initial resync remove the built-in resources
it left out from MCP.

In solutions: a resource of another namespace gets an owner reference that the garbage collector looks up in
the resource's namespace, does not find, and may delete the resource for; an owner reference is never taken back, so a
resource dropped from the spec goes with the solution; until the first count the state is `deployed` with none
ready, where `docs/solution-guide.md:302-303` calls the initial state `pending` and all healthy ones `deployed`
(`StatusIsOfItsSpec` allows it, as nothing has been counted).

## What is not modelled

Assumptions: a request whose client gave up on it has been carried out by then or never is; all
watchers of a config post to one endpoint; resource IDs are not empty; in
`ResourceSync`, status writes are atomic and a conflict is a failure, and the manager's cache of
configs is current; in `CooldownPersistence`, a deleted policy does not come back, a
ConfigMap that cannot be parsed counts as unreadable, periodic writes fail once the
manager's context is cancelled, and `Stop` runs after the reconcilers; in
`Remediation`, policies are neither created nor deleted, events have timestamps, after the marking time
passes only while MCP is waited for, and one process at a time stands by. Remediation leaves out loaded cooldowns, the
subject of `CooldownPersistence`. In `CapabilityScan`, a CRD is deleted in two steps, marked and removed; an
analysis adds the capability of its resource or nothing, and analyses of one resource under way together count as one;
there is one config with a collection of its own; what its filters let through is a constant per spec;
the number of attempts is not counted; MCP answers a list in JSON and in full (a body that is not JSON
would count as an empty list, and a list ends at 10000).

In `GitKnowledgeSource`, there is one source with one branch; a read from an outdated cache is left out, as the first
write after it conflicts; a rename is a removal and an addition; what lets a file through (paths, exclusions, size) is
a constant per spec; a commit is on the branch once; counters and the condition Ready are left out. In `CRDInformers`, a CRD
serves at least one version, and built-in resources always the same; a change and a resync reach MCP in one step, the
subject of the modules for them; a listing is never empty; doubled handlers are left out, here and in
`DebounceBuffer`, which has one handler call at a time for each type: `PipelineOrdered` is about watchers whose
types have not come back; the notices
are handled one by one, as an informer calls its handlers. In `Solution`, the health of a
resource is a value the cluster has; two solutions do not appear in the run; cluster-scoped resources are left out.

Left out for good: message formats of Slack and Google Chat (they change no state of the controller), the readiness
flag of the shutdown, API types and generated deep copies, charts, scripts, build files. Left out so far: policies of
`Remediation` that are created or deleted while the system runs, several configs with one collection.

## Plan

Done: the watcher with its abstract specifications, resyncs, persistence, remediation, capability scan, git sources,
informers and solutions, each with proofs; the composition of watcher and reconciler. Left, in this order:

1. Composition of `ResourceSync` and `CRDInformers`: that its informers list and lag as `Notice` and `CachesSynced` say.
2. `Remediation` with policies that come and go, and their ConfigMaps.
3. `CapabilityScan` with several configs and one collection.
