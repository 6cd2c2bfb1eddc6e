---------------------------- MODULE ResourceSync ----------------------------
(***************************************************************************)
(* The ResourceSync reconciler for one ResourceSyncConfig, with all the    *)
(* goroutines it starts and stops: Reconcile, and per watcher the informer *)
(* handlers, the debounce loop and the goroutine of the initial sync and   *)
(* the periodic resyncs.  The debounce loop is the one of DebounceLoop,    *)
(* which DebounceBuffer implements: changes wait in pending (queue and     *)
(* buffer together), go out as a batch, and come back when the flush       *)
(* fails.  MCP thus has two kinds of writers per watcher, flushes and full *)
(* resyncs, and an old watcher may write while a new one does.  All        *)
(* watchers post to one endpoint, the case in which they interfere.        *)
(*                                                                         *)
(* Of the status page the model keeps the field Active.                    *)
(***************************************************************************)
EXTENDS Naturals

CONSTANTS
  Resources,   \* resource identifiers
  Contents,    \* what a resource may contain
  LabelsOf,    \* the labels in a content, all that hasRelevantChanges compares
  Gone,        \* the content of a resource that does not exist
  Specs,       \* the values of spec that configChanged tells apart
  NoSpec,      \* the config does not exist
  Watchers,    \* slots for watchers, reused once their goroutines have ended
  NoWatcher,
  OthersExist, \* TRUE iff the cluster also has resources that never change
  MaxEvents    \* bound on changes of the cluster, edits of the config and exits

ASSUME ConstantsOK ==
  /\ Gone \notin Contents /\ NoSpec \notin Specs /\ NoWatcher \notin Watchers
  /\ LabelsOf \in [Contents -> Contents] /\ Specs # {}
  /\ OthersExist \in BOOLEAN
  /\ MaxEvents \in Nat

VARIABLES
  cluster,       \* the content of every resource
  config,        \* the spec of the ResourceSyncConfig
  events,        \* number of events of the environment so far
  activeConfigs, \* the watcher in the map activeConfigs
  reconcile,     \* the Reconcile under way: its next step and the spec it read
  statusActive,  \* status.active of the config
  spec,          \* the config the active watcher was started with
  store,         \* the caches of the active watcher's informers
  listed,        \* the resources whose informers have delivered their first list
  backoff,       \* TRUE while the active watcher's status writes back off
  cancelled,     \* per watcher, TRUE unless its context is live
  pending,       \* per watcher, the changes that wait in queue or buffer
  batch,         \* per watcher, the changes of the flush under way
  run,           \* per watcher, where the debounce loop is
  sync,          \* per watcher, where the goroutine of the resyncs is
  snapshot,      \* per watcher, what the resync under way posts
  mcp            \* what MCP has stored

environment == <<cluster, config, events>>
reconciler  == <<activeConfigs, reconcile, statusActive, spec>>
debounce    == <<pending, batch, run>>
resync      == <<sync, snapshot>>
caches      == <<store, listed>>
vars == <<environment, reconciler, caches, backoff, cancelled, debounce, resync, mcp>>

State    == [Resources -> Contents \cup {Gone}]
AllGone  == [r \in Resources |-> Gone]

\* Of two changes of one resource on their way, that with the higher ver is the newer.
ResourceChange == [ID : Resources, ver : 0..MaxEvents, state : Contents \cup {Gone}]

\* At most one change of each resource: the buffer is a map.
IsMap(B) == \A c, d \in B : c.ID = d.ID => c = d

\* What MCP has after it applied a set of changes, or part S of a snapshot.
Applied(B) ==
  [r \in Resources |->
     IF \E c \in B : c.ID = r THEN (CHOOSE c \in B : c.ID = r).state ELSE mcp[r]]
Apply(m, S) == [r \in Resources |-> IF r \in S THEN m[r] ELSE mcp[r]]

\* What still waits when B has left the buffer: of B's resources, what is newer.
Beyond(m, B) == {c \in m : \A b \in B : b.ID = c.ID => b.ver < c.ver}

Idle   == [step |-> "idle", seen |-> NoSpec]
NoSync == [step |-> "off", initial |-> TRUE]

\* Both goroutines of the slot have ended, or were never started.
Ended(w) == run[w] = "off" /\ sync[w].step = "off"

TypeOK ==
  /\ cluster \in State /\ mcp \in State /\ store \in State
  /\ listed \in SUBSET Resources
  /\ config \in Specs \cup {NoSpec} /\ spec \in Specs \cup {NoSpec}
  /\ events \in 0..MaxEvents
  /\ activeConfigs \in Watchers \cup {NoWatcher}
  /\ reconcile \in [step : {"idle", "start"}, seen : Specs \cup {NoSpec}]
  /\ statusActive \in BOOLEAN /\ backoff \in BOOLEAN
  /\ cancelled \in [Watchers -> BOOLEAN]
  /\ pending \in [Watchers -> SUBSET ResourceChange]
  /\ batch \in [Watchers -> SUBSET ResourceChange]
  /\ run \in [Watchers -> {"off", "select", "flush", "final"}]
  /\ sync \in [Watchers -> [step : {"off", "wait", "list", "send", "loop", "tick"},
                            initial : BOOLEAN]]
  /\ snapshot \in [Watchers -> State]
  /\ \A w \in Watchers : run[w] \in {"off", "select"} <=> batch[w] = {}

\* A process starts, on a cluster with some state and a new config.
Init ==
  /\ cluster \in State /\ mcp = AllGone
  /\ config = (CHOOSE s \in Specs : TRUE)
  /\ events = 0
  /\ statusActive = FALSE
  /\ activeConfigs = NoWatcher /\ spec = NoSpec
  /\ reconcile = Idle
  /\ store = AllGone /\ listed = {}
  /\ backoff = FALSE
  /\ cancelled = [w \in Watchers |-> TRUE]
  /\ pending = [w \in Watchers |-> {}] /\ batch = [w \in Watchers |-> {}]
  /\ run = [w \in Watchers |-> "off"]
  /\ sync = [w \in Watchers |-> NoSync]
  /\ snapshot = [w \in Watchers |-> AllGone]
-----------------------------------------------------------------------------
(* The environment.                                                         *)

Event == events < MaxEvents /\ events' = events + 1

Change(r, c) ==
  /\ Event
  /\ c # cluster[r]
  /\ cluster' = [cluster EXCEPT ![r] = c]
  /\ UNCHANGED <<config, reconciler, caches, backoff, cancelled, debounce, resync, mcp>>

\* The config is created, edited or deleted.  A new one has an empty status.
Edit(s) ==
  /\ Event
  /\ s # config
  /\ config' = s
  /\ statusActive' = (statusActive /\ s # NoSpec)
  /\ UNCHANGED <<cluster, activeConfigs, reconcile, spec, caches, backoff, cancelled, debounce,
                 resync, mcp>>

\* The process crashes, or shuts down: the watchers' contexts come from
\* context.Background(), nothing stops them first and nothing is flushed.
Exit ==
  /\ Event
  /\ activeConfigs' = NoWatcher /\ spec' = NoSpec
  /\ reconcile' = Idle
  /\ store' = AllGone /\ listed' = {}
  /\ backoff' = FALSE
  /\ cancelled' = [w \in Watchers |-> TRUE]
  /\ pending' = [w \in Watchers |-> {}] /\ batch' = [w \in Watchers |-> {}]
  /\ run' = [w \in Watchers |-> "off"]
  /\ sync' = [w \in Watchers |-> NoSync]
  /\ snapshot' = [w \in Watchers |-> AllGone]
  /\ UNCHANGED <<cluster, config, statusActive, mcp>>
-----------------------------------------------------------------------------
(* Reconcile.  One at a time; events, errors and RequeueAfter bring it back. *)

\* The informers' stop channel and the change queue close with the context.
stopWatcher ==
  /\ activeConfigs # NoWatcher
  /\ cancelled' = [cancelled EXCEPT ![activeConfigs] = TRUE]
  /\ activeConfigs' = NoWatcher
  /\ spec' = NoSpec /\ backoff' = FALSE
  /\ store' = AllGone /\ listed' = {}

ReconcileDeleted ==
  /\ reconcile = Idle /\ config = NoSpec
  /\ stopWatcher
  /\ UNCHANGED <<environment, reconcile, statusActive, debounce, resync, mcp>>

\* A bug: the new watcher is started beside the old one.
ReconcileChangedWithoutStop ==
  /\ reconcile = Idle /\ config # NoSpec
  /\ activeConfigs # NoWatcher /\ spec # config
  /\ reconcile' = [step |-> "start", seen |-> config]
  /\ UNCHANGED <<environment, activeConfigs, statusActive, spec, caches, backoff, cancelled,
                 debounce, resync, mcp>>

\* configChanged
ReconcileChanged ==
  /\ reconcile = Idle /\ config # NoSpec
  /\ spec # config
  /\ stopWatcher
  /\ reconcile' = [step |-> "start", seen |-> config]
  /\ UNCHANGED <<environment, statusActive, debounce, resync, mcp>>

ReconcileNew ==
  /\ reconcile = Idle /\ config # NoSpec
  /\ activeConfigs = NoWatcher
  /\ reconcile' = [step |-> "start", seen |-> config]
  /\ UNCHANGED <<environment, activeConfigs, statusActive, spec, caches, backoff, cancelled,
                 debounce, resync, mcp>>

\* updateStatus for the active watcher, after backoff says bo: a write that fails
\* starts a backoff, during which none is tried.
updateStatus(bo) ==
  \/ /\ config = NoSpec \/ bo
     /\ backoff' = bo /\ UNCHANGED statusActive
  \/ /\ config # NoSpec /\ ~bo
     /\ backoff' = FALSE /\ statusActive' = TRUE
  \/ /\ config # NoSpec /\ ~bo
     /\ backoff' = TRUE /\ UNCHANGED statusActive

\* A bug: nothing changed, so the status is taken to be right.
ReconcileUnchangedSilently ==
  /\ reconcile = Idle /\ config # NoSpec
  /\ activeConfigs # NoWatcher /\ spec = config
  /\ UNCHANGED vars

ReconcileUnchanged ==
  /\ reconcile = Idle /\ config # NoSpec
  /\ activeConfigs # NoWatcher /\ spec = config
  /\ updateStatus(backoff)
  /\ UNCHANGED <<environment, activeConfigs, reconcile, spec, caches, cancelled, debounce, resync,
                 mcp>>

\* Discovery and the informers were set up.
StartWatcher(w) ==
  /\ reconcile.step = "start"
  /\ Ended(w)
  /\ activeConfigs' = w
  /\ spec' = reconcile.seen
  /\ store' = AllGone /\ listed' = {}
  /\ cancelled' = [cancelled EXCEPT ![w] = FALSE]
  /\ run' = [run EXCEPT ![w] = "select"]
  /\ sync' = [sync EXCEPT ![w] = [step |-> "wait", initial |-> TRUE]]
  /\ updateStatus(FALSE)
  /\ reconcile' = Idle
  /\ UNCHANGED <<environment, pending, batch, snapshot, mcp>>

\* An error before the watcher is stored: nothing runs, and the status says so
\* unless the write fails.
StartFails ==
  /\ reconcile.step = "start"
  /\ statusActive' = FALSE
  /\ reconcile' = Idle
  /\ UNCHANGED <<environment, activeConfigs, spec, caches, backoff, cancelled, debounce, resync,
                 mcp>>

StartFailsUnreported ==
  /\ reconcile.step = "start"
  /\ reconcile' = Idle
  /\ UNCHANGED <<environment, activeConfigs, statusActive, spec, caches, backoff, cancelled,
                 debounce, resync, mcp>>

\* Five minutes after the last failure.
BackoffExpires ==
  /\ backoff
  /\ backoff' = FALSE
  /\ UNCHANGED <<environment, reconciler, caches, cancelled, debounce, resync, mcp>>
-----------------------------------------------------------------------------
(* Informers and their handlers.                                            *)

hasRelevantChanges(old, new) ==
  IF Gone \in {old, new} THEN TRUE ELSE LabelsOf[old] # LabelsOf[new]

\* The events so far order the changes of r that the active watcher has not sent.
NextVer(r) ==
  IF \E c \in pending[activeConfigs] \cup batch[activeConfigs] : c.ID = r THEN events ELSE 0

\* An informer lists its resource, then its cache follows the cluster.  The handler
\* queues the change, or drops it on a full queue, or finds nothing relevant in it.  (A
\* handler that comes to queue its change only after a stop may have done so before:
\* nothing but the final flush tells the difference.)
Notice(r, queued) ==
  /\ activeConfigs # NoWatcher
  /\ store[r] # cluster[r] \/ r \notin listed
  /\ queued => store[r] # cluster[r] /\ hasRelevantChanges(store[r], cluster[r])
  /\ store' = [store EXCEPT ![r] = cluster[r]]
  /\ listed' = listed \cup {r}
  /\ pending' = IF queued
                THEN [pending EXCEPT ![activeConfigs] =
                        @ \cup {[ID |-> r, ver |-> NextVer(r), state |-> cluster[r]]}]
                ELSE pending
  /\ UNCHANGED <<environment, reconciler, backoff, cancelled, batch, run, resync, mcp>>
-----------------------------------------------------------------------------
(* The debounce loop, as module DebounceLoop has it.                        *)

\* The buffer records a newer change over c: last state wins.
Record(w, c) ==
  /\ run[w] = "select"
  /\ \E d \in pending[w] : d.ID = c.ID /\ c.ver < d.ver
  /\ pending' = [pending EXCEPT ![w] = @ \ {c}]
  /\ UNCHANGED <<environment, reconciler, caches, backoff, cancelled, batch, run, resync, mcp>>

\* The ticker: what is in the buffer goes out, what is newer is still in the queue.
\* (A flush by a tick after the stop posts nothing: its context is done.)
Flush(w, B) ==
  /\ run[w] = "select" /\ ~cancelled[w]
  /\ B # {} /\ IsMap(B)
  /\ batch' = [batch EXCEPT ![w] = B]
  /\ pending' = [pending EXCEPT ![w] = Beyond(@, B)]
  /\ run' = [run EXCEPT ![w] = "flush"]
  /\ UNCHANGED <<environment, reconciler, caches, backoff, cancelled, resync, mcp>>

\* A bug: the loop of a stopped watcher goes on instead.
FinalFlushNotFinal(w, B) ==
  /\ run[w] = "select" /\ cancelled[w]
  /\ B # {} /\ IsMap(B)
  /\ batch' = [batch EXCEPT ![w] = B]
  /\ pending' = [pending EXCEPT ![w] = Beyond(@, B)]
  /\ run' = [run EXCEPT ![w] = "flush"]
  /\ UNCHANGED <<environment, reconciler, caches, backoff, cancelled, resync, mcp>>

\* The final flush of a stopped watcher; what is not in B was still queued.
FinalFlush(w, B) ==
  /\ run[w] = "select" /\ cancelled[w]
  /\ IsMap(B)
  /\ batch' = [batch EXCEPT ![w] = B]
  /\ pending' = [pending EXCEPT ![w] = {}]
  /\ run' = [run EXCEPT ![w] = IF B = {} THEN "off" ELSE "final"]
  /\ UNCHANGED <<environment, reconciler, caches, backoff, cancelled, resync, mcp>>

AfterFlush(w) == run' = [run EXCEPT ![w] = IF @ = "final" THEN "off" ELSE "select"]

FlushOk(w) ==
  /\ run[w] \in {"flush", "final"}
  /\ mcp' = Applied(batch[w])
  /\ batch' = [batch EXCEPT ![w] = {}]
  /\ AfterFlush(w)
  /\ UNCHANGED <<environment, reconciler, caches, backoff, cancelled, pending, resync>>

\* A bug: the failed batch is put back but also kept.
FlushFailsKeepsBatch(w, S) ==
  /\ run[w] \in {"flush", "final"}
  /\ mcp' = Applied(S)
  /\ pending' = [pending EXCEPT ![w] = IF run[w] = "final" THEN @ ELSE @ \cup batch[w]]
  /\ AfterFlush(w)
  /\ UNCHANGED <<environment, reconciler, caches, backoff, cancelled, batch, resync>>

\* A bug: the final flush is repeated until it succeeds.
FlushFailsRepeatsFinal(w, S) ==
  /\ run[w] \in {"flush", "final"}
  /\ mcp' = Applied(S)
  /\ IF run[w] = "final"
     THEN UNCHANGED debounce
     ELSE /\ batch' = [batch EXCEPT ![w] = {}]
          /\ pending' = [pending EXCEPT ![w] = @ \cup batch[w]]
          /\ AfterFlush(w)
  /\ UNCHANGED <<environment, reconciler, caches, backoff, cancelled, resync>>

\* The last attempt fails.  MCP may have applied a part S.  Nobody reads the buffer
\* after a final flush.
FlushFails(w, S) ==
  /\ run[w] \in {"flush", "final"}
  /\ mcp' = Applied(S)
  /\ batch' = [batch EXCEPT ![w] = {}]
  /\ pending' = [pending EXCEPT ![w] = IF run[w] = "final" THEN @ ELSE @ \cup batch[w]]
  /\ AfterFlush(w)
  /\ UNCHANGED <<environment, reconciler, caches, backoff, cancelled, resync>>

\* An attempt before the last fails, and the batch goes out again later, whatever
\* others have posted meanwhile.
FlushRetries(w, S) ==
  /\ run[w] \in {"flush", "final"}
  /\ mcp' = Applied(S)
  /\ UNCHANGED <<environment, reconciler, caches, backoff, cancelled, debounce, resync>>
-----------------------------------------------------------------------------
(* The goroutine of the initial sync and the periodic resyncs.              *)

At(w, step) == sync[w].step = step
GoesTo(w, step, initial) ==
  sync' = [sync EXCEPT ![w] = [step |-> step, initial |-> initial]]

\* WaitForCacheSync returns: every informer has delivered its first list.
CachesSynced(w) ==
  /\ At(w, "wait") /\ ~cancelled[w]
  /\ listed = Resources
  /\ GoesTo(w, "list", TRUE)
  /\ UNCHANGED <<environment, reconciler, caches, backoff, cancelled, debounce, snapshot, mcp>>

\* The watcher was stopped: no initial sync, or the end of the loop.
SyncCancelled(w) ==
  /\ At(w, "wait") \/ At(w, "loop")
  /\ cancelled[w]
  /\ sync' = [sync EXCEPT ![w] = NoSync]
  /\ UNCHANGED <<environment, reconciler, caches, backoff, cancelled, debounce, snapshot, mcp>>

\* The status write after a resync.  Only the initial sync asks first whether its
\* watcher is still the active one and whether writes back off.  A write fails or
\* ends a backoff; it matters to the active watcher only.
Report(w) ==
  LET writes == /\ config # NoSpec /\ activeConfigs = w
                /\ sync[w].initial => ~backoff
  IN /\ IF writes THEN backoff' \in BOOLEAN ELSE UNCHANGED backoff
     /\ GoesTo(w, "loop", FALSE)

NoneListed == ~OthersExist /\ store = AllGone

\* A bug: the request does not carry the watcher's context.
ListWithoutContext(w) ==
  /\ At(w, "list") /\ ~NoneListed
  /\ snapshot' = [snapshot EXCEPT ![w] = store]
  /\ GoesTo(w, "send", sync[w].initial)
  /\ UNCHANGED <<environment, reconciler, caches, backoff, cancelled, debounce, mcp>>

\* performResync: the request carries the watcher's context, so a stopped watcher
\* posts nothing.
ListResources(w) ==
  /\ At(w, "list") /\ ~NoneListed /\ ~cancelled[w]
  /\ snapshot' = [snapshot EXCEPT ![w] = store]
  /\ GoesTo(w, "send", sync[w].initial)
  /\ UNCHANGED <<environment, reconciler, caches, backoff, cancelled, debounce, mcp>>

NothingToResync(w) ==
  /\ At(w, "list")
  /\ NoneListed \/ cancelled[w]
  /\ Report(w)
  /\ UNCHANGED <<environment, reconciler, caches, cancelled, debounce, snapshot, mcp>>

\* A bug: the request lacks IsResync, MCP does not look for orphans.
ResyncUpsertsOnly(w) ==
  /\ At(w, "send")
  /\ mcp' = Apply(snapshot[w], {r \in Resources : snapshot[w][r] # Gone})
  /\ snapshot' = [snapshot EXCEPT ![w] = AllGone]
  /\ Report(w)
  /\ UNCHANGED <<environment, reconciler, caches, cancelled, debounce>>

\* MCP diffs: what the snapshot lacks is deleted.
ResyncOk(w) ==
  /\ At(w, "send")
  /\ mcp' = snapshot[w]
  /\ snapshot' = [snapshot EXCEPT ![w] = AllGone]
  /\ Report(w)
  /\ UNCHANGED <<environment, reconciler, caches, cancelled, debounce>>

\* The last attempt fails, or an attempt before it, and the same snapshot goes
\* out again.  MCP may have applied a part S.
ResyncFails(w, S) ==
  /\ At(w, "send")
  /\ mcp' = Apply(snapshot[w], S)
  /\ snapshot' = [snapshot EXCEPT ![w] = AllGone]
  /\ Report(w)
  /\ UNCHANGED <<environment, reconciler, caches, cancelled, debounce>>

ResyncRetries(w, S) ==
  /\ At(w, "send") /\ ~cancelled[w]
  /\ mcp' = Apply(snapshot[w], S)
  /\ UNCHANGED <<environment, reconciler, caches, backoff, cancelled, debounce, resync>>

\* periodicResyncLoop: the ticker's case is taken, then the checks are made.
Tick(w) ==
  /\ At(w, "loop")
  /\ GoesTo(w, "tick", FALSE)
  /\ UNCHANGED <<environment, reconciler, caches, backoff, cancelled, debounce, snapshot, mcp>>

TickStale(w) ==
  /\ At(w, "tick") /\ activeConfigs # w
  /\ sync' = [sync EXCEPT ![w] = NoSync]
  /\ UNCHANGED <<environment, reconciler, caches, backoff, cancelled, debounce, snapshot, mcp>>

\* While status writes back off the loop continues without a resync.
TickInBackoff(w) ==
  /\ At(w, "tick") /\ activeConfigs = w /\ backoff
  /\ GoesTo(w, "loop", FALSE)
  /\ UNCHANGED <<environment, reconciler, caches, backoff, cancelled, debounce, snapshot, mcp>>

TickResync(w) ==
  /\ At(w, "tick") /\ activeConfigs = w /\ ~backoff
  /\ GoesTo(w, "list", FALSE)
  /\ UNCHANGED <<environment, reconciler, caches, backoff, cancelled, debounce, snapshot, mcp>>
-----------------------------------------------------------------------------
Environment ==
  \/ \E r \in Resources, c \in Contents \cup {Gone} : Change(r, c)
  \/ \E s \in Specs \cup {NoSpec} : Edit(s)
  \/ Exit

ReconcileActs ==
  \/ ReconcileDeleted \/ ReconcileChanged \/ ReconcileNew
  \/ StartFails \/ StartFailsUnreported \/ \E w \in Watchers : StartWatcher(w)

Informers       == \E r \in Resources, queued \in BOOLEAN : Notice(r, queued)
Flushes(w)      == \E B \in SUBSET pending[w] : Flush(w, B)
FinalFlushes(w) == \E B \in SUBSET pending[w] : FinalFlush(w, B)
FlushEnds(w)    == FlushOk(w) \/ \E S \in SUBSET batch[w] : FlushFails(w, S)
ResyncGoesOn(w) ==
  \/ CachesSynced(w) \/ SyncCancelled(w) \/ ListResources(w) \/ NothingToResync(w)
  \/ ResyncOk(w) \/ \E S \in SUBSET Resources : ResyncFails(w, S)
  \/ Tick(w) \/ TickStale(w) \/ TickInBackoff(w) \/ TickResync(w)

\* The debounce loop of a watcher.
LoopGoesOn(w) ==
  \/ \E c \in pending[w] : Record(w, c)
  \/ Flushes(w) \/ FinalFlushes(w) \/ FlushEnds(w)
  \/ \E S \in SUBSET batch[w] : FlushRetries(w, S)

Watcher(w) ==
  LoopGoesOn(w) \/ ResyncGoesOn(w) \/ \E S \in SUBSET Resources : ResyncRetries(w, S)

Next ==
  \/ Environment \/ ReconcileActs \/ ReconcileUnchanged \/ Informers \/ BackoffExpires
  \/ \E w \in Watchers : Watcher(w)

Safety == Init /\ [][Next]_vars

(* The process runs: Reconcile comes back, the goroutines go on, the ticker  *)
(* fires, every attempt and every flush ends, the informers' caches follow   *)
(* the cluster.  The cases of the debounce loop exclude each other.          *)
Fairness ==
  /\ WF_vars(ReconcileActs) /\ WF_vars(Informers) /\ WF_vars(BackoffExpires)
  /\ \A w \in Watchers :
       /\ WF_vars(Flushes(w) \/ FinalFlushes(w) \/ FlushEnds(w))
       /\ WF_vars(ResyncGoesOn(w))

Spec == Safety /\ Fairness

\* What the outside must give for a sync to succeed: MCP answers in the end, a
\* start succeeds in the end, status writes fail only finitely often.  (A write of
\* what the status says already is no step, so fairness is stated of the others.)
MCPAnswers ==
  SF_vars(\E w \in Watchers : FlushOk(w)) /\ SF_vars(\E w \in Watchers : ResyncOk(w))
StartsSucceed    == SF_vars(\E w \in Watchers : StartWatcher(w))
StatusWritesWork ==
  /\ <>[][(backoff' => backoff) /\ ~StartFailsUnreported]_vars
  /\ WF_vars(ReconcileUnchanged /\ ~backoff')
-----------------------------------------------------------------------------
(* Correctness.                                                             *)

\* At most one watcher lives, and it is the one in the map: what the map has is
\* running, what is not in the map is cancelled.  A watcher that lost its entry
\* could never be stopped, an entry without goroutines would never be replaced.
MapIsTruth ==
  \A w \in Watchers :
    /\ activeConfigs = w <=> ~cancelled[w]
    /\ activeConfigs = w => run[w] \in {"select", "flush"} /\ ~At(w, "off")

\* Only the watcher in the map begins to post a resync, although its goroutine looks
\* at the map long before: the snapshot of another is not updated any more and would
\* undo what its successor sends.
NoStaleResync ==
  [][\A w \in Watchers : activeConfigs # w /\ ~At(w, "send") => sync'[w].step # "send"]_vars

\* Every watcher's debounce loop is a DebounceLoop that shares MCP with others, also
\* when its slot is used again: so what is proved to implement that, the loop of
\* module DebounceBuffer, may stand for it.
Loop(w) == INSTANCE DebounceLoop WITH
             States    <- Contents \cup {Gone},
             waiting   <- pending[w],
             batch     <- batch[w],
             run       <- run[w],
             cancelled <- cancelled[w]
SlotsAreLoops ==
  /\ \A w \in Watchers : Loop(w)!Init
  /\ [][\A w \in Watchers : Loop(w)!NextShared \/ UNCHANGED Loop(w)!vars]_vars

\* The goroutines of a stopped watcher end, whatever MCP and the API server do.
StaleEnds == \A w \in Watchers : activeConfigs # w ~> Ended(w) \/ activeConfigs = w

\* Eventual consistency: when the cluster and the config come to rest, MCP ends
\* up with the cluster's state: after dropped changes, changes no handler reports,
\* changes during a downtime, failed flushes, late writes of a stopped watcher, and
\* flushes and resyncs that overtake each other.  (Nothing is resynced while no
\* resource exists.)
Converges ==
  MCPAnswers /\ StartsSucceed /\ StatusWritesWork =>
    <>[](config # NoSpec /\ (OthersExist \/ cluster # AllGone) => mcp = cluster)

\* The status says whether the watcher runs, once writes work again.
StatusSettles ==
  StatusWritesWork => <>[](config # NoSpec => (statusActive <=> activeConfigs # NoWatcher))
=============================================================================
