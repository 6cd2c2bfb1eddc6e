------------------------- MODULE ResourceSyncProofs -------------------------
(***************************************************************************)
(* The map of active watchers tells the truth, and a stopped watcher       *)
(* begins no resync, for all resources, specs, watchers and bounds; and the*)
(* types of all variables.                                                 *)
(***************************************************************************)
EXTENDS ResourceSync, TLAPS

Steps == {"off", "wait", "list", "send", "loop", "tick"}

\* The part of the types that the arguments below need.
Typed ==
  /\ activeConfigs \in Watchers \cup {NoWatcher}
  /\ cancelled \in [Watchers -> BOOLEAN]
  /\ run \in [Watchers -> {"off", "select", "flush", "final"}]
  /\ sync \in [Watchers -> [step : Steps, initial : BOOLEAN]]

\* A Reconcile that is about to start a watcher has none.
StartsAlone == reconcile.step = "start" => activeConfigs = NoWatcher

IInv == Typed /\ StartsAlone /\ MapIsTruth

LEMMA InvInit == Init => IInv
<1> SUFFICES ASSUME Init PROVE IInv
  OBVIOUS
<1>1. Typed
  BY DEF Init, Typed, NoSync, Steps
<1>2. StartsAlone
  BY DEF Init, StartsAlone
<1>3. MapIsTruth
  BY ConstantsOK DEF Init, MapIsTruth
<1>4. QED
  BY <1>1, <1>2, <1>3 DEF IInv
-----------------------------------------------------------------------------
(* What the steps do to the map, the contexts and the goroutines.           *)

\* The goroutines of other watchers rest; w's loop goes on, or ends if w is stopped.
LoopMoves(w) ==
  /\ UNCHANGED <<activeConfigs, cancelled, sync, reconcile>>
  /\ \E s \in {"off", "select", "flush", "final"} :
       /\ run' = [run EXCEPT ![w] = s]
       /\ s \in {"off", "final"} => cancelled[w] \/ run[w] = "final"

\* The same of the goroutine of its resyncs, which posts only in a live context.
SyncMovesTo(w, s, i) ==
  /\ UNCHANGED <<activeConfigs, cancelled, run, reconcile>>
  /\ sync' = [sync EXCEPT ![w] = [step |-> s, initial |-> i]]
  /\ s = "off" => cancelled[w] \/ activeConfigs # w
  /\ s = "send" => ~cancelled[w]
SyncMoves(w) == \E s \in Steps, i \in BOOLEAN : SyncMovesTo(w, s, i)

\* A watcher is taken out of the map and its context cancelled.
Stops ==
  /\ activeConfigs # NoWatcher /\ activeConfigs' = NoWatcher
  /\ cancelled' = [cancelled EXCEPT ![activeConfigs] = TRUE]
  /\ UNCHANGED <<run, sync>>

Starts(w) ==
  /\ reconcile.step = "start" /\ reconcile' = Idle
  /\ activeConfigs' = w
  /\ cancelled' = [cancelled EXCEPT ![w] = FALSE]
  /\ run' = [run EXCEPT ![w] = "select"]
  /\ sync' = [sync EXCEPT ![w] = [step |-> "wait", initial |-> TRUE]]

Rests ==
  /\ UNCHANGED <<activeConfigs, cancelled, run, sync>>
  /\ reconcile' = reconcile \/ reconcile' = Idle \/ activeConfigs = NoWatcher

EndsAll ==
  /\ activeConfigs' = NoWatcher
  /\ cancelled' = [w \in Watchers |-> TRUE]
  /\ run' = [w \in Watchers |-> "off"]
  /\ sync' = [w \in Watchers |-> NoSync]

LEMMA LoopSteps ==
  ASSUME Typed, NEW w \in Watchers, Flushes(w) \/ FinalFlushes(w) \/ FlushEnds(w)
  PROVE  LoopMoves(w)
<1>1. CASE Flushes(w)
  BY <1>1 DEF Flushes, Flush, LoopMoves, reconciler, resync
<1>2. CASE FinalFlushes(w)
  <2>1. PICK B \in SUBSET pending[w] : FinalFlush(w, B)
    BY <1>2 DEF FinalFlushes
  <2>2. \E s \in {"off", "final"} : run' = [run EXCEPT ![w] = s]
    BY <2>1 DEF FinalFlush
  <2>3. QED
    BY <2>1, <2>2 DEF FinalFlush, LoopMoves, reconciler, resync
<1>3. CASE FlushEnds(w)
  <2>1. AfterFlush(w) /\ UNCHANGED <<activeConfigs, cancelled, sync, reconcile>>
    BY <1>3 DEF FlushEnds, FlushOk, FlushFails, reconciler, resync
  <2>2. QED
    BY <2>1 DEF AfterFlush, LoopMoves
<1>4. QED
  BY <1>1, <1>2, <1>3

LEMMA SyncSteps ==
  ASSUME Typed, NEW w \in Watchers, ResyncGoesOn(w)
  PROVE  SyncMoves(w)
<1> USE DEF SyncMovesTo, GoesTo, reconciler, debounce
<1>1. CASE CachesSynced(w)
  <2>1. SyncMovesTo(w, "list", TRUE)
    BY <1>1 DEF CachesSynced
  <2>2. QED
    BY <2>1 DEF SyncMoves, Steps
<1>2. CASE SyncCancelled(w)
  <2>1. SyncMovesTo(w, "off", TRUE)
    BY <1>2 DEF SyncCancelled, NoSync
  <2>2. QED
    BY <2>1 DEF SyncMoves, Steps
<1>3. CASE ListResources(w)
  <2>1. SyncMovesTo(w, "send", sync[w].initial)
    BY <1>3 DEF ListResources
  <2>2. sync[w].initial \in BOOLEAN
    BY DEF Typed
  <2>3. QED
    BY <2>1, <2>2 DEF SyncMoves, Steps
<1>4. CASE \/ NothingToResync(w) \/ ResyncOk(w) \/ TickInBackoff(w)
           \/ \E S \in SUBSET Resources : ResyncFails(w, S)
  <2>1. SyncMovesTo(w, "loop", FALSE)
    BY <1>4 DEF NothingToResync, ResyncOk, ResyncFails, TickInBackoff, Report
  <2>2. QED
    BY <2>1 DEF SyncMoves, Steps
<1>5. CASE Tick(w)
  <2>1. SyncMovesTo(w, "tick", FALSE)
    BY <1>5 DEF Tick
  <2>2. QED
    BY <2>1 DEF SyncMoves, Steps
<1>6. CASE TickStale(w)
  <2>1. SyncMovesTo(w, "off", TRUE)
    BY <1>6 DEF TickStale, NoSync
  <2>2. QED
    BY <2>1 DEF SyncMoves, Steps
<1>7. CASE TickResync(w)
  <2>1. SyncMovesTo(w, "list", FALSE)
    BY <1>7 DEF TickResync
  <2>2. QED
    BY <2>1 DEF SyncMoves, Steps
<1>8. QED
  BY <1>1, <1>2, <1>3, <1>4, <1>5, <1>6, <1>7 DEF ResyncGoesOn

\* Every step is one of these.
LEMMA StepKinds ==
  ASSUME Typed, [Next]_vars
  PROVE  \/ Rests \/ Stops \/ EndsAll
         \/ \E w \in Watchers : LoopMoves(w) \/ SyncMoves(w) \/ Starts(w)
<1>1. CASE Environment
  <2>1. CASE Exit
    BY <2>1 DEF Exit, EndsAll
  <2>2. CASE \/ \E r \in Resources, c \in Contents \cup {Gone} : Change(r, c)
             \/ \E s \in Specs \cup {NoSpec} : Edit(s)
    BY <2>2 DEF Change, Edit, Rests, reconciler, debounce, resync
  <2>3. QED
    BY <1>1, <2>1, <2>2 DEF Environment
<1>2. CASE ReconcileActs
  <2>1. CASE ReconcileDeleted \/ ReconcileChanged
    BY <2>1 DEF ReconcileDeleted, ReconcileChanged, stopWatcher, Stops, debounce, resync
  <2>2. CASE ReconcileNew \/ StartFails \/ StartFailsUnreported
    BY <2>2 DEF ReconcileNew, StartFails, StartFailsUnreported, Rests, debounce, resync
  <2>3. CASE \E w \in Watchers : StartWatcher(w)
    BY <2>3 DEF StartWatcher, Starts
  <2>4. QED
    BY <1>2, <2>1, <2>2, <2>3 DEF ReconcileActs
<1>3. CASE ReconcileUnchanged \/ Informers \/ BackoffExpires
  BY <1>3 DEF ReconcileUnchanged, Informers, Notice, BackoffExpires, Rests, reconciler,
              debounce, resync
<1>4. CASE \E w \in Watchers : Watcher(w)
  <2>1. PICK w \in Watchers : Watcher(w)
    BY <1>4
  <2>2. CASE Flushes(w) \/ FinalFlushes(w) \/ FlushEnds(w)
    BY <2>2, LoopSteps
  <2>3. CASE ResyncGoesOn(w)
    BY <2>3, SyncSteps
  <2>4. CASE \/ \E c \in pending[w] : Record(w, c)
             \/ \E S \in SUBSET batch[w] : FlushRetries(w, S)
             \/ \E S \in SUBSET Resources : ResyncRetries(w, S)
    BY <2>4 DEF Record, FlushRetries, ResyncRetries, Rests, reconciler, debounce, resync
  <2>5. QED
    BY <2>1, <2>2, <2>3, <2>4 DEF Watcher, LoopGoesOn
<1>5. CASE UNCHANGED vars
  BY <1>5 DEF vars, Rests, reconciler, debounce, resync
<1>6. QED
  BY <1>1, <1>2, <1>3, <1>4, <1>5 DEF Next
-----------------------------------------------------------------------------
LEMMA InvNext == IInv /\ [Next]_vars => IInv'
<1> SUFFICES ASSUME IInv, [Next]_vars PROVE Typed' /\ StartsAlone' /\ MapIsTruth'
  BY DEF IInv
<1> USE DEF IInv
<1>1. CASE Rests
  <2>1. Typed' /\ MapIsTruth'
    BY <1>1 DEF Rests, Typed, MapIsTruth, At
  <2>2. StartsAlone'
    BY <1>1 DEF Rests, StartsAlone, Idle
  <2>3. QED
    BY <2>1, <2>2
<1>2. CASE Stops
  <2>1. Typed' /\ StartsAlone'
    BY <1>2 DEF Stops, Typed, StartsAlone
  <2>2. MapIsTruth'
    BY <1>2, ConstantsOK DEF Stops, Typed, MapIsTruth
  <2>3. QED
    BY <2>1, <2>2
<1>3. CASE EndsAll
  <2>1. Typed' /\ StartsAlone'
    BY <1>3 DEF EndsAll, Typed, StartsAlone, NoSync, Steps
  <2>2. MapIsTruth'
    BY <1>3, ConstantsOK DEF EndsAll, MapIsTruth
  <2>3. QED
    BY <2>1, <2>2
<1>4. ASSUME NEW w \in Watchers, LoopMoves(w)
      PROVE  Typed' /\ StartsAlone' /\ MapIsTruth'
  <2>1. Typed' /\ StartsAlone'
    BY <1>4 DEF LoopMoves, Typed, StartsAlone
  <2>2. MapIsTruth'
    BY <1>4 DEF LoopMoves, Typed, MapIsTruth, At
  <2>3. QED
    BY <2>1, <2>2
<1>5. ASSUME NEW w \in Watchers, SyncMoves(w)
      PROVE  Typed' /\ StartsAlone' /\ MapIsTruth'
  <2>1. Typed' /\ StartsAlone'
    BY <1>5 DEF SyncMoves, SyncMovesTo, Typed, StartsAlone
  <2>2. MapIsTruth'
    BY <1>5 DEF SyncMoves, SyncMovesTo, Typed, MapIsTruth, At
  <2>3. QED
    BY <2>1, <2>2
<1>6. ASSUME NEW w \in Watchers, Starts(w)
      PROVE  Typed' /\ StartsAlone' /\ MapIsTruth'
  <2>1. Typed' /\ StartsAlone'
    BY <1>6 DEF Starts, Typed, StartsAlone, Idle, Steps
  <2>2. \A x \in Watchers : cancelled[x]
    BY <1>6, ConstantsOK DEF Starts, StartsAlone, MapIsTruth
  <2>3. MapIsTruth'
    BY <1>6, <2>2 DEF Starts, Typed, MapIsTruth, At
  <2>4. QED
    BY <2>1, <2>3
<1>7. QED
  BY <1>1, <1>2, <1>3, <1>4, <1>5, <1>6, StepKinds

LEMMA Invariance == Safety => []IInv
BY InvInit, InvNext, PTL DEF Safety

\* At any time at most one watcher has a live context, it is the one in the map,
\* and its goroutines run: none is started beside another, lost or left dead.
THEOREM MapTellsTheTruth == Safety => []MapIsTruth
<1>1. IInv => MapIsTruth
  BY DEF IInv
<1>2. QED
  BY <1>1, Invariance, PTL

\* Whatever step comes between the check of the map, the listing and the request, a
\* watcher that is not in the map begins no resync: by MapIsTruth its context is done.
THEOREM StoppedWatchersPostNothingNew == Safety => NoStaleResync
<1> DEFINE A == \A w \in Watchers : activeConfigs # w /\ ~At(w, "send") => sync'[w].step # "send"
<1>1. IInv /\ [Next]_vars => A
  <2> SUFFICES ASSUME IInv, [Next]_vars, NEW w \in Watchers, activeConfigs # w, ~At(w, "send")
               PROVE  sync'[w].step # "send"
    OBVIOUS
  <2>0. cancelled[w]
    BY DEF IInv, Typed, MapIsTruth
  <2>1. CASE Rests \/ Stops \/ \E x \in Watchers : LoopMoves(x)
    BY <2>1 DEF Rests, Stops, LoopMoves, At
  <2>2. CASE EndsAll
    BY <2>2 DEF EndsAll, NoSync
  <2>3. ASSUME NEW x \in Watchers, SyncMoves(x) \/ Starts(x)
        PROVE  sync'[w].step # "send"
    BY <2>0, <2>3 DEF SyncMoves, SyncMovesTo, Starts, IInv, Typed, At
  <2>4. QED
    BY <2>1, <2>2, <2>3, StepKinds DEF IInv
<1>2. Safety => [][A]_vars
  BY <1>1, Invariance, PTL DEF Safety
<1>3. QED
  BY <1>2 DEF NoStaleResync
-----------------------------------------------------------------------------
(* The types of the rest: what is outside, what waits, what is posted.      *)

Content == Contents \cup {Gone}

LEMMA AppliedType ==
  ASSUME mcp \in State, NEW B \in SUBSET ResourceChange PROVE Applied(B) \in State
<1>1. ASSUME NEW r \in Resources, \E c \in B : c.ID = r
      PROVE  (CHOOSE c \in B : c.ID = r).state \in Content
  BY <1>1 DEF ResourceChange, Content
<1>2. QED
  BY <1>1 DEF Applied, State, Content

LEMMA ApplyType ==
  ASSUME mcp \in State, NEW m \in State, NEW S \in SUBSET Resources
  PROVE  Apply(m, S) \in State
BY DEF Apply, State

OutsideTyped ==
  /\ cluster \in State /\ config \in Specs \cup {NoSpec} /\ events \in 0..MaxEvents
ReconcilerTyped ==
  /\ spec \in Specs \cup {NoSpec}
  /\ reconcile \in [step : {"idle", "start"}, seen : Specs \cup {NoSpec}]
  /\ statusActive \in BOOLEAN /\ backoff \in BOOLEAN
PostsTyped ==
  /\ mcp \in State /\ store \in State /\ listed \in SUBSET Resources
  /\ snapshot \in [Watchers -> State]
BuffersTyped ==
  /\ pending \in [Watchers -> SUBSET ResourceChange]
  /\ batch \in [Watchers -> SUBSET ResourceChange]
  /\ \A w \in Watchers : run[w] \in {"off", "select"} <=> batch[w] = {}

TInv == OutsideTyped /\ ReconcilerTyped /\ PostsTyped /\ BuffersTyped

\* The steps of a debounce loop leave the reconciler and the resyncs alone.
LEMMA LoopRests ==
  ASSUME NEW w \in Watchers, LoopGoesOn(w)
  PROVE  UNCHANGED <<environment, reconciler, caches, backoff, cancelled, resync>>
BY DEF LoopGoesOn, Record, Flushes, Flush, FinalFlushes, FinalFlush, FlushEnds, FlushOk,
       FlushFails, FlushRetries

\* The steps of a resync leave the debounce loops alone.
LEMMA ResyncRests ==
  ASSUME NEW w \in Watchers,
         ResyncGoesOn(w) \/ \E S \in SUBSET Resources : ResyncRetries(w, S)
  PROVE  UNCHANGED <<environment, reconciler, caches, cancelled, debounce>>
BY DEF ResyncGoesOn, CachesSynced, SyncCancelled, ListResources, NothingToResync, ResyncOk,
       ResyncFails, Tick, TickStale, TickInBackoff, TickResync, ResyncRetries

\* Those of Reconcile and the expiry of a backoff change at most where the loops are.
LEMMA ReconcileRests ==
  ASSUME ReconcileActs \/ ReconcileUnchanged \/ BackoffExpires
  PROVE  UNCHANGED <<environment, pending, batch, snapshot, mcp>>
BY DEF ReconcileActs, ReconcileDeleted, ReconcileChanged, ReconcileNew, StartFails,
       StartFailsUnreported, StartWatcher, ReconcileUnchanged, BackoffExpires, debounce, resync

LEMMA TypesInit == Init => TInv
<1> SUFFICES ASSUME Init PROVE TInv
  OBVIOUS
<1>1. OutsideTyped
  BY ConstantsOK DEF Init, OutsideTyped
<1>2. ReconcilerTyped
  BY DEF Init, ReconcilerTyped, Idle
<1>3. PostsTyped
  BY DEF Init, PostsTyped, AllGone, State
<1>4. BuffersTyped
  BY DEF Init, BuffersTyped
<1>5. QED
  BY <1>1, <1>2, <1>3, <1>4 DEF TInv

LEMMA OutsideNext == OutsideTyped /\ [Next]_vars => OutsideTyped'
<1> SUFFICES ASSUME OutsideTyped, [Next]_vars PROVE OutsideTyped'
  OBVIOUS
<1> USE DEF OutsideTyped
<1>1. CASE UNCHANGED environment
  BY <1>1 DEF environment
<1>2. CASE Environment
  <2>1. Event \/ UNCHANGED events => events' \in 0..MaxEvents
    BY ConstantsOK DEF Event
  <2>2. CASE Exit
    BY <2>1, <2>2 DEF Exit
  <2>3. CASE \E s \in Specs \cup {NoSpec} : Edit(s)
    BY <2>1, <2>3 DEF Edit
  <2>4. CASE \E r \in Resources, c \in Contents \cup {Gone} : Change(r, c)
    BY <2>1, <2>4 DEF Change, State
  <2>5. QED
    BY <1>2, <2>2, <2>3, <2>4 DEF Environment
<1>3. CASE ReconcileActs \/ ReconcileUnchanged \/ BackoffExpires
  BY <1>1, <1>3, ReconcileRests
<1>4. CASE Informers
  BY <1>1, <1>4 DEF Informers, Notice
<1>5. ASSUME NEW w \in Watchers, Watcher(w) PROVE OutsideTyped'
  BY <1>1, <1>5, LoopRests, ResyncRests DEF Watcher
<1>6. CASE UNCHANGED vars
  BY <1>1, <1>6 DEF vars
<1>7. QED
  BY <1>2, <1>3, <1>4, <1>5, <1>6 DEF Next

LEMMA ReconcilerNext ==
  OutsideTyped /\ ReconcilerTyped /\ [Next]_vars => ReconcilerTyped'
<1> SUFFICES ASSUME OutsideTyped, ReconcilerTyped, [Next]_vars PROVE ReconcilerTyped'
  OBVIOUS
<1> USE DEF OutsideTyped, ReconcilerTyped
<1> DEFINE R == [step : {"idle", "start"}, seen : Specs \cup {NoSpec}]
<1>0. Idle \in R /\ \A s \in Specs : [step |-> "start", seen |-> s] \in R
  BY DEF Idle
<1>1. CASE Environment
  <2>1. CASE Exit
    BY <1>0, <2>1 DEF Exit
  <2>2. ASSUME NEW s \in Specs \cup {NoSpec}, Edit(s) PROVE ReconcilerTyped'
    <3>1. statusActive' \in BOOLEAN
      BY <2>2 DEF Edit
    <3>2. QED
      BY <2>2, <3>1 DEF Edit
  <2>3. CASE \E r \in Resources, c \in Contents \cup {Gone} : Change(r, c)
    BY <2>3 DEF Change, reconciler
  <2>4. QED
    BY <1>1, <2>1, <2>2, <2>3 DEF Environment
<1>2. CASE ReconcileDeleted \/ ReconcileChanged \/ ReconcileNew
  <2>1. reconcile' \in R
    BY <1>0, <1>2 DEF ReconcileDeleted, ReconcileChanged, ReconcileNew
  <2>2. spec' \in Specs \cup {NoSpec} /\ statusActive' \in BOOLEAN /\ backoff' \in BOOLEAN
    BY <1>2 DEF ReconcileDeleted, ReconcileChanged, ReconcileNew, stopWatcher
  <2>3. QED
    BY <2>1, <2>2
<1>3. CASE StartFails \/ StartFailsUnreported
  BY <1>0, <1>3 DEF StartFails, StartFailsUnreported
<1>4. ASSUME NEW w \in Watchers, StartWatcher(w) PROVE ReconcilerTyped'
  <2>1. reconcile' \in R /\ spec' \in Specs \cup {NoSpec}
    BY <1>0, <1>4 DEF StartWatcher
  <2>2. statusActive' \in BOOLEAN /\ backoff' \in BOOLEAN
    BY <1>4 DEF StartWatcher, updateStatus
  <2>3. QED
    BY <2>1, <2>2
<1>5. CASE ReconcileUnchanged \/ Informers \/ BackoffExpires
  BY <1>5 DEF ReconcileUnchanged, updateStatus, Informers, Notice, BackoffExpires, reconciler
<1>6. ASSUME NEW w \in Watchers, Watcher(w) PROVE ReconcilerTyped'
  <2>1. UNCHANGED reconciler
    BY <1>6, LoopRests, ResyncRests DEF Watcher
  <2>2. CASE LoopGoesOn(w)
    BY <2>1, <2>2, LoopRests DEF reconciler
  <2>3. CASE ResyncGoesOn(w) \/ \E S \in SUBSET Resources : ResyncRetries(w, S)
    <3>1. backoff' \in BOOLEAN
      BY <2>3 DEF ResyncGoesOn, CachesSynced, SyncCancelled, ListResources, NothingToResync,
                  ResyncOk, ResyncFails, Tick, TickStale, TickInBackoff, TickResync,
                  ResyncRetries, Report
    <3>2. QED
      BY <2>1, <3>1 DEF reconciler
  <2>4. QED
    BY <1>6, <2>2, <2>3 DEF Watcher
<1>7. CASE UNCHANGED vars
  BY <1>7 DEF vars, reconciler
<1>8. QED
  BY <1>1, <1>2, <1>3, <1>4, <1>5, <1>6, <1>7 DEF Next, ReconcileActs

LEMMA PostsNext ==
  TInv /\ [Next]_vars => PostsTyped'
<1> SUFFICES ASSUME TInv, [Next]_vars PROVE PostsTyped'
  OBVIOUS
<1> USE DEF TInv
<1>0. AllGone \in State
  BY DEF AllGone, State
<1>1. CASE Environment
  BY <1>0, <1>1 DEF Environment, Change, Edit, Exit, PostsTyped, resync, caches
<1>2. CASE ReconcileActs
  BY <1>0, <1>2 DEF ReconcileActs, ReconcileDeleted, ReconcileChanged, ReconcileNew, stopWatcher,
              StartFails, StartFailsUnreported, StartWatcher, PostsTyped, resync, caches
<1>3. CASE ReconcileUnchanged \/ BackoffExpires
  BY <1>3 DEF ReconcileUnchanged, BackoffExpires, PostsTyped, resync, caches
<1>4. ASSUME NEW r \in Resources, NEW queued \in BOOLEAN, Notice(r, queued)
      PROVE  PostsTyped'
  BY <1>4 DEF Notice, PostsTyped, OutsideTyped, State, resync
<1>5. ASSUME NEW w \in Watchers, Watcher(w) PROVE PostsTyped'
  <2>1. CASE LoopGoesOn(w)
    <3>1. UNCHANGED mcp \/ \E S \in SUBSET batch[w] : mcp' = Applied(S)
      BY <2>1 DEF LoopGoesOn, Record, Flushes, Flush, FinalFlushes, FinalFlush, FlushEnds,
                  FlushOk, FlushFails, FlushRetries
    <3>2. mcp' \in State
      BY <3>1, AppliedType DEF BuffersTyped, PostsTyped, caches
    <3>3. QED
      BY <2>1, <3>2, LoopRests DEF PostsTyped, resync, caches
  <2>3. CASE \E S \in SUBSET Resources : ResyncFails(w, S) \/ ResyncRetries(w, S)
    <3>1. PICK S \in SUBSET Resources : ResyncFails(w, S) \/ ResyncRetries(w, S)
      BY <2>3
    <3>2. mcp' \in State
      BY <3>1, ApplyType DEF ResyncFails, ResyncRetries, PostsTyped, caches
    <3>3. QED
      BY <1>0, <3>1, <3>2 DEF ResyncFails, ResyncRetries, PostsTyped, resync, caches
  <2>4. CASE ResyncOk(w)
    BY <1>0, <2>4 DEF ResyncOk, PostsTyped, caches
  <2>5. CASE \/ CachesSynced(w) \/ SyncCancelled(w) \/ ListResources(w) \/ NothingToResync(w)
             \/ Tick(w) \/ TickStale(w) \/ TickInBackoff(w) \/ TickResync(w)
    BY <2>5 DEF CachesSynced, SyncCancelled, ListResources, NothingToResync, Tick, TickStale,
                TickInBackoff, TickResync, PostsTyped, caches
  <2>6. QED
    BY <1>5, <2>1, <2>3, <2>4, <2>5 DEF Watcher, ResyncGoesOn
<1>6. CASE UNCHANGED vars
  BY <1>6 DEF vars, PostsTyped, resync, caches
<1>7. QED
  BY <1>1, <1>2, <1>3, <1>4, <1>5, <1>6 DEF Next, Informers

\* What a step does to the loops: one of them goes on, is started, takes a change,
\* or all rest, or all are gone.
LEMMA LoopKinds ==
  ASSUME [Next]_vars
  PROVE  \/ UNCHANGED debounce \/ Exit
         \/ \E w \in Watchers : StartWatcher(w) \/ LoopGoesOn(w)
         \/ Informers
<1>1. CASE Environment
  BY <1>1 DEF Environment, Change, Edit
<1>2. CASE ReconcileActs
  BY <1>2 DEF ReconcileActs, ReconcileDeleted, ReconcileChanged, ReconcileNew, StartFails,
              StartFailsUnreported
<1>3. CASE ReconcileUnchanged \/ BackoffExpires
  BY <1>3 DEF ReconcileUnchanged, BackoffExpires
<1>4. ASSUME NEW w \in Watchers,
             ResyncGoesOn(w) \/ \E S \in SUBSET Resources : ResyncRetries(w, S)
      PROVE  UNCHANGED debounce
  BY <1>4, ResyncRests
<1>5. CASE UNCHANGED vars
  BY <1>5 DEF vars
<1>6. QED
  BY <1>1, <1>2, <1>3, <1>4, <1>5 DEF Next, Watcher

LEMMA BuffersNext ==
  Typed /\ TInv /\ [Next]_vars => BuffersTyped'
<1> SUFFICES ASSUME Typed, TInv, [Next]_vars PROVE BuffersTyped'
  OBVIOUS
<1> USE DEF TInv, BuffersTyped
<1>1. CASE UNCHANGED debounce
  BY <1>1 DEF debounce
<1>2. CASE Exit
  BY <1>2 DEF Exit
<1>3. ASSUME NEW w \in Watchers, StartWatcher(w) PROVE BuffersTyped'
  BY <1>3 DEF StartWatcher, Ended, Typed
<1>4. ASSUME NEW r \in Resources, NEW queued \in BOOLEAN, Notice(r, queued)
      PROVE  BuffersTyped'
  <2>1. CASE ~queued
    BY <1>4, <2>1 DEF Notice
  <2>2. CASE queued
    <3> DEFINE c == [ID |-> r, ver |-> NextVer(r), state |-> cluster[r]]
    <3>1. NextVer(r) \in 0..MaxEvents
      BY ConstantsOK DEF NextVer, OutsideTyped
    <3>2. c \in ResourceChange
      BY <3>1 DEF ResourceChange, OutsideTyped, State
    <3>3. pending' = [pending EXCEPT ![activeConfigs] = @ \cup {c}]
      BY <1>4, <2>2 DEF Notice
    <3>4. activeConfigs \in Watchers
      BY <1>4 DEF Notice, Typed
    <3> HIDE DEF c
    <3>5. QED
      BY <1>4, <3>2, <3>3, <3>4 DEF Notice
  <2>3. QED
    BY <2>1, <2>2
<1>5. ASSUME NEW w \in Watchers, LoopGoesOn(w)
      PROVE  BuffersTyped'
  <2>1. CASE Flushes(w)
    BY <2>1 DEF Flushes, Flush, Beyond, Typed
  <2>2. CASE FinalFlushes(w)
    BY <2>2 DEF FinalFlushes, FinalFlush, Typed
  <2>3. CASE FlushEnds(w)
    <3>1. /\ batch' = [batch EXCEPT ![w] = {}]
          /\ pending' = pending \/ pending' = [pending EXCEPT ![w] = @ \cup batch[w]]
      BY <2>3 DEF FlushEnds, FlushOk, FlushFails
    <3>2. run' = [run EXCEPT ![w] = "off"] \/ run' = [run EXCEPT ![w] = "select"]
      BY <2>3 DEF FlushEnds, FlushOk, FlushFails, AfterFlush
    <3>3. QED
      BY <3>1, <3>2 DEF Typed
  <2>4. CASE \E c \in pending[w] : Record(w, c)
    BY <2>4 DEF Record
  <2>5. CASE \E S \in SUBSET batch[w] : FlushRetries(w, S)
    BY <2>5 DEF FlushRetries, debounce
  <2>6. QED
    BY <1>5, <2>1, <2>2, <2>3, <2>4, <2>5 DEF LoopGoesOn
<1>6. QED
  BY <1>1, <1>2, <1>3, <1>4, <1>5, LoopKinds DEF Informers

\* Every variable keeps its type; in particular a debounce loop has a batch exactly
\* while it flushes, so neither an empty batch is posted nor one left behind.
THEOREM TypeCorrect == Safety => []TypeOK
<1>1. Typed /\ TInv => TypeOK
  BY DEF Typed, Steps, TInv, OutsideTyped, ReconcilerTyped, PostsTyped, BuffersTyped, TypeOK
<1>2. IInv /\ TInv /\ [Next]_vars => TInv'
  BY OutsideNext, ReconcilerNext, PostsNext, BuffersNext DEF IInv, TInv
<1>3. IInv => Typed
  BY DEF IInv
<1>4. QED
  BY <1>1, <1>2, <1>3, TypesInit, Invariance, PTL DEF Safety
-----------------------------------------------------------------------------
(* Every slot is a DebounceLoop.                                            *)

\* What is on its way is older than what its handler will see next, for the cluster
\* has moved since it was noticed; a slot whose loop has ended holds nothing.
VersOld ==
  \A w \in Watchers : \A c \in pending[w] \cup batch[w] :
    /\ c.ver <= events
    /\ activeConfigs = w /\ store[c.ID] # cluster[c.ID] => c.ver < events
EndedEmpty == \A w \in Watchers : run[w] \in {"off", "final"} => pending[w] = {}

SInv == VersOld /\ EndedEmpty
AInv == IInv /\ TInv /\ SInv

\* A loop's own steps add nothing to what is on its way.
LEMMA LoopAddsNothing ==
  ASSUME Typed, BuffersTyped, NEW w \in Watchers, LoopGoesOn(w)
  PROVE  /\ pending'[w] \cup batch'[w] \subseteq pending[w] \cup batch[w]
         /\ \A v \in Watchers \ {w} : pending'[v] = pending[v] /\ batch'[v] = batch[v]
                                      /\ run'[v] = run[v]
<1> USE DEF Typed, BuffersTyped
<1>1. CASE Flushes(w)
  BY <1>1 DEF Flushes, Flush, Beyond
<1>2. CASE FinalFlushes(w)
  BY <1>2 DEF FinalFlushes, FinalFlush
<1>3. CASE FlushEnds(w)
  BY <1>3 DEF FlushEnds, FlushOk, FlushFails, AfterFlush
<1>4. CASE \E c \in pending[w] : Record(w, c)
  BY <1>4 DEF Record
<1>5. CASE \E S \in SUBSET batch[w] : FlushRetries(w, S)
  BY <1>5 DEF FlushRetries, debounce
<1>6. QED
  BY <1>1, <1>2, <1>3, <1>4, <1>5 DEF LoopGoesOn

LEMMA SlotsInit == Init => SInv
BY DEF Init, SInv, VersOld, EndedEmpty

LEMMA EndedNext == IInv /\ TInv /\ EndedEmpty /\ [Next]_vars => EndedEmpty'
<1> SUFFICES ASSUME IInv, TInv, EndedEmpty, [Next]_vars PROVE EndedEmpty'
  OBVIOUS
<1> USE DEF IInv, TInv, BuffersTyped, EndedEmpty, Typed
<1>1. CASE UNCHANGED debounce
  BY <1>1 DEF debounce
<1>2. CASE Exit
  BY <1>2 DEF Exit
<1>3. ASSUME NEW w \in Watchers, StartWatcher(w) PROVE EndedEmpty'
  BY <1>3 DEF StartWatcher
<1>4. CASE Informers
  <2>1. PICK r \in Resources, q \in BOOLEAN : Notice(r, q)
    BY <1>4 DEF Informers
  <2>2. /\ activeConfigs \in Watchers /\ run[activeConfigs] \in {"select", "flush"}
        /\ \A v \in Watchers \ {activeConfigs} : pending'[v] = pending[v]
    BY <2>1 DEF Notice, MapIsTruth
  <2>3. QED
    BY <2>1, <2>2 DEF Notice
<1>5. ASSUME NEW w \in Watchers, LoopGoesOn(w) PROVE EndedEmpty'
  <2>1. run'[w] \in {"off", "final"} => pending'[w] = {}
    <3>1. CASE Flushes(w)
      BY <3>1 DEF Flushes, Flush
    <3>2. CASE FinalFlushes(w)
      BY <3>2 DEF FinalFlushes, FinalFlush
    <3>3. CASE FlushEnds(w)
      BY <3>3 DEF FlushEnds, FlushOk, FlushFails, AfterFlush
    <3>4. CASE \E c \in pending[w] : Record(w, c)
      BY <3>4 DEF Record
    <3>5. CASE \E S \in SUBSET batch[w] : FlushRetries(w, S)
      BY <3>5 DEF FlushRetries, debounce
    <3>6. QED
      BY <1>5, <3>1, <3>2, <3>3, <3>4, <3>5 DEF LoopGoesOn
  <2>2. QED
    BY <1>5, <2>1, LoopAddsNothing
<1>6. QED
  BY <1>1, <1>2, <1>3, <1>4, <1>5, LoopKinds

LEMMA VersNext == AInv /\ [Next]_vars => VersOld'
<1> SUFFICES ASSUME AInv, [Next]_vars PROVE VersOld'
  OBVIOUS
<1> USE DEF AInv, IInv, TInv, SInv
<1>0. events \in Nat /\ \A w \in Watchers : \A c \in pending[w] \cup batch[w] : c.ver \in Nat /\ c.ID \in Resources
  BY ConstantsOK DEF OutsideTyped, BuffersTyped, ResourceChange
<1>1. CASE Environment
  <2>1. CASE Exit
    BY <2>1 DEF Exit, VersOld
  <2>2. CASE \/ \E r \in Resources, c \in Contents \cup {Gone} : Change(r, c)
             \/ \E s \in Specs \cup {NoSpec} : Edit(s)
    <3>1. events' = events + 1 /\ UNCHANGED <<pending, batch>>
      BY <2>2 DEF Change, Edit, Event, debounce
    <3>2. QED
      BY <1>0, <3>1 DEF VersOld
  <2>3. QED
    BY <1>1, <2>1, <2>2 DEF Environment
<1>2. CASE \E w \in Watchers : StartWatcher(w)
  <2>1. PICK w \in Watchers : StartWatcher(w)
    BY <1>2
  <2>2. pending[w] = {} /\ batch[w] = {} /\ activeConfigs' = w
    BY <2>1 DEF StartWatcher, Ended, EndedEmpty, BuffersTyped
  <2>3. UNCHANGED <<environment, pending, batch>>
    BY <2>1 DEF StartWatcher
  <2>4. QED
    BY <2>2, <2>3 DEF VersOld, environment
<1>3. CASE ReconcileDeleted \/ ReconcileChanged
  <2>1. UNCHANGED <<environment, pending, batch>> /\ activeConfigs' = NoWatcher
    BY <1>3 DEF ReconcileDeleted, ReconcileChanged, stopWatcher, debounce
  <2>2. QED
    BY <2>1, ConstantsOK DEF VersOld, environment
<1>4. CASE ReconcileNew \/ StartFails \/ StartFailsUnreported \/ ReconcileUnchanged \/ BackoffExpires
  BY <1>4 DEF ReconcileNew, StartFails, StartFailsUnreported, ReconcileUnchanged, BackoffExpires,
              VersOld, environment, reconciler, caches, debounce
<1>5. ASSUME NEW r \in Resources, NEW queued \in BOOLEAN, Notice(r, queued)
      PROVE  VersOld'
  <2> DEFINE c == [ID |-> r, ver |-> NextVer(r), state |-> cluster[r]]
  <2>1. /\ activeConfigs \in Watchers /\ UNCHANGED <<environment, activeConfigs, batch>>
        /\ store' = [store EXCEPT ![r] = cluster[r]]
    BY <1>5 DEF Notice, reconciler, Typed
  <2>2. c.ver <= events /\ c.ID = r
    BY <1>0 DEF NextVer
  <2>3. pending' = pending \/ pending' = [pending EXCEPT ![activeConfigs] = @ \cup {c}]
    BY <1>5 DEF Notice
  <2> HIDE DEF c
  <2>4. store'[r] = cluster[r] /\ \A x \in Resources \ {r} : store'[x] = store[x]
    BY <2>1 DEF PostsTyped, State
  <2>5. ASSUME NEW w \in Watchers, NEW d \in pending'[w] \cup batch'[w]
        PROVE  d = c \/ d \in pending[w] \cup batch[w]
    BY <2>1, <2>3 DEF BuffersTyped
  <2>6. ASSUME NEW w \in Watchers, NEW d \in pending'[w] \cup batch'[w]
        PROVE  /\ d.ver <= events'
               /\ activeConfigs' = w /\ store'[d.ID] # cluster'[d.ID] => d.ver < events'
    <3>1. CASE d = c
      BY <2>1, <2>2, <2>4, <3>1 DEF environment
    <3>2. CASE d \in pending[w] \cup batch[w]
      BY <1>0, <2>1, <2>4, <3>2 DEF environment, VersOld
    <3>3. QED
      BY <2>5, <3>1, <3>2
  <2>7. QED
    BY <2>6 DEF VersOld
<1>6. ASSUME NEW w \in Watchers, LoopGoesOn(w) PROVE VersOld'
  BY <1>6, LoopAddsNothing, LoopRests DEF VersOld, environment, reconciler, caches
<1>7. ASSUME NEW w \in Watchers,
             ResyncGoesOn(w) \/ \E S \in SUBSET Resources : ResyncRetries(w, S)
      PROVE  VersOld'
  BY <1>7, ResyncRests DEF VersOld, environment, reconciler, caches, debounce
<1>8. CASE UNCHANGED vars
  BY <1>8 DEF vars, VersOld, environment, reconciler, caches, debounce
<1>9. QED
  BY <1>1, <1>2, <1>3, <1>4, <1>5, <1>6, <1>7, <1>8 DEF Next, ReconcileActs, Informers, Watcher

LEMMA AllInvariance == Safety => []AInv
<1>1. Init => SInv /\ TInv
  BY SlotsInit, TypesInit
<1>2. AInv /\ [Next]_vars => TInv' /\ SInv'
  BY OutsideNext, ReconcilerNext, PostsNext, BuffersNext, EndedNext, VersNext
     DEF AInv, IInv, TInv, SInv
<1>3. IInv /\ TInv /\ SInv <=> AInv
  BY DEF AInv
<1>4. QED
  BY <1>1, <1>2, <1>3, Invariance, PTL DEF Safety
-----------------------------------------------------------------------------
\* A step that leaves w's slot alone is one of the others on MCP, if it is one at all.
LEMMA OthersStep ==
  ASSUME PostsTyped', NEW w \in Watchers,
         pending'[w] = pending[w], batch'[w] = batch[w], run'[w] = run[w],
         cancelled'[w] = cancelled[w]
  PROVE  Loop(w)!NextShared
BY DEF Loop!NextShared, Loop!OthersPost, PostsTyped, State

\* A set of changes is applied alike in both modules.
LEMMA AppliedAlike ==
  ASSUME NEW w \in Watchers, NEW B PROVE Loop(w)!Applied(B) = Applied(B)
BY DEF Applied, Loop!Applied

LEMMA LoopGoesOnAsLoop ==
  ASSUME Typed, BuffersTyped, NEW w \in Watchers, LoopGoesOn(w)
  PROVE  Loop(w)!Loop
<1> USE DEF Typed, BuffersTyped
<1>0. cancelled'[w] = cancelled[w]
  BY LoopRests
<1>1. CASE Flushes(w)
  <2>1. PICK B \in SUBSET pending[w] : Flush(w, B)
    BY <1>1 DEF Flushes
  <2>2. Loop(w)!Flush(B)
    BY <1>0, <2>1 DEF Flush, Loop!Flush, IsMap, Loop!IsMap, Beyond, Loop!Beyond
  <2>3. QED
    BY <2>2 DEF Loop!Loop
<1>2. CASE FinalFlushes(w)
  <2>1. PICK B \in SUBSET pending[w] : FinalFlush(w, B)
    BY <1>2 DEF FinalFlushes
  <2>2. Loop(w)!FinalFlush(B)
    BY <1>0, <2>1 DEF FinalFlush, Loop!FinalFlush, IsMap, Loop!IsMap
  <2>3. QED
    BY <2>2 DEF Loop!Loop
<1>3. CASE FlushOk(w)
  <2>1. Loop(w)!FlushOk
    BY <1>0, <1>3, AppliedAlike DEF FlushOk, Loop!FlushOk, AfterFlush, Loop!AfterFlush
  <2>2. QED
    BY <2>1 DEF Loop!Loop
<1>4. ASSUME NEW S \in SUBSET batch[w], FlushFails(w, S) PROVE Loop(w)!Loop
  <2>1. Loop(w)!FlushFails(S)
    BY <1>0, <1>4, AppliedAlike DEF FlushFails, Loop!FlushFails, AfterFlush, Loop!AfterFlush
  <2>2. QED
    BY <2>1 DEF Loop!Loop
<1>5. ASSUME NEW S \in SUBSET batch[w], FlushRetries(w, S) PROVE Loop(w)!Loop
  <2>1. Loop(w)!FlushRetries(S)
    BY <1>0, <1>5, AppliedAlike DEF FlushRetries, Loop!FlushRetries, debounce
  <2>2. QED
    BY <2>1 DEF Loop!Loop
<1>6. ASSUME NEW c \in pending[w], Record(w, c) PROVE Loop(w)!Loop
  <2>1. Loop(w)!Record(c)
    BY <1>0, <1>6 DEF Record, Loop!Record
  <2>2. QED
    BY <2>1 DEF Loop!Loop
<1>7. QED
  BY <1>1, <1>2, <1>3, <1>4, <1>5, <1>6 DEF LoopGoesOn, FlushEnds

LEMMA SlotStep ==
  ASSUME AInv, PostsTyped', [Next]_vars, NEW w \in Watchers
  PROVE  Loop(w)!NextShared
<1> USE DEF AInv, IInv, TInv, SInv
<1>1. CASE Exit
  <2>1. Loop(w)!Exit
    BY <1>1 DEF Exit, Loop!Exit
  <2>2. QED
    BY <2>1 DEF Loop!NextShared, Loop!Next
<1>2. CASE \/ \E r \in Resources, c \in Contents \cup {Gone} : Change(r, c)
           \/ \E s \in Specs \cup {NoSpec} : Edit(s)
           \/ ReconcileNew \/ StartFails \/ StartFailsUnreported
           \/ ReconcileUnchanged \/ BackoffExpires
  <2>1. UNCHANGED <<debounce, cancelled>>
    BY <1>2 DEF Change, Edit, ReconcileNew, StartFails, StartFailsUnreported,
                ReconcileUnchanged, BackoffExpires
  <2>2. QED
    BY <2>1, OthersStep DEF debounce
<1>3. CASE ReconcileDeleted \/ ReconcileChanged
  <2>1. /\ UNCHANGED <<debounce, mcp>> /\ activeConfigs # NoWatcher
        /\ cancelled' = [cancelled EXCEPT ![activeConfigs] = TRUE]
    BY <1>3 DEF ReconcileDeleted, ReconcileChanged, stopWatcher
  <2>2. CASE activeConfigs = w
    <3>1. Loop(w)!Cancel
      BY <2>1, <2>2 DEF Loop!Cancel, MapIsTruth, Typed, debounce
    <3>2. QED
      BY <3>1 DEF Loop!NextShared, Loop!Next
  <2>3. CASE activeConfigs # w
    BY <2>1, <2>3, OthersStep DEF debounce, Typed
  <2>4. QED
    BY <2>2, <2>3
<1>4. ASSUME NEW v \in Watchers, StartWatcher(v) PROVE Loop(w)!NextShared
  <2>1. CASE v = w
    <3>1. cancelled[w]
      BY <1>4, ConstantsOK DEF StartWatcher, StartsAlone, MapIsTruth
    <3>2. Loop(w)!Start
      BY <1>4, <2>1, <3>1 DEF StartWatcher, Ended, Loop!Start, Typed
    <3>3. QED
      BY <3>2 DEF Loop!NextShared, Loop!Next
  <2>2. CASE v # w
    BY <1>4, <2>2, OthersStep DEF StartWatcher, Typed
  <2>3. QED
    BY <2>1, <2>2
<1>5. ASSUME NEW r \in Resources, NEW queued \in BOOLEAN, Notice(r, queued)
      PROVE  Loop(w)!NextShared
  <2>1. UNCHANGED <<batch, run, cancelled, mcp>> /\ activeConfigs \in Watchers
    BY <1>5 DEF Notice, Typed
  <2>2. CASE ~queued \/ activeConfigs # w
    <3>1. pending'[w] = pending[w]
      BY <1>5, <2>2 DEF Notice, BuffersTyped
    <3>2. QED
      BY <2>1, <3>1, OthersStep
  <2>3. CASE queued /\ activeConfigs = w
    <3> DEFINE c == [ID |-> r, ver |-> NextVer(r), state |-> cluster[r]]
    <3>1. pending'[w] = pending[w] \cup {c}
      BY <1>5, <2>1, <2>3 DEF Notice, BuffersTyped
    <3>2. NextVer(r) \in Nat /\ cluster[r] \in Contents \cup {Gone}
      BY ConstantsOK DEF NextVer, OutsideTyped, State
    <3>3. [ID |-> r, ver |-> NextVer(r), state |-> cluster[r]] \in Loop(w)!Change
      BY <3>2 DEF Loop!Change
    <3>4. \A d \in pending[w] \cup batch[w] : d.ID = r => d.ver < NextVer(r)
      BY <1>5, <2>3 DEF NextVer, VersOld, Notice
    <3>5. run[w] \in {"select", "flush"}
      BY <2>3 DEF MapIsTruth
    <3>6. c \in Loop(w)!Change /\ c.ID = r /\ c.ver = NextVer(r)
      BY <3>3
    <3> HIDE DEF c
    <3>7. Loop(w)!Queue(c)
      BY <2>1, <3>1, <3>4, <3>5, <3>6 DEF Loop!Queue
    <3>8. QED
      BY <3>1, <3>7 DEF Loop!NextShared, Loop!Next
  <2>4. QED
    BY <2>2, <2>3
<1>6. ASSUME NEW v \in Watchers, LoopGoesOn(v) PROVE Loop(w)!NextShared
  <2>1. CASE v = w
    BY <1>6, <2>1, LoopGoesOnAsLoop DEF Loop!NextShared, Loop!Next
  <2>2. CASE v # w
    BY <1>6, <2>2, LoopAddsNothing, LoopRests, OthersStep
  <2>3. QED
    BY <2>1, <2>2
<1>7. ASSUME NEW v \in Watchers,
             ResyncGoesOn(v) \/ \E S \in SUBSET Resources : ResyncRetries(v, S)
      PROVE  Loop(w)!NextShared
  BY <1>7, ResyncRests, OthersStep DEF debounce
<1>8. CASE UNCHANGED vars
  BY <1>8, OthersStep DEF vars, debounce
<1>9. QED
  BY <1>1, <1>2, <1>3, <1>4, <1>5, <1>6, <1>7, <1>8
     DEF Next, Environment, ReconcileActs, Informers, Watcher

\* Whatever the reconciler, the resyncs and the other watchers do, the debounce loop of
\* a watcher takes only steps of a DebounceLoop that shares MCP with others.
THEOREM EverySlotIsALoop == Safety => SlotsAreLoops
<1> DEFINE A == \A w \in Watchers : Loop(w)!NextShared \/ UNCHANGED Loop(w)!vars
<1>1. Init => \A w \in Watchers : Loop(w)!Init
  BY DEF Init, Loop!Init, AllGone
<1>2. AInv /\ AInv' /\ [Next]_vars => A
  BY SlotStep DEF AInv, TInv
<1>3. Safety => [][A]_vars
  BY <1>2, AllInvariance, PTL DEF Safety
<1>4. QED
  BY <1>1, <1>3 DEF SlotsAreLoops, Safety

\* The other way round: whatever a DebounceLoop may do by itself, the loop of a slot may
\* do while everything else rests.  So ResourceSync leaves out no behaviour of the
\* watchers that DebounceBuffer describes.
THEOREM SlotsDoWhatLoopsDo ==
  ASSUME TypeOK, TypeOK', NEW w \in Watchers, Loop(w)!Loop,
         UNCHANGED <<environment, reconciler, caches, backoff, cancelled, resync>>,
         \A v \in Watchers \ {w} :
           pending'[v] = pending[v] /\ batch'[v] = batch[v] /\ run'[v] = run[v]
  PROVE  LoopGoesOn(w)
<1>1. /\ \A m : pending'[w] = m => pending' = [pending EXCEPT ![w] = m]
      /\ \A m : batch'[w] = m => batch' = [batch EXCEPT ![w] = m]
      /\ \A s : run'[w] = s => run' = [run EXCEPT ![w] = s]
  BY DEF TypeOK
<1>2. /\ pending'[w] = pending[w] => UNCHANGED pending
      /\ batch'[w] = batch[w] => UNCHANGED batch
      /\ run'[w] = run[w] => UNCHANGED run
  BY DEF TypeOK
<1>3. ASSUME NEW c \in pending[w], Loop(w)!Record(c) PROVE LoopGoesOn(w)
  <2>1. Record(w, c)
    BY <1>1, <1>2, <1>3 DEF Loop!Record, Record
  <2>2. QED
    BY <2>1 DEF LoopGoesOn
<1>4. ASSUME NEW B \in SUBSET pending[w], Loop(w)!Flush(B) PROVE LoopGoesOn(w)
  <2>1. Flush(w, B)
    BY <1>1, <1>4 DEF Loop!Flush, Flush, IsMap, Loop!IsMap, Beyond, Loop!Beyond
  <2>2. QED
    BY <2>1 DEF LoopGoesOn, Flushes
<1>5. ASSUME NEW B \in SUBSET pending[w], Loop(w)!FinalFlush(B) PROVE LoopGoesOn(w)
  <2>1. FinalFlush(w, B)
    BY <1>1, <1>5 DEF Loop!FinalFlush, FinalFlush, IsMap, Loop!IsMap
  <2>2. QED
    BY <2>1 DEF LoopGoesOn, FinalFlushes
<1>6. ASSUME Loop(w)!AfterFlush PROVE AfterFlush(w)
  BY <1>1, <1>6 DEF Loop!AfterFlush, AfterFlush
<1>7. CASE Loop(w)!FlushOk
  <2>1. FlushOk(w)
    BY <1>1, <1>2, <1>6, <1>7, AppliedAlike DEF Loop!FlushOk, FlushOk
  <2>2. QED
    BY <2>1 DEF LoopGoesOn, FlushEnds
<1>8. ASSUME NEW S \in SUBSET batch[w], Loop(w)!FlushRetries(S) PROVE LoopGoesOn(w)
  <2>1. FlushRetries(w, S)
    BY <1>2, <1>8, AppliedAlike DEF Loop!FlushRetries, FlushRetries, debounce
  <2>2. QED
    BY <2>1 DEF LoopGoesOn
<1>9. ASSUME NEW S \in SUBSET batch[w], Loop(w)!FlushFails(S) PROVE LoopGoesOn(w)
  <2>1. FlushFails(w, S)
    BY <1>1, <1>2, <1>6, <1>9, AppliedAlike DEF Loop!FlushFails, FlushFails
  <2>2. QED
    BY <2>1 DEF LoopGoesOn, FlushEnds
<1>10. QED
  BY <1>3, <1>4, <1>5, <1>7, <1>8, <1>9 DEF Loop!Loop
=============================================================================
