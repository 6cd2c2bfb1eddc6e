---------------------------- MODULE CapabilityScan ----------------------------
(***************************************************************************)
(* The CapabilityScan reconciler for one CapabilityScanConfig.  Every      *)
(* activation starts two goroutines: a debounce buffer that turns CRD      *)
(* events into scans and deletes at MCP, and a startup reconciliation that *)
(* compares the cluster with MCP once.  A removed config cancels the       *)
(* buffer but not the reconciliation, so both may run on beside those of   *)
(* the next activation, and all of them write one status.                  *)
(*                                                                         *)
(* MCP has for each resource a capability or none.  It accepts a scan and  *)
(* analyses the resource later, in the background: the capability appears  *)
(* then, even if MCP has carried out a delete in the meantime.             *)
(***************************************************************************)
EXTENDS Sequences, Naturals

CONSTANTS
  Resources,  \* resource types, all of them CRDs
  Specs,      \* the values of the config's spec that configChanged tells apart
  NoSpec,     \* the config does not exist
  Scanned,    \* per spec, what its include and exclude filters let through
  States,     \* slots for capabilityScanState, reused once their goroutines have ended
  NoState,
  BufferSize, \* capacity of a change queue
  MaxEvents   \* bound on changes of the cluster, edits of the config and exits

ASSUME ConstantsOK ==
  /\ Specs # {} /\ NoSpec \notin Specs /\ NoState \notin States
  /\ Scanned \in [Specs -> SUBSET Resources]
  /\ BufferSize \in Nat \ {0} /\ MaxEvents \in Nat

VARIABLES
  cluster,       \* per resource: absent, there, or deleting (it has a DeletionTimestamp)
  config,        \* the spec of the CapabilityScanConfig
  events,        \* number of events of the environment so far
  news,          \* per resource, the states that the CRD watch has yet to deliver
  seen,          \* per resource, the state in the informer's cache
  calls,         \* what remains to be done of the CRD event that is being handled
  activeConfigs, \* the state in the map activeConfigs
  reconcile,     \* the Reconcile under way: its next step and the spec it read
  spec,          \* per state, its copy of the config
  cancelled,     \* per state, TRUE unless the buffer's context is live
  queue,         \* per state, the change queue
  pending,       \* per state, pendingScans and pendingDeletes
  loop,          \* per state, where the buffer's loop is
  startup,       \* per state, where the startup reconciliation is
  listed,        \* per state, the cluster resources that it listed
  work,          \* per job, the requests it still has to send
  status,        \* of the config: the Ready condition, and whether lastError is set
  scanning,      \* the resources that MCP has accepted to scan and not yet analysed
  mcp            \* the resources that have a capability

VARIABLES        \* history
  gone,          \* resources not, or not wholly, there at some time of this process
  unlisted,      \* resources that a listing of this process has left out
  excused        \* resources of which MCP is wrong since a loss that Converges names

environment == <<cluster, config, events>>
informer    == <<news, seen, calls>>
reconciler  == <<activeConfigs, reconcile, spec, cancelled>>
buffer      == <<queue, pending, loop>>
diff        == <<startup, listed>>
external    == <<scanning, mcp>>
history     == <<gone, unlisted, excused>>
vars == <<environment, informer, reconciler, buffer, diff, work, status, external, history>>

Stages  == {"absent", "there", "deleting"}
Changes == [id : Resources, isDelete : BOOLEAN]
Batches == [scans : SUBSET Resources, deletes : SUBSET Resources]
Jobs    == States \X {"flush", "startup"}

Idle    == [step |-> "idle", seen |-> NoSpec]
Nothing == [scans |-> {}, deletes |-> {}]
NoWork  == [scans |-> {}, deletes |-> {}, failed |-> FALSE]
AllGone == [r \in Resources |-> "absent"]
Present == {r \in Resources : cluster[r] # "absent"}
There   == {r \in Resources : cluster[r] = "there"}

\* shouldProcessResource, for the filters of state w.
Filtered(w)   == IF spec[w] = NoSpec THEN {} ELSE Scanned[spec[w]]
Ended(w)      == loop[w] = "off" /\ startup[w] = "off"
FlushOf(w)    == <<w, "flush">>
StartupOf(w)  == <<w, "startup">>
Under(j) ==
  IF j[2] = "flush" THEN loop[j[1]] \in {"flush", "final"} ELSE startup[j[1]] = "send"
\* The startup reconciliation has a context of its own that nobody cancels.
Cut(j)        == j[2] = "flush" /\ cancelled[j[1]]

TypeOK ==
  /\ cluster \in [Resources -> Stages] /\ seen \in [Resources -> Stages]
  /\ news \in [Resources -> Seq(Stages)]
  /\ calls \in Seq(Changes) /\ Len(calls) <= 2
  /\ config \in Specs \cup {NoSpec} /\ events \in 0..MaxEvents
  /\ activeConfigs \in States \cup {NoState}
  /\ reconcile \in [step : {"idle", "start", "report"}, seen : Specs \cup {NoSpec}]
  /\ spec \in [States -> Specs \cup {NoSpec}] /\ cancelled \in [States -> BOOLEAN]
  /\ queue \in [States -> Seq(Changes)] /\ \A w \in States : Len(queue[w]) <= BufferSize
  /\ pending \in [States -> Batches]
  /\ loop \in [States -> {"off", "select", "flush", "final"}]
  /\ startup \in [States -> {"off", "list", "diff", "send"}]
  /\ listed \in [States -> SUBSET Resources]
  /\ work \in [Jobs -> [scans : SUBSET Resources, deletes : SUBSET Resources, failed : BOOLEAN]]
  /\ \A j \in Jobs : ~Under(j) => work[j] = NoWork
  /\ status \in [ready : BOOLEAN, lastError : BOOLEAN]
  /\ scanning \subseteq Resources /\ mcp \subseteq Resources /\ gone \subseteq Resources
  /\ unlisted \subseteq Resources /\ excused \subseteq Resources

\* Whoever loses a request or an event of S leaves MCP wrong where it is wrong now: what
\* makes it wrong later has an event, or an excuse, of its own.
Wrong   == (There \ mcp) \cup {r \in mcp : cluster[r] = "absent"}
Lost(S) == excused \cup (S \cap Wrong)

\* The informer's first list is still to come.
FirstNews == [r \in Resources |-> IF cluster[r] = "absent" THEN <<>> ELSE <<cluster[r]>>]
NotThere  == Resources \ There

Init ==
  /\ cluster \in [Resources -> Stages]
  /\ mcp \in SUBSET Resources /\ scanning = {}
  /\ config = (CHOOSE s \in Specs : TRUE)
  /\ events = 0
  /\ news = FirstNews /\ seen = AllGone /\ calls = <<>>
  /\ activeConfigs = NoState /\ reconcile = Idle
  /\ spec = [w \in States |-> NoSpec] /\ cancelled = [w \in States |-> TRUE]
  /\ queue = [w \in States |-> <<>>] /\ pending = [w \in States |-> Nothing]
  /\ loop = [w \in States |-> "off"]
  /\ startup = [w \in States |-> "off"] /\ listed = [w \in States |-> {}]
  /\ work = [j \in Jobs |-> NoWork]
  /\ status = [ready |-> FALSE, lastError |-> FALSE]
  /\ gone = NotThere /\ unlisted = {} /\ excused = {}
-----------------------------------------------------------------------------
(* The environment.                                                         *)

Event == events < MaxEvents /\ events' = events + 1

\* A CRD is created; updated; marked for deletion; removed by its finalizer.
Change(r, s) ==
  /\ Event
  /\ <<cluster[r], s>> \in {<<"absent", "there">>, <<"there", "there">>, <<"there", "deleting">>,
                            <<"deleting", "absent">>}
  /\ cluster' = [cluster EXCEPT ![r] = s]
  /\ news' = [news EXCEPT ![r] = Append(@, s)]
  /\ gone' = IF s = "there" THEN gone ELSE gone \cup {r}
  /\ UNCHANGED <<config, seen, calls, reconciler, buffer, diff, work, status, external,
                 unlisted, excused>>

\* The config is created, edited or deleted.  A new one has an empty status.
Edit(s) ==
  /\ Event
  /\ s # config
  /\ config' = s
  /\ status' = IF s = NoSpec THEN [ready |-> FALSE, lastError |-> FALSE] ELSE status
  /\ UNCHANGED <<cluster, informer, reconciler, buffer, diff, work, external, history>>

\* A crash or a shutdown: the contexts come from context.Background(), so nothing
\* is flushed first.
Exit ==
  /\ Event
  /\ news' = FirstNews /\ seen' = AllGone /\ calls' = <<>>
  /\ activeConfigs' = NoState /\ reconcile' = Idle
  /\ spec' = [w \in States |-> NoSpec] /\ cancelled' = [w \in States |-> TRUE]
  /\ queue' = [w \in States |-> <<>>] /\ pending' = [w \in States |-> Nothing]
  /\ loop' = [w \in States |-> "off"]
  /\ startup' = [w \in States |-> "off"] /\ listed' = [w \in States |-> {}]
  /\ work' = [j \in Jobs |-> NoWork]
  /\ gone' = NotThere /\ unlisted' = {} /\ excused' = {}
  /\ UNCHANGED <<cluster, config, status, external>>
-----------------------------------------------------------------------------
(* Status writes, each of a fresh copy: done in full, or not at all.        *)

\* A bug: a condition that exists already is not replaced.
updateStatusKeepsReady(ok) ==
  \/ config # NoSpec /\ status' = [ready |-> status.ready \/ ok, lastError |-> ~ok]
  \/ UNCHANGED status

updateStatus(ok) ==
  \/ config # NoSpec /\ status' = [ready |-> ok, lastError |-> ~ok]
  \/ UNCHANGED status

updateLastScanTime ==
  \/ config # NoSpec /\ status' = [status EXCEPT !.lastError = FALSE]
  \/ UNCHANGED status
-----------------------------------------------------------------------------
(* Reconcile.  One at a time; it comes back every minute.                   *)

removeConfig ==
  /\ activeConfigs # NoState
  /\ cancelled' = [cancelled EXCEPT ![activeConfigs] = TRUE]
  /\ activeConfigs' = NoState

ReconcileDeleted ==
  /\ reconcile = Idle /\ config = NoSpec
  /\ removeConfig
  /\ UNCHANGED <<environment, informer, reconcile, spec, buffer, diff, work, status, external,
                 history>>

\* configChanged
ReconcileChanged ==
  /\ reconcile = Idle /\ config # NoSpec
  /\ removeConfig
  /\ spec[activeConfigs] # config
  /\ reconcile' = [step |-> "start", seen |-> config]
  /\ UNCHANGED <<environment, informer, spec, buffer, diff, work, status, external, history>>

ReconcileNew ==
  /\ reconcile = Idle /\ config # NoSpec
  /\ activeConfigs = NoState
  /\ reconcile' = [step |-> "start", seen |-> config]
  /\ UNCHANGED <<environment, informer, activeConfigs, spec, cancelled, buffer, diff, work,
                 status,
                 external, history>>

\* Both goroutines start and the state is stored, in any slot that is free.
Activate(w) ==
  /\ reconcile.step = "start"
  /\ Ended(w) /\ w = CHOOSE x \in States : Ended(x)
  /\ activeConfigs' = w
  /\ spec' = [spec EXCEPT ![w] = reconcile.seen]
  /\ cancelled' = [cancelled EXCEPT ![w] = FALSE]
  /\ loop' = [loop EXCEPT ![w] = "select"]
  /\ startup' = [startup EXCEPT ![w] = "list"]
  /\ reconcile' = [reconcile EXCEPT !.step = "report"]
  /\ UNCHANGED <<environment, informer, queue, pending, listed, work, status, external,
                 history>>

ReconcileReports ==
  /\ reconcile.step = "report"
  /\ updateStatus(TRUE)
  /\ reconcile' = Idle
  /\ UNCHANGED <<environment, informer, activeConfigs, spec, cancelled, buffer, diff, work,
                 external, history>>
-----------------------------------------------------------------------------
(* CRD events.                                                              *)

Call(r, stage) == [id |-> r, isDelete |-> stage = "deleting"]

\* controller-runtime maps the object of a create or a delete event, and both
\* objects of an update.  A delete event has the last state the informer knows of.
mapCRDToRequests(r, new) ==
  CASE activeConfigs = NoState -> <<>>
    [] new = "absent"          -> <<Call(r, seen[r])>>
    [] seen[r] = "absent"      -> <<Call(r, new)>>
    [] OTHER                   -> <<Call(r, seen[r]), Call(r, new)>>

Deliver(r) ==
  /\ calls = <<>> /\ news[r] # <<>>
  /\ calls' = mapCRDToRequests(r, Head(news[r]))
  /\ seen' = [seen EXCEPT ![r] = Head(news[r])]
  /\ news' = [news EXCEPT ![r] = Tail(@)]
  /\ UNCHANGED <<environment, reconciler, buffer, diff, work, status, external, history>>

\* The watch breaks and the informer lists anew.  A removal it has missed since the
\* mark, or all of a CRD's life, it does not take for a deletion.
Relist(r) ==
  /\ calls = <<>> /\ Len(news[r]) > 1
  /\ calls' = IF {seen[r], cluster[r]} = {"absent"} THEN <<>> ELSE mapCRDToRequests(r, cluster[r])
  /\ seen' = [seen EXCEPT ![r] = cluster[r]]
  /\ news' = [news EXCEPT ![r] = <<>>]
  /\ excused' = IF cluster[r] = "absent" /\ seen[r] # "deleting" THEN Lost({r}) ELSE excused
  /\ UNCHANGED <<environment, reconciler, buffer, diff, work, status, external, gone,
                 unlisted>>

Ignored(c) == activeConfigs = NoState \/ c.id \notin Filtered(activeConfigs)

\* A bug: the change is appended to a queue that is full.
HandleCRDEventUnbounded ==
  /\ calls # <<>>
  /\ calls' = Tail(calls)
  /\ queue' = IF Ignored(Head(calls)) THEN queue
              ELSE [queue EXCEPT ![activeConfigs] = Append(@, Head(calls))]
  /\ UNCHANGED <<environment, news, seen, reconciler, pending, loop, diff, work, status,
                 external, history>>

\* HandleCRDEvent queues a change of a resource that the filters let through, or
\* drops it when the queue is full.
HandleCRDEvent ==
  /\ calls # <<>>
  /\ calls' = Tail(calls)
  /\ LET c == Head(calls)
         full == Len(queue[activeConfigs]) = BufferSize
     IN IF Ignored(c) THEN UNCHANGED <<queue, excused>>
        ELSE /\ queue' = IF full THEN queue ELSE [queue EXCEPT ![activeConfigs] = Append(@, c)]
             /\ excused' = IF full THEN Lost({c.id}) ELSE excused
  /\ UNCHANGED <<environment, news, seen, reconciler, pending, loop, diff, work, status,
                 external, gone,
                 unlisted>>
-----------------------------------------------------------------------------
(* The loop of the buffer.                                                  *)

\* A delete displaces a scan, a scan after a delete is ignored.
record(p, c) ==
  IF c.isDelete THEN [scans |-> p.scans \ {c.id}, deletes |-> p.deletes \cup {c.id}]
  ELSE IF c.id \in p.deletes THEN p ELSE [p EXCEPT !.scans = @ \cup {c.id}]

Recv(w) ==
  /\ loop[w] = "select" /\ queue[w] # <<>>
  /\ pending' = [pending EXCEPT ![w] = record(@, Head(queue[w]))]
  /\ queue' = [queue EXCEPT ![w] = Tail(@)]
  /\ UNCHANGED <<environment, informer, reconciler, loop, diff, work, status, external,
                 history>>

\* By a tick, or the final one.
Flush(w) ==
  /\ loop[w] = "select" /\ pending[w] # Nothing
  /\ \E next \in IF cancelled[w] THEN {"flush", "final"} ELSE {"flush"} :
        loop' = [loop EXCEPT ![w] = next]
  /\ work' = [work EXCEPT ![FlushOf(w)] = [scans |-> pending[w].scans,
                                           deletes |-> pending[w].deletes, failed |-> FALSE]]
  /\ pending' = [pending EXCEPT ![w] = Nothing]
  /\ UNCHANGED <<environment, informer, reconciler, queue, diff, status, external, history>>

\* What is still queued is lost with the buffer.
Return(w) ==
  /\ loop[w] = "select" /\ cancelled[w] /\ pending[w] = Nothing
  /\ loop' = [loop EXCEPT ![w] = "off"]
  /\ queue' = [queue EXCEPT ![w] = <<>>]
  /\ UNCHANGED <<environment, informer, reconciler, pending, diff, work, status, external,
                 history>>

\* All requests are done: onFlush.
EndFlush(w) ==
  LET j == FlushOf(w)
  IN /\ Under(j) /\ work[j].scans = {} /\ work[j].deletes = {}
     /\ IF work[j].failed THEN updateStatus(FALSE) ELSE updateLastScanTime
     /\ work' = [work EXCEPT ![j] = NoWork]
     /\ loop' = [loop EXCEPT ![w] = IF @ = "final" THEN "off" ELSE "select"]
     /\ queue' = [queue EXCEPT ![w] = IF loop[w] = "final" THEN <<>> ELSE @]
     /\ UNCHANGED <<environment, informer, reconciler, pending, diff, external, history>>
-----------------------------------------------------------------------------
(* The startup reconciliation.                                              *)

\* Discovery lists all resources or, when API groups fail, only S of them.
ListCluster(w, S) ==
  /\ startup[w] = "list"
  /\ S \subseteq Present
  /\ LET missing == (Present \ S) \cap Filtered(w)
     IN /\ unlisted' = unlisted \cup missing
        /\ excused' = IF activeConfigs = w THEN missing \cap Wrong ELSE excused
  /\ listed' = [listed EXCEPT ![w] = S \cap Filtered(w)]
  /\ startup' = [startup EXCEPT ![w] = "diff"]
  /\ UNCHANGED <<environment, informer, reconciler, buffer, work, status, external, gone>>

\* The cluster or MCP cannot be listed: the reconciliation ends and is not repeated.
ListFails(w) ==
  /\ startup[w] \in {"list", "diff"}
  /\ updateStatus(FALSE)
  /\ startup' = [startup EXCEPT ![w] = "off"]
  /\ listed' = [listed EXCEPT ![w] = {}]
  /\ excused' = IF activeConfigs = w THEN Lost(Resources) ELSE excused
  /\ UNCHANGED <<environment, informer, reconciler, buffer, work, external, gone, unlisted>>

\* A bug: orphaned capabilities are left alone.
ScansOnly(C, M) == [scans |-> C \ M, deletes |-> {}, failed |-> FALSE]

\* A bug: the differences are swapped.
SwappedDiff(C, M) == [scans |-> M \ C, deletes |-> C \ M, failed |-> FALSE]

computeCapabilityDiff(C, M) == [scans |-> C \ M, deletes |-> M \ C, failed |-> FALSE]

ListMCP(w) ==
  /\ startup[w] = "diff"
  /\ work' = [work EXCEPT ![StartupOf(w)] = computeCapabilityDiff(listed[w], mcp)]
  /\ startup' = [startup EXCEPT ![w] = "send"]
  /\ listed' = [listed EXCEPT ![w] = {}]
  /\ UNCHANGED <<environment, informer, reconciler, buffer, status, external, history>>

EndStartup(w) ==
  LET j == StartupOf(w)
  IN /\ Under(j) /\ work[j].scans = {} /\ work[j].deletes = {}
     /\ updateLastScanTime
     /\ work' = [work EXCEPT ![j] = NoWork]
     /\ startup' = [startup EXCEPT ![w] = "off"]
     /\ UNCHANGED <<environment, informer, reconciler, buffer, listed, external, history>>
-----------------------------------------------------------------------------
(* The requests of a flush and of a startup reconciliation: one scan of all *)
(* resources, then the deletes one by one.                                  *)

ScanDone(j)      == [work EXCEPT ![j].scans = {}]
DeleteDone(j, r) == [work EXCEPT ![j].deletes = @ \ {r}]
AsFailed(j, wk)  == [wk EXCEPT ![j].failed = TRUE]

\* A request that failed for good matters unless another activation comes after it.
Excuses(j, S) == IF activeConfigs = j[1] THEN Lost(S) ELSE excused

ScanOk(j) ==
  /\ Under(j) /\ work[j].scans # {} /\ ~Cut(j)
  /\ scanning' = scanning \cup work[j].scans
  /\ work' = ScanDone(j)
  /\ UNCHANGED <<environment, informer, reconciler, buffer, diff, status, mcp, history>>

\* The last attempt fails, or the context ended.  MCP may have accepted S.  The
\* startup reconciliation reports the error at once.
ScanFails(j, S) ==
  /\ Under(j) /\ work[j].scans # {}
  /\ S \subseteq (IF Cut(j) THEN {} ELSE work[j].scans)
  /\ scanning' = scanning \cup S
  /\ IF j[2] = "startup" THEN updateStatus(FALSE) ELSE UNCHANGED status
  /\ work' = AsFailed(j, ScanDone(j))
  /\ excused' = Excuses(j, work[j].scans)
  /\ UNCHANGED <<environment, informer, reconciler, buffer, diff, mcp, gone, unlisted>>

\* An attempt fails that is not the last.
ScanRetries(j, S) ==
  /\ Under(j) /\ work[j].scans # {} /\ ~Cut(j)
  /\ S \subseteq work[j].scans
  /\ scanning' = scanning \cup S
  /\ UNCHANGED <<environment, informer, reconciler, buffer, diff, work, status, mcp, history>>

\* A delete that comes late takes the capability of a resource that is there; any
\* other puts right what was wrong.
Late(r) == IF r \in There THEN excused \cup {r} ELSE excused \ {r}

DeleteOk(j, r) ==
  /\ Under(j) /\ work[j].scans = {} /\ r \in work[j].deletes /\ ~Cut(j)
  /\ mcp' = mcp \ {r}
  /\ work' = DeleteDone(j, r)
  /\ excused' = Late(r)
  /\ UNCHANGED <<environment, informer, reconciler, buffer, diff, status, scanning, gone,
                 unlisted>>

DeleteFails(j, r) ==
  /\ Under(j) /\ work[j].scans = {} /\ r \in work[j].deletes
  /\ work' = AsFailed(j, DeleteDone(j, r))
  /\ excused' = Excuses(j, {r})
  /\ UNCHANGED <<environment, informer, reconciler, buffer, diff, status, external, gone,
                 unlisted>>

\* An attempt that is not answered, though MCP has carried it out; others have no
\* effect.
DeleteRetries(j, r) ==
  /\ Under(j) /\ work[j].scans = {} /\ r \in work[j].deletes /\ ~Cut(j)
  /\ mcp' = mcp \ {r}
  /\ excused' = Late(r)
  /\ UNCHANGED <<environment, informer, reconciler, buffer, diff, work, status, scanning, gone,
                 unlisted>>
-----------------------------------------------------------------------------
(* MCP's analyses, in its own time: nobody learns how one ends.             *)

\* The capability appears, of what the analysis has read: the resource may be gone.
Analyse(r) ==
  /\ r \in scanning
  /\ scanning' = scanning \ {r}
  /\ mcp' = mcp \cup {r}
  /\ excused' = IF r \in There THEN excused \ {r} ELSE excused \cup {r}
  /\ UNCHANGED <<environment, informer, reconciler, buffer, diff, work, status, gone,
                 unlisted>>

AnalysisFails(r) ==
  /\ r \in scanning
  /\ scanning' = scanning \ {r}
  /\ excused' = Lost({r})
  /\ UNCHANGED <<environment, informer, reconciler, buffer, diff, work, status, mcp, gone,
                 unlisted>>
-----------------------------------------------------------------------------
Environment ==
  \/ \E r \in Resources, s \in Stages : Change(r, s)
  \/ \E s \in Specs \cup {NoSpec} : Edit(s)
  \/ Exit

Reconcile ==
  ReconcileDeleted \/ ReconcileChanged \/ ReconcileNew \/ ReconcileReports
  \/ \E w \in States : Activate(w)

Answer(j) ==
  \/ ScanOk(j) \/ \E S \in SUBSET Resources : ScanFails(j, S)
  \/ \E r \in Resources : DeleteOk(j, r) \/ DeleteFails(j, r)

Retry(j) ==
  \/ \E S \in SUBSET Resources : ScanRetries(j, S)
  \/ \E r \in Resources : DeleteRetries(j, r)

\* The two goroutines of a state.
Buffer(w) == Recv(w) \/ Flush(w) \/ Return(w) \/ EndFlush(w) \/ Answer(FlushOf(w))

Startup(w) ==
  \/ (\E S \in SUBSET Resources : ListCluster(w, S)) \/ ListFails(w) \/ ListMCP(w)
  \/ EndStartup(w) \/ Answer(StartupOf(w))

System ==
  \/ Reconcile \/ HandleCRDEvent
  \/ \E r \in Resources : Deliver(r)
  \/ \E w \in States : Buffer(w) \/ Startup(w)

Next ==
  \/ Environment \/ System
  \/ \E r \in Resources : Relist(r) \/ Analyse(r) \/ AnalysisFails(r)
  \/ \E j \in Jobs : Retry(j)

Safety == Init /\ [][Next]_vars

\* The process runs: as long as anything but a retry can be done, something is done
\* in the end.  (Retries are bounded, and the rest of the work is finite, so nothing
\* has to be said of single goroutines.)
Spec == Safety /\ WF_vars(System)
-----------------------------------------------------------------------------
(* Correctness.                                                             *)

\* No batch has both a scan and a delete of a resource.
NeverBoth ==
  /\ \A w \in States : pending[w].scans \cap pending[w].deletes = {}
  /\ \A j \in Jobs : work[j].scans \cap work[j].deletes = {}

\* What is chosen for deletion was gone: deleted or missing at some time while this
\* process ran.
DeletesOfGone ==
  \A w \in States :
    /\ pending[w].deletes \cup work[FlushOf(w)].deletes \subseteq gone
    /\ work[StartupOf(w)].deletes \cap Filtered(w) \subseteq gone \cup unlisted

\* A capability is never deleted, or chosen for deletion, unless its resource was
\* deleted or missing at some time while this process ran.  For the startup diff also
\* a resource that the filters exclude, or that discovery left out of a partial list.
\* And no flush or startup reconciliation both scans and deletes a resource: the
\* requests go out in this order, and the delete would win whatever happened last.
DeletesJustified == DeletesOfGone /\ NeverBoth

\* The goroutines of two activations and Reconcile write the status, by two functions
\* of which one sets only lastError: a config that is Ready shows no error.
ReadyIsClean == status.ready => ~status.lastError

\* What MCP should have for r, for a resource that the filters let through.
Agrees(r) ==
  \/ config = NoSpec \/ r \notin Scanned[config] \/ cluster[r] = "deleting"
  \/ r \in mcp <=> cluster[r] = "there"

\* MCP comes to an end of its analyses of r, again and again.
AnalysesEnd(r) == []<>(r \notin scanning)

\* When cluster and config come to rest, MCP has the capabilities of the cluster's
\* resources and no others, except of a resource for which MCP is wrong from the moment,
\* and nothing has put it right since, that an event was lost (on a full queue, in a
\* broken watch), a listing was partial or failed, a request or an analysis failed for
\* good, an analysis ended when the resource had gone, or a delete was carried out when
\* it had come back.
Converges == \A r \in Resources : AnalysesEnd(r) => <>[](Agrees(r) \/ r \in excused)
-----------------------------------------------------------------------------
(* What the documentation says, and the code does not keep.                 *)

\* Only capabilities that are "in MCP but not in cluster" are deleted as orphans.
OrphansOnly ==
  \A w \in States : work[StartupOf(w)].deletes \cap Filtered(w) \subseteq gone
=============================================================================
