---------------------------- MODULE CRDInformers ----------------------------
(***************************************************************************)
(* Which types a resource watcher watches.  startWatcher discovers the     *)
(* types of the cluster once and gives each an informer, a resource served *)
(* in several versions one for each; the informer of the CRDs adds and     *)
(* removes types from then on, of each CRD the version that gvrFromCRD     *)
(* picks.  A resync lists the caches of the types in activeInformers, and  *)
(* MCP drops what is not in it, so a type that is missing there, or stays  *)
(* there, is a fault at MCP.                                               *)
(* The way of single changes and of resyncs to MCP is one step here; it is *)
(* the subject of DebounceBuffer and ResourceSync.                         *)
(***************************************************************************)
EXTENDS Naturals, Sequences, FiniteSets

CONSTANTS
  Names, Versions, Absent,
  BuiltIn,           \* resources that no CRD defines, always served in the same versions
  BuiltInVersions,
  MaxEvents          \* bound on changes of CRDs and objects, and on stops

ASSUME ConstantsOK ==
  /\ IsFiniteSet(Names) /\ BuiltIn \subseteq Names
  /\ BuiltInVersions \subseteq Versions /\ BuiltInVersions # {}
  /\ Absent \notin Versions /\ MaxEvents \in Nat

VARIABLES
  served,            \* the versions in which a resource is served
  crd,               \* of its CRD, the version that gvrFromCRD picks of these: the storage
                     \* version, or else the first that is served
  objects,           \* the resources of which the cluster has an object
  phase,             \* of startWatcher
  activeInformers,
  factory,           \* the informers of the factory; each has the watcher's handlers
  waits,             \* those WaitForCacheSync waits for
  hasSynced, store,  \* informers that have listed, and that have an object in the cache
  crdListed, crdStore, \* the CRD informer
  notices,           \* its notifications, to be handled one by one
  synced,            \* the initial sync is done
  mcp,               \* the objects MCP has
  events,
  lasting,           \* discovered types with an object, both there since the discovery
  unnamed,           \* discovered types that no notice has named
  escaped            \* resources of which a change of the CRD gave no notice

cluster   == <<served, crd, objects>>
informers == <<factory, waits, hasSynced, store>>
crdInformer == <<crdListed, crdStore, notices>>
history   == <<lasting, unnamed, escaped>>
vars == <<cluster, phase, activeInformers, informers, crdInformer, synced, mcp, events,
          history>>

GVRs      == Names \X Versions
Served(g) == g[2] \in served[g[1]]
Of(n, T)  == {g \in T : g[1] = n}
Notices   == [action : {"add", "delete"}, gvr : GVRs]

ClusterOK ==
  /\ served \in [Names -> SUBSET Versions] /\ crd \in [Names -> Versions \cup {Absent}]
  /\ \A n \in Names : IF n \in BuiltIn THEN served[n] = BuiltInVersions /\ crd[n] = Absent
                     ELSE IF crd[n] = Absent THEN served[n] = {} ELSE crd[n] \in served[n]
  /\ objects \subseteq {n \in Names : served[n] # {}}

TypeOK ==
  /\ ClusterOK
  /\ phase \in {"off", "setup", "on"}
  /\ activeInformers \subseteq factory /\ factory \subseteq GVRs
  /\ waits \subseteq factory
  /\ store \subseteq hasSynced /\ hasSynced \subseteq factory
  /\ crdListed \in BOOLEAN /\ crdStore \in [Names -> Versions \cup {Absent}]
  /\ notices \in Seq(Notices)
  /\ synced \in BOOLEAN /\ mcp \subseteq GVRs
  /\ events \in 0..MaxEvents
  /\ lasting \subseteq {g \in GVRs : Served(g) /\ g[1] \in objects}
  /\ unnamed \subseteq activeInformers /\ escaped \subseteq Names

NoneListed == [n \in Names |-> Absent]

Init ==
  /\ served \in [Names -> SUBSET Versions] /\ crd \in [Names -> Versions \cup {Absent}]
  /\ objects \in SUBSET Names
  /\ ClusterOK
  /\ phase = "off" /\ activeInformers = {}
  /\ factory = {} /\ waits = {} /\ hasSynced = {} /\ store = {}
  /\ crdListed = FALSE /\ crdStore = NoneListed /\ notices = <<>>
  /\ synced = FALSE /\ lasting = {} /\ unnamed = {} /\ escaped = {}
  /\ mcp = {g \in GVRs : Served(g) /\ g[1] \in objects}   \* what an earlier watcher sent
  /\ events = 0
-----------------------------------------------------------------------------
(* The cluster.                                                             *)

Event == events < MaxEvents /\ events' = events + 1
Quiet == UNCHANGED <<phase, activeInformers, informers, crdInformer, synced, mcp>>

CreateObject(n) ==
  /\ Event
  /\ served[n] # {} /\ n \notin objects
  /\ objects' = objects \cup {n}
  /\ Quiet /\ UNCHANGED <<served, crd, history>>

DeleteObject(n) ==
  /\ Event
  /\ n \in objects
  /\ objects' = objects \ {n} /\ lasting' = {g \in lasting : g[1] # n}
  /\ Quiet /\ UNCHANGED <<served, crd, unnamed, escaped>>

\* A CRD is installed, or changes the versions it serves.
InstallCRD(n, V, v) ==
  /\ Event
  /\ n \notin BuiltIn /\ v \in V /\ <<served[n], crd[n]>> # <<V, v>>
  /\ served' = [served EXCEPT ![n] = V] /\ crd' = [crd EXCEPT ![n] = v]
  /\ lasting' = {g \in lasting : g[1] = n => g[2] \in V}
  /\ Quiet /\ UNCHANGED <<objects, unnamed, escaped>>

\* Its objects go first; an informer whose watch is broken then does not see that.
RemoveCRD(n) ==
  /\ Event
  /\ n \notin BuiltIn /\ crd[n] # Absent
  /\ served' = [served EXCEPT ![n] = {}] /\ crd' = [crd EXCEPT ![n] = Absent]
  /\ objects' = objects \ {n} /\ lasting' = {g \in lasting : g[1] # n}
  /\ Quiet /\ UNCHANGED <<unnamed, escaped>>
-----------------------------------------------------------------------------
(* startWatcher and stopWatcher.                                            *)

\* Groups whose discovery fails are left out.
Discover ==
  /\ phase = "off"
  /\ \E discovered \in SUBSET {g \in GVRs : Served(g)} :
       /\ activeInformers' = discovered /\ factory' = discovered
       /\ lasting' = {g \in discovered : g[1] \in objects}
       /\ unnamed' = {g \in discovered : g[1] \notin BuiltIn}
  /\ phase' = "setup"
  /\ UNCHANGED <<cluster, waits, hasSynced, store, crdInformer, synced, mcp, events, escaped>>

\* A bug: the goroutine that waits is started before the informers.
StartInformersLate ==
  /\ phase = "setup"
  /\ phase' = "on"
  /\ UNCHANGED <<cluster, activeInformers, informers, crdInformer, synced, mcp, events,
                 history>>

\* factory.Start; the wait is for what the factory has started.
StartInformers ==
  /\ phase = "setup"
  /\ phase' = "on"
  /\ waits' = factory
  /\ UNCHANGED <<cluster, activeInformers, factory, hasSynced, store, crdInformer, synced,
                 mcp, events, history>>

StopWatcher ==
  /\ Event
  /\ phase = "on"
  /\ phase' = "off" /\ activeInformers' = {}
  /\ factory' = {} /\ waits' = {} /\ hasSynced' = {} /\ store' = {}
  /\ crdListed' = FALSE /\ crdStore' = NoneListed /\ notices' = <<>>
  /\ synced' = FALSE /\ lasting' = {} /\ unnamed' = {} /\ escaped' = {}
  /\ UNCHANGED <<cluster, mcp>>
-----------------------------------------------------------------------------
(* Informers.                                                               *)

\* The list or watch of an informer brings its cache up to date, and its handlers send
\* what is new in it or gone from it.  Of a type that is not served it fails, and is
\* tried again.
Reflect(g) ==
  /\ phase = "on" /\ g \in factory
  /\ Served(g)
  /\ hasSynced' = hasSynced \cup {g}
  /\ \/ g[1] \in objects /\ g \notin store /\ store' = store \cup {g} /\ mcp' = mcp \cup {g}
     \/ g[1] \notin objects /\ g \in store /\ store' = store \ {g} /\ mcp' = mcp \ {g}
     \/ (g[1] \in objects <=> g \in store) /\ UNCHANGED <<store, mcp>>
  /\ UNCHANGED <<cluster, phase, activeInformers, factory, waits, crdInformer, synced,
                 events, history>>

Defined == {n \in Names \ BuiltIn : crd[n] # Absent}

\* The first list of the CRDs, in any order.
CRDsListed ==
  /\ phase = "on" /\ ~crdListed
  /\ crdListed' = TRUE
  /\ crdStore' = [n \in Names |-> IF n \in Defined THEN crd[n] ELSE Absent]
  /\ \E order \in [1..Cardinality(Defined) -> Defined] :
       /\ \A n \in Defined : \E i \in DOMAIN order : order[i] = n
       /\ notices' = [i \in DOMAIN order |-> [action |-> "add",
                                              gvr |-> <<order[i], crd[order[i]]>>]]
  /\ UNCHANGED <<cluster, phase, activeInformers, informers, synced, mcp, events, history>>

Notify(action, n, v) == notices' = Append(notices, [action |-> action, gvr |-> <<n, v>>])

\* Changes that come between two looks at a CRD are seen as one.  What matters of a CRD is
\* the version picked.
CRDSeen(n) ==
  /\ crdListed
  /\ n \notin BuiltIn /\ crdStore[n] # crd[n]
  /\ crdStore' = [crdStore EXCEPT ![n] = crd[n]]
  /\ \/ /\ crdStore[n] = Absent
        /\ Notify("add", n, crd[n]) /\ UNCHANGED escaped
     \/ /\ crd[n] = Absent
        /\ Notify("delete", n, crdStore[n]) /\ UNCHANGED escaped
     \/ /\ Absent \notin {crd[n], crdStore[n]}   \* there is no UpdateFunc
        /\ escaped' = escaped \cup {n} /\ UNCHANGED notices
  /\ UNCHANGED <<cluster, phase, activeInformers, informers, crdListed, synced, mcp,
                 events, lasting, unnamed>>

Handle(action) ==
  /\ notices # <<>> /\ Head(notices).action = action
  /\ notices' = Tail(notices)
  /\ unnamed' = unnamed \ {Head(notices).gvr}
  /\ UNCHANGED <<cluster, phase, waits, hasSynced, store, crdListed, crdStore, synced, events,
                 lasting, escaped>>

\* A bug: a type the factory knows is taken for watched.
onCRDAddOnce ==
  /\ Handle("add")
  /\ LET gvr == Head(notices).gvr
     IN  IF gvr \in factory
           THEN UNCHANGED <<activeInformers, factory>>
           ELSE /\ factory' = factory \cup {gvr}
                /\ activeInformers' = activeInformers \cup {gvr}
  /\ UNCHANGED mcp

\* A type that comes back gets the informer it had, which still runs, with one more set
\* of handlers, to which the informer gives what it has.
onCRDAdd ==
  /\ Handle("add")
  /\ LET gvr == Head(notices).gvr
     IN  /\ factory' = factory \cup {gvr}
         /\ activeInformers' = activeInformers \cup {gvr}
         /\ mcp' = mcp \cup (({gvr} \cap store) \ activeInformers)

\* A bug: the type is only stopped, its entry stays.
onCRDDeleteKept ==
  /\ Handle("delete")
  /\ UNCHANGED <<activeInformers, factory, mcp>>

\* A bug: the factory forgets the informer, which still runs.
onCRDDeleteForgets ==
  /\ Handle("delete")
  /\ activeInformers' = activeInformers \ {Head(notices).gvr}
  /\ factory' = factory \ {Head(notices).gvr}
  /\ UNCHANGED mcp

\* The informer stays in the factory, and keeps its cache.  So do the informers, and the
\* entries, of other versions.
onCRDDelete ==
  /\ Handle("delete")
  /\ activeInformers' = activeInformers \ {Head(notices).gvr}
  /\ UNCHANGED <<factory, mcp>>
-----------------------------------------------------------------------------
(* Resyncs.                                                                 *)

\* The cluster has objects of other types, so a listing is never empty.
Resync == mcp' = activeInformers \cap store

InitialSync ==
  /\ phase = "on" /\ ~synced
  /\ waits \subseteq hasSynced /\ crdListed
  /\ Resync /\ synced' = TRUE
  /\ UNCHANGED <<cluster, phase, activeInformers, informers, crdInformer, events, history>>

PeriodicResync ==
  /\ synced
  /\ Resync
  /\ UNCHANGED <<cluster, phase, activeInformers, informers, crdInformer, synced, events,
                 history>>
-----------------------------------------------------------------------------
Cluster ==
  \E n \in Names :
    \/ CreateObject(n) \/ DeleteObject(n) \/ RemoveCRD(n)
    \/ \E V \in SUBSET Versions, v \in Versions : InstallCRD(n, V, v)

Next ==
  \/ Cluster
  \/ Discover \/ StartInformers \/ StopWatcher
  \/ \E g \in GVRs : Reflect(g)
  \/ CRDsListed \/ \E n \in Names : CRDSeen(n)
  \/ onCRDAdd \/ onCRDDelete
  \/ InitialSync \/ PeriodicResync

Safety == Init /\ [][Next]_vars

\* The API server and MCP answer.
Spec ==
  /\ Safety
  /\ WF_vars(Discover) /\ WF_vars(StartInformers)
  /\ \A g \in GVRs : WF_vars(Reflect(g))
  /\ WF_vars(CRDsListed) /\ \A n \in Names : WF_vars(CRDSeen(n))
  /\ WF_vars(onCRDAdd \/ onCRDDelete)
  /\ WF_vars(InitialSync) /\ WF_vars(PeriodicResync)
-----------------------------------------------------------------------------
(* Correctness.                                                             *)

\* Once the notices are handled, activeInformers has for every CRD that the CRD informer
\* knows the version picked, through any deletions and recreations.  What else it has of
\* a custom resource is of the discovery, and no notice has named it: of a resource that
\* a notice of its deletion has named, no version that was ever picked is left.
MapFollows ==
  crdListed /\ notices = <<>> =>
    \A n \in Names \ (BuiltIn \cup escaped) :
      Of(n, activeInformers) \ unnamed = {<<n, v>> : v \in {crdStore[n]} \ {Absent}}

\* The initial sync, from which MCP deletes what it does not find, has every object of a
\* discovered type that was there all the time.
InitialIsComplete == [][InitialSync => lasting \subseteq mcp']_vars

\* The types that stay in activeInformers though they are not served any more.
Ghosts == {g \in unnamed : ~Served(g)}

\* MCP has the objects of n in every version that is watched and served, and in no other,
\* and every object of a custom resource in the version picked.
Settled(n) ==
  /\ Of(n, mcp) \ Ghosts = {g \in Of(n, activeInformers) : Served(g) /\ n \in objects}
  /\ crd[n] # Absent /\ n \in objects => <<n, crd[n]>> \in mcp

\* What was discovered has been listed, or can be.
AllListable == \A g \in waits : g \in hasSynced \/ Served(g)

\* Once the cluster rests, the initial sync is done and MCP settles at the objects of the
\* cluster, but for types of the discovery that are gone and no notice has named; and
\* but for resources of which a change gave no notice.
Settles ==
  <>[]AllListable => <>[](synced /\ \A n \in Names \ escaped : Settled(n))
-----------------------------------------------------------------------------
(* What the documentation says, and the code does not keep.                 *)

\* The comment on performInitialSync that it ensures that all existing resources are sent
\* on startup: a watcher that is not stopped does its initial sync.
InitialSyncComes == <>[](phase = "on") => <>synced
=============================================================================
