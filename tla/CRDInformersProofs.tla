------------------------- MODULE CRDInformersProofs -------------------------
(***************************************************************************)
(* The initial sync of a watcher is complete, and activeInformers follows  *)
(* the CRDs, for all names, versions, sets of versions that are served and *)
(* numbers of changes.                                                     *)
(***************************************************************************)
EXTENDS CRDInformers, FiniteSetTheorems, SequenceTheorems, TLAPS

\* A watcher that is not on has nothing of an earlier one.
OffIsEmpty ==
  /\ phase # "on" => /\ waits = {} /\ hasSynced = {} /\ store = {}
                     /\ ~crdListed /\ notices = <<>> /\ escaped = {}
                     /\ crdStore = NoneListed
  /\ phase = "off" => /\ activeInformers = {} /\ factory = {}
                      /\ lasting = {} /\ unnamed = {}
  /\ ~crdListed => notices = <<>>

TInv == TypeOK /\ OffIsEmpty

LEMMA TypeInit == Init => TInv
<1> SUFFICES ASSUME Init PROVE TInv
  OBVIOUS
<1>1. NoneListed \in [Names -> Versions \cup {Absent}] /\ <<>> \in Seq(Notices)
  BY DEF NoneListed
<1>3. mcp \subseteq GVRs
  BY DEF Init
<1>4. crdStore \in [Names -> Versions \cup {Absent}] /\ notices \in Seq(Notices)
  BY <1>1 DEF Init
<1>5. OffIsEmpty
  BY DEF Init, OffIsEmpty
<1>6. events \in 0..MaxEvents
  BY ConstantsOK DEF Init
<1>7. QED
  BY <1>3, <1>4, <1>5, <1>6 DEF Init, TInv, TypeOK

LEMMA ClusterTypes ==
  ASSUME TInv, Cluster
  PROVE  TInv'
<1> USE DEF Event
<1>1. ASSUME ClusterOK', events' \in 0..MaxEvents, Quiet, UNCHANGED <<unnamed, escaped>>,
             lasting' \subseteq {g \in GVRs : Served(g)' /\ g[1] \in objects'},
             lasting = {} => lasting' = {}
      PROVE  TInv'
  BY <1>1 DEF TInv, TypeOK, OffIsEmpty, Quiet, informers, crdInformer
<1>2. ASSUME NEW n \in Names, CreateObject(n) PROVE TInv'
  <2>1. ClusterOK'
    BY <1>2 DEF CreateObject, TInv, TypeOK, ClusterOK
  <2>2. QED
    BY <1>1, <1>2, <2>1, ConstantsOK DEF CreateObject, TInv, TypeOK, Served, history
<1>3. ASSUME NEW n \in Names, DeleteObject(n) PROVE TInv'
  <2>1. ClusterOK'
    BY <1>3 DEF DeleteObject, TInv, TypeOK, ClusterOK
  <2>2. QED
    BY <1>1, <1>3, <2>1, ConstantsOK DEF DeleteObject, TInv, TypeOK, Served
<1>4. ASSUME NEW n \in Names, RemoveCRD(n) PROVE TInv'
  <2>1. ClusterOK'
    BY <1>4 DEF RemoveCRD, TInv, TypeOK, ClusterOK
  <2>2. \A g \in GVRs : g[1] # n => (Served(g)' <=> Served(g))
    BY <1>4 DEF RemoveCRD, TInv, TypeOK, ClusterOK, Served, GVRs
  <2>3. QED
    BY <1>1, <1>4, <2>1, <2>2, ConstantsOK DEF RemoveCRD, TInv, TypeOK
<1>5. ASSUME NEW n \in Names, NEW V \in SUBSET Versions, NEW v \in Versions, InstallCRD(n, V, v)
      PROVE  TInv'
  <2>1. ClusterOK'
    BY <1>5, ConstantsOK DEF InstallCRD, TInv, TypeOK, ClusterOK
  <2>2. \A g \in GVRs : Served(g)' <=> IF g[1] = n THEN g[2] \in V ELSE Served(g)
    BY <1>5 DEF InstallCRD, TInv, TypeOK, ClusterOK, Served, GVRs
  <2>3. QED
    BY <1>1, <1>5, <2>1, <2>2, ConstantsOK DEF InstallCRD, TInv, TypeOK
<1>6. QED
  BY <1>2, <1>3, <1>4, <1>5 DEF Cluster

LEMMA WatcherTypes ==
  ASSUME TInv, Discover \/ StartInformers \/ StopWatcher
  PROVE  TInv'
<1>1. CASE Discover
  BY <1>1 DEF TInv, TypeOK, ClusterOK, OffIsEmpty, Discover, Served, cluster, crdInformer
<1>2. CASE StartInformers
  BY <1>2 DEF TInv, TypeOK, ClusterOK, OffIsEmpty, StartInformers, Served, cluster, crdInformer,
              history
<1>3. CASE StopWatcher
  <2>1. NoneListed \in [Names -> Versions \cup {Absent}] /\ <<>> \in Seq(Notices)
    BY DEF NoneListed
  <2>2. crdStore' \in [Names -> Versions \cup {Absent}] /\ notices' \in Seq(Notices)
    BY <1>3, <2>1 DEF StopWatcher
  <2>3. OffIsEmpty'
    BY <1>3 DEF StopWatcher, OffIsEmpty
  <2>4. events' \in 0..MaxEvents
    BY <1>3, ConstantsOK DEF TInv, TypeOK, StopWatcher, Event
  <2>5. QED
    BY <1>3, <2>2, <2>3, <2>4 DEF TInv, TypeOK, ClusterOK, StopWatcher, cluster
<1>4. QED
  BY <1>1, <1>2, <1>3

LEMMA ReflectTypes ==
  ASSUME TInv, NEW g \in GVRs, Reflect(g)
  PROVE  TInv'
<1>1. store' \subseteq hasSynced' /\ hasSynced' \subseteq factory' /\ mcp' \subseteq GVRs
  BY DEF TInv, TypeOK, Reflect
<1>2. QED
  BY <1>1 DEF TInv, TypeOK, ClusterOK, OffIsEmpty, Reflect, Served, cluster, crdInformer, history

\* Every CRD is listed with the version picked, in some order.
LEMMA Listing ==
  ASSUME TInv, CRDsListed
  PROVE  /\ notices' \in Seq(Notices)
         /\ \A i \in DOMAIN notices' :
              /\ notices'[i].action = "add"
              /\ notices'[i].gvr[1] \in Defined
              /\ notices'[i].gvr = <<notices'[i].gvr[1], crd[notices'[i].gvr[1]]>>
         /\ \A n \in Defined : \E i \in DOMAIN notices' : notices'[i].gvr[1] = n
<1>1. PICK order \in [1..Cardinality(Defined) -> Defined] :
        /\ \A n \in Defined : \E i \in DOMAIN order : order[i] = n
        /\ notices' = [i \in DOMAIN order |-> [action |-> "add",
                                               gvr |-> <<order[i], crd[order[i]]>>]]
  BY DEF CRDsListed
<1>2. Cardinality(Defined) \in Nat
  <2>1. Defined \in SUBSET Names
    BY DEF Defined
  <2>2. QED
    BY <2>1, ConstantsOK, FS_Subset, FS_CardinalityType
<1>3. \A i \in 1..Cardinality(Defined) :
        /\ order[i] \in Defined
        /\ [action |-> "add", gvr |-> <<order[i], crd[order[i]]>>] \in Notices
  BY <1>1 DEF TInv, TypeOK, ClusterOK, Defined, Notices, GVRs
<1>4. notices' \in [1..Cardinality(Defined) -> Notices]
  BY <1>1, <1>3
<1>5. notices' \in Seq(Notices)
  BY <1>2, <1>4
<1>6. QED
  BY <1>1, <1>3, <1>5

LEMMA CRDTypes ==
  ASSUME TInv, CRDsListed \/ \E n \in Names : CRDSeen(n)
  PROVE  TInv'
<1>1. CASE CRDsListed
  <2>1. crdListed' \in BOOLEAN /\ crdStore' \in [Names -> Versions \cup {Absent}]
    BY <1>1 DEF TInv, TypeOK, ClusterOK, CRDsListed
  <2>2. notices' \in Seq(Notices)
    BY <1>1, Listing
  <2>3. QED
    BY <1>1, <2>1, <2>2 DEF TInv, TypeOK, ClusterOK, OffIsEmpty, CRDsListed, Served, cluster,
                            informers, history
<1>2. ASSUME NEW n \in Names, CRDSeen(n) PROVE TInv'
  <2>1. crdStore' \in [Names -> Versions \cup {Absent}] /\ escaped' \subseteq Names
    BY <1>2 DEF TInv, TypeOK, ClusterOK, CRDSeen
  <2>2. notices' \in Seq(Notices)
    <3>1. \A a \in {"add", "delete"}, v \in Versions :
            Append(notices, [action |-> a, gvr |-> <<n, v>>]) \in Seq(Notices)
      BY DEF TInv, TypeOK, Notices, GVRs
    <3>2. crd[n] \in Versions \cup {Absent} /\ crdStore[n] \in Versions \cup {Absent}
      BY DEF TInv, TypeOK, ClusterOK
    <3>3. CASE crdStore[n] = Absent /\ Notify("add", n, crd[n])
      BY <1>2, <3>1, <3>2, <3>3 DEF CRDSeen, Notify
    <3>4. CASE crd[n] = Absent /\ Notify("delete", n, crdStore[n])
      BY <1>2, <3>1, <3>2, <3>4 DEF CRDSeen, Notify
    <3>5. CASE UNCHANGED notices
      BY <3>5 DEF TInv, TypeOK
    <3>6. QED
      BY <1>2, <3>3, <3>4, <3>5 DEF CRDSeen
  <2>3. QED
    BY <1>2, <2>1, <2>2 DEF TInv, TypeOK, ClusterOK, OffIsEmpty, CRDSeen, Served, cluster, informers
<1>3. QED
  BY <1>1, <1>2

LEMMA HandlerTypes ==
  ASSUME TInv, onCRDAdd \/ onCRDDelete
  PROVE  TInv'
<1>1. notices # <<>> /\ notices \in Seq(Notices) /\ notices' = Tail(notices)
  BY DEF TInv, TypeOK, onCRDAdd, onCRDDelete, Handle
<1>2. Head(notices) \in Notices /\ notices' \in Seq(Notices)
  BY <1>1
<1>3. Head(notices).gvr \in GVRs
  BY <1>2 DEF Notices
<1>4. activeInformers' \subseteq factory' /\ factory \subseteq factory' /\ factory' \subseteq GVRs
  BY <1>3 DEF TInv, TypeOK, onCRDAdd, onCRDDelete
<1>5. phase = "on" /\ crdListed
  BY <1>1 DEF TInv, TypeOK, OffIsEmpty
<1>6. unnamed' \subseteq activeInformers' /\ mcp' \subseteq GVRs
  BY <1>3 DEF TInv, TypeOK, onCRDAdd, onCRDDelete, Handle
<1>7. QED
  BY <1>2, <1>4, <1>5, <1>6 DEF TInv, TypeOK, ClusterOK, OffIsEmpty, onCRDAdd, onCRDDelete, Handle,
                                Served, cluster

LEMMA ResyncTypes ==
  ASSUME TInv, InitialSync \/ PeriodicResync
  PROVE  TInv'
<1>1. /\ UNCHANGED <<cluster, phase, activeInformers, informers, crdInformer, events, history>>
      /\ synced' \in BOOLEAN /\ mcp' = activeInformers \cap store
  BY DEF TInv, TypeOK, InitialSync, PeriodicResync, Resync
<1>2. mcp' \subseteq GVRs
  BY <1>1 DEF TInv, TypeOK
<1>3. QED
  BY <1>1, <1>2 DEF TInv, TypeOK, ClusterOK, OffIsEmpty, Served, cluster, informers, crdInformer,
                    history

LEMMA TypeStep ==
  ASSUME TInv, [Next]_vars
  PROVE  TInv'
<1>1. CASE UNCHANGED vars
  BY <1>1 DEF vars, cluster, informers, crdInformer, history, TInv, TypeOK, ClusterOK, OffIsEmpty,
              Served
<1>2. QED
  BY <1>1, ClusterTypes, WatcherTypes, ReflectTypes, CRDTypes, HandlerTypes, ResyncTypes
     DEF Next

\* The type invariant of the informers of a watcher: the watched types have an informer,
\* and what is in a cache was listed.
THEOREM TypeCorrect == Safety => []TypeOK
<1>1. TInv => TypeOK
  BY DEF TInv
<1>2. QED
  BY <1>1, TypeInit, TypeStep, PTL DEF Safety
-----------------------------------------------------------------------------
(* The initial sync.                                                        *)

\* An object that lasts is of a type that is watched and waited for, and was seen by the
\* list of its informer; no notice will take its type away.
LastingIsWatched ==
  /\ \A g \in lasting :
       /\ g \in activeInformers
       /\ g \in hasSynced => g \in store
       /\ phase = "on" => g \in waits
  /\ \A i \in 1..Len(notices) : notices[i].action = "delete" =>
       \A g \in lasting : g[1] # notices[i].gvr[1]

LEMMA LastingShrinks ==
  ASSUME LastingIsWatched, UNCHANGED <<phase, activeInformers, informers, crdInformer>>,
         lasting' \subseteq lasting
  PROVE  LastingIsWatched'
BY DEF LastingIsWatched, informers, crdInformer

LEMMA ClusterLasting ==
  ASSUME LastingIsWatched, Cluster
  PROVE  LastingIsWatched'
BY LastingShrinks DEF Cluster, CreateObject, DeleteObject, InstallCRD, RemoveCRD, Quiet, history

LEMMA WatcherLasting ==
  ASSUME TInv, LastingIsWatched, Discover \/ StartInformers \/ StopWatcher
  PROVE  LastingIsWatched'
<1>1. CASE Discover
  <2>1. notices = <<>> /\ hasSynced = {}
    BY <1>1 DEF TInv, OffIsEmpty, Discover
  <2>2. QED
    BY <1>1, <2>1 DEF Discover, LastingIsWatched, cluster, crdInformer
<1>2. CASE StartInformers
  BY <1>2 DEF TInv, TypeOK, StartInformers, LastingIsWatched, cluster, crdInformer, history
<1>3. CASE StopWatcher
  BY <1>3 DEF StopWatcher, LastingIsWatched
<1>4. QED
  BY <1>1, <1>2, <1>3

LEMMA ReflectLasting ==
  ASSUME TInv, LastingIsWatched, NEW g \in GVRs, Reflect(g)
  PROVE  LastingIsWatched'
<1>1. ASSUME NEW h \in lasting, h \in hasSynced'
      PROVE  h \in store'
  <2>1. h[1] \in objects
    BY DEF TInv, TypeOK
  <2>2. CASE g = h
    BY <2>1, <2>2 DEF Reflect
  <2>3. CASE g # h
    BY <1>1, <2>3 DEF Reflect, LastingIsWatched
  <2>4. QED
    BY <2>2, <2>3
<1>2. QED
  BY <1>1 DEF Reflect, LastingIsWatched, cluster, crdInformer, history

LEMMA CRDLasting ==
  ASSUME TInv, LastingIsWatched, CRDsListed \/ \E n \in Names : CRDSeen(n)
  PROVE  LastingIsWatched'
<1>1. CASE CRDsListed
  <2>1. \A i \in 1..Len(notices') : notices'[i].action # "delete"
    BY <1>1, Listing
  <2>2. QED
    BY <1>1, <2>1 DEF CRDsListed, LastingIsWatched, cluster, informers, history
<1>2. ASSUME NEW n \in Names, CRDSeen(n) PROVE LastingIsWatched'
  <2>1. notices \in Seq(Notices)
    BY DEF TInv, TypeOK
  <2>2. \A i \in 1..Len(notices') : notices'[i].action = "delete" =>
          \A g \in lasting : g[1] # notices'[i].gvr[1]
    <3>1. CASE UNCHANGED notices
      BY <3>1 DEF LastingIsWatched
    <3>2. CASE Notify("add", n, crd[n])
      BY <2>1, <3>2 DEF Notify, LastingIsWatched
    <3>3. CASE crd[n] = Absent /\ Notify("delete", n, crdStore[n])
      <4>1. \A g \in lasting : g[1] # n
        <5>1. served[n] = {}
          BY <1>2, <3>3 DEF CRDSeen, TInv, TypeOK, ClusterOK
        <5>2. QED
          BY <5>1 DEF TInv, TypeOK, Served
      <4>2. QED
        BY <2>1, <3>3, <4>1 DEF Notify, LastingIsWatched
    <3>4. QED
      BY <1>2, <3>1, <3>2, <3>3 DEF CRDSeen
  <2>3. QED
    BY <1>2, <2>2 DEF CRDSeen, LastingIsWatched, cluster, informers
<1>3. QED
  BY <1>1, <1>2

LEMMA HandlerLasting ==
  ASSUME TInv, LastingIsWatched, onCRDAdd \/ onCRDDelete
  PROVE  LastingIsWatched'
<1>1. notices # <<>> /\ notices \in Seq(Notices) /\ notices' = Tail(notices)
  BY DEF TInv, TypeOK, onCRDAdd, onCRDDelete, Handle
<1>2. /\ Len(notices') = Len(notices) - 1 /\ Len(notices) \in Nat \ {0}
      /\ \A i \in 1..Len(notices') : notices'[i] = notices[i + 1]
      /\ Head(notices) = notices[1]
  BY <1>1
<1>3. lasting \subseteq activeInformers'
  <2>1. CASE onCRDAdd
    BY <2>1 DEF onCRDAdd, LastingIsWatched
  <2>2. CASE onCRDDelete
    <3>1. \A g \in lasting : g[1] # Head(notices).gvr[1]
      BY <1>2, <2>2 DEF onCRDDelete, Handle, LastingIsWatched
    <3>2. Head(notices).gvr \notin lasting
      BY <3>1
    <3>3. QED
      BY <2>2, <3>2 DEF onCRDDelete, LastingIsWatched
  <2>3. QED
    BY <2>1, <2>2
<1>4. \A i \in 1..Len(notices') : notices'[i].action = "delete" =>
        \A g \in lasting : g[1] # notices'[i].gvr[1]
  BY <1>2 DEF LastingIsWatched
<1>5. UNCHANGED <<phase, waits, hasSynced, store, lasting>>
  BY DEF onCRDAdd, onCRDDelete, Handle
<1>6. QED
  BY <1>3, <1>4, <1>5 DEF LastingIsWatched

LEMMA LastingStep ==
  ASSUME TInv, LastingIsWatched, [Next]_vars
  PROVE  LastingIsWatched'
<1>1. CASE UNCHANGED vars
  BY <1>1, LastingShrinks DEF vars, history
<1>2. CASE InitialSync \/ PeriodicResync
  BY <1>2, LastingShrinks DEF InitialSync, PeriodicResync, history
<1>3. QED
  BY <1>1, <1>2, ClusterLasting, WatcherLasting, ReflectLasting, CRDLasting, HandlerLasting
     DEF Next

\* The initial sync, from which MCP deletes what it does not find, has every object of a
\* discovered type that was there all the time: it waits for the informers of all of them
\* (startWatcher, resourcesync_controller.go).
THEOREM InitialSyncIsComplete == Safety => InitialIsComplete
<1>1. Init => TInv /\ LastingIsWatched
  <2>1. Init => LastingIsWatched
    BY DEF Init, LastingIsWatched
  <2>2. QED
    BY <2>1, TypeInit
<1>2. TInv /\ LastingIsWatched /\ [Next]_vars => TInv' /\ LastingIsWatched'
  BY TypeStep, LastingStep
<1>3. TInv /\ LastingIsWatched /\ [Next]_vars
        => [InitialSync => lasting \subseteq mcp']_vars
  BY DEF InitialSync, Resync, LastingIsWatched
<1>4. QED
  BY <1>1, <1>2, <1>3, PTL DEF Safety, InitialIsComplete
-----------------------------------------------------------------------------
(* activeInformers follows the CRDs.  The notices of one resource, one after *)
(* the other, lead from what they have brought so far to what the CRD        *)
(* informer knows.                                                           *)

\* What the notices have brought of n.
Kept(n)      == Of(n, activeInformers) \ unnamed
Version(n, v) == {<<n, w>> : w \in {v} \ {Absent}}
At(q, n)     == {i \in 1..Len(q) : q[i].gvr[1] = n}

\* Handling the notices q of the resource n one by one takes the set W of its watched
\* types to the version v.
First(q, n, W) ==
  \A i \in At(q, n) : (\A k \in At(q, n) : i <= k) =>
    /\ q[i].action = "add" => W \subseteq {q[i].gvr}
    /\ q[i].action = "delete" => W = {q[i].gvr}

Final(q, n, v) ==
  \A i \in At(q, n) : (\A k \in At(q, n) : k <= i) =>
    /\ q[i].action = "add" => v = q[i].gvr[2]
    /\ q[i].action = "delete" => v = Absent

Alternates(q, n) ==
  \A i, j \in At(q, n) : i < j /\ (\A k \in At(q, n) : k <= i \/ j <= k) =>
    /\ q[i].action = "add" => q[j].gvr = q[i].gvr
    /\ q[i].action = "delete" => q[j].action = "add"

Leads(q, n, W, v) ==
  /\ At(q, n) = {} => W = Version(n, v)
  /\ First(q, n, W) /\ Final(q, n, v) /\ Alternates(q, n)

LEMMA Places ==
  ASSUME NEW q \in Seq(Notices), q # <<>>, NEW n
  PROVE  /\ \A k \in At(q, n) :
              /\ k \in Nat \ {0}
              /\ (k = 1 /\ Head(q).gvr[1] = n) \/ k - 1 \in At(Tail(q), n)
         /\ \A i \in At(Tail(q), n) :
              i \in Nat \ {0} /\ i + 1 \in At(q, n) /\ Tail(q)[i] = q[i + 1]
         /\ Head(q).gvr[1] = n => 1 \in At(q, n)
         /\ Head(q) = q[1]
<1>1. /\ Len(q) \in Nat \ {0} /\ Len(Tail(q)) = Len(q) - 1 /\ Head(q) = q[1]
      /\ \A i \in 1..Len(Tail(q)) : Tail(q)[i] = q[i + 1]
  OBVIOUS
<1>2. ASSUME NEW k \in At(q, n)
      PROVE  /\ k \in Nat \ {0}
             /\ (k = 1 /\ Head(q).gvr[1] = n) \/ k - 1 \in At(Tail(q), n)
  <2>1. k \in 1..Len(q) /\ q[k].gvr[1] = n
    BY DEF At
  <2>2. CASE k = 1
    BY <1>1, <2>1, <2>2
  <2>3. CASE k # 1
    <3>1. k - 1 \in 1..Len(Tail(q)) /\ (k - 1) + 1 = k
      BY <1>1, <2>1, <2>3
    <3>2. Tail(q)[k - 1] = q[k]
      BY <1>1, <3>1
    <3>3. QED
      BY <2>1, <3>1, <3>2 DEF At
  <2>4. QED
    BY <2>2, <2>3
<1>3. ASSUME NEW i \in At(Tail(q), n)
      PROVE  i \in Nat \ {0} /\ i + 1 \in At(q, n) /\ Tail(q)[i] = q[i + 1]
  <2>1. i \in 1..Len(Tail(q)) /\ Tail(q)[i].gvr[1] = n
    BY DEF At
  <2>2. i \in Nat \ {0} /\ i + 1 \in 1..Len(q) /\ Tail(q)[i] = q[i + 1]
    BY <1>1, <2>1
  <2>3. QED
    BY <2>1, <2>2 DEF At
<1>4. Head(q).gvr[1] = n => 1 \in At(q, n)
  BY <1>1 DEF At
<1>5. QED
  BY <1>1, <1>2, <1>3, <1>4

\* What is left of the notices leads on from what is watched after the first one.
LEMMA LeadsOn ==
  ASSUME NEW q \in Seq(Notices), q # <<>>, NEW n, NEW W, NEW v, Absent \notin Versions,
         Leads(q, n, W, v), NEW X,
         Head(q).gvr[1] # n => X = W,
         Head(q).gvr[1] = n => X = IF Head(q).action = "add" THEN W \cup {Head(q).gvr}
                                                             ELSE W \ {Head(q).gvr}
  PROVE  Leads(Tail(q), n, X, v)
<1> DEFINE P == At(Tail(q), n)
<1>1. /\ \A i \in P : i \in Nat \ {0} /\ Tail(q)[i] = q[i + 1] /\ i + 1 \in At(q, n)
      /\ \A k \in At(q, n) :
           k \in Nat \ {0} /\ ((k = 1 /\ Head(q).gvr[1] = n) \/ k - 1 \in P)
      /\ Head(q).gvr[1] = n => 1 \in At(q, n)
      /\ Head(q) = q[1]
  BY Places
<1>2. Head(q) \in Notices
  OBVIOUS
<1>3. Final(Tail(q), n, v)
  <2> SUFFICES ASSUME NEW i \in P, \A k \in P : k <= i
               PROVE  /\ Tail(q)[i].action = "add" => v = Tail(q)[i].gvr[2]
                      /\ Tail(q)[i].action = "delete" => v = Absent
    BY DEF Final
  <2>1. \A k \in At(q, n) : k <= i + 1
    BY <1>1
  <2>2. QED
    BY <1>1, <2>1 DEF Leads, Final
<1>4. Alternates(Tail(q), n)
  <2> SUFFICES ASSUME NEW i \in P, NEW j \in P, i < j, \A k \in P : k <= i \/ j <= k
               PROVE  /\ Tail(q)[i].action = "add" => Tail(q)[j].gvr = Tail(q)[i].gvr
                      /\ Tail(q)[i].action = "delete" => Tail(q)[j].action = "add"
    BY DEF Alternates
  <2>1. i \in Nat \ {0} /\ j \in Nat \ {0} /\ i + 1 \in At(q, n) /\ j + 1 \in At(q, n)
    BY <1>1
  <2>2. i + 1 < j + 1 /\ \A k \in At(q, n) : k <= i + 1 \/ j + 1 <= k
    BY <1>1, <2>1
  <2>3. /\ q[i + 1].action = "add" => q[j + 1].gvr = q[i + 1].gvr
        /\ q[i + 1].action = "delete" => q[j + 1].action = "add"
    BY <2>1, <2>2 DEF Leads, Alternates
  <2>4. QED
    BY <1>1, <2>3
<1>5. CASE Head(q).gvr[1] # n
  <2>1. \A k \in At(q, n) : k - 1 \in P
    BY <1>1, <1>5
  <2>2. P = {} => X = Version(n, v)
    BY <1>5, <2>1 DEF Leads
  <2>3. ASSUME NEW i \in P, \A k \in P : i <= k
        PROVE  /\ Tail(q)[i].action = "add" => X \subseteq {Tail(q)[i].gvr}
               /\ Tail(q)[i].action = "delete" => X = {Tail(q)[i].gvr}
    <3>1. i + 1 \in At(q, n) /\ \A k \in At(q, n) : i + 1 <= k
      BY <1>1, <2>1, <2>3
    <3>2. /\ q[i + 1].action = "add" => W \subseteq {q[i + 1].gvr}
          /\ q[i + 1].action = "delete" => W = {q[i + 1].gvr}
      BY <3>1 DEF Leads, First
    <3>3. QED
      BY <1>1, <1>5, <3>2
  <2>4. QED
    BY <1>3, <1>4, <2>2, <2>3 DEF Leads, First
<1>6. CASE Head(q).gvr[1] = n
  <2>1. 1 \in At(q, n) /\ \A k \in At(q, n) : 1 <= k
    BY <1>1, <1>6
  <2>2. X = IF Head(q).action = "add" THEN {Head(q).gvr} ELSE {}
    BY <1>1, <1>2, <1>6, <2>1 DEF Leads, First, Notices
  <2>3. P = {} => X = Version(n, v)
    <3>1. SUFFICES ASSUME P = {} PROVE X = Version(n, v)
      OBVIOUS
    <3>2. \A k \in At(q, n) : k <= 1
      BY <1>1, <3>1
    <3>3. /\ Head(q).action = "add" => v = Head(q).gvr[2]
          /\ Head(q).action = "delete" => v = Absent
      BY <1>1, <2>1, <3>2 DEF Leads, Final
    <3>4. Head(q).gvr = <<n, Head(q).gvr[2]>> /\ Head(q).gvr[2] # Absent
      BY <1>2, <1>6 DEF Notices, GVRs
    <3>5. Head(q).action \in {"add", "delete"}
      BY <1>2 DEF Notices
    <3>6. QED
      BY <2>2, <3>3, <3>4, <3>5 DEF Version
  <2>4. ASSUME NEW i \in P, \A k \in P : i <= k
        PROVE  /\ Tail(q)[i].action = "add" => X \subseteq {Tail(q)[i].gvr}
               /\ Tail(q)[i].action = "delete" => X = {Tail(q)[i].gvr}
    <3>1. i \in Nat \ {0} /\ i + 1 \in At(q, n)
      BY <1>1
    <3>2. 1 < i + 1 /\ \A k \in At(q, n) : k <= 1 \/ i + 1 <= k
      BY <1>1, <2>4, <3>1
    <3>3. /\ q[1].action = "add" => q[i + 1].gvr = q[1].gvr
          /\ q[1].action = "delete" => q[i + 1].action = "add"
      BY <2>1, <3>1, <3>2 DEF Leads, Alternates
    <3>4. Head(q).action \in {"add", "delete"}
      BY <1>2 DEF Notices
    <3>5. QED
      BY <1>1, <2>2, <3>3, <3>4
  <2>5. QED
    BY <1>3, <1>4, <2>3, <2>4 DEF Leads, First
<1>7. QED
  BY <1>5, <1>6

\* A notice of another resource at the end changes nothing.
LEMMA LeadsBeside ==
  ASSUME NEW q \in Seq(Notices), NEW c \in Notices, NEW n, c.gvr[1] # n, NEW W, NEW v,
         Leads(q, n, W, v)
  PROVE  Leads(Append(q, c), n, W, v)
<1>1. /\ Len(Append(q, c)) = Len(q) + 1 /\ Append(q, c)[Len(q) + 1] = c
      /\ \A i \in 1..Len(q) : Append(q, c)[i] = q[i]
  OBVIOUS
<1>2. At(Append(q, c), n) = At(q, n)
  BY <1>1 DEF At
<1>3. \A i \in At(q, n) : Append(q, c)[i] = q[i]
  BY <1>1 DEF At
<1>4. First(Append(q, c), n, W) /\ Final(Append(q, c), n, v)
  BY <1>2, <1>3 DEF Leads, First, Final
<1>5. Alternates(Append(q, c), n)
  <2> SUFFICES ASSUME NEW i \in At(q, n), NEW j \in At(q, n), i < j,
                      \A k \in At(q, n) : k <= i \/ j <= k
               PROVE  /\ Append(q, c)[i].action = "add" =>
                           Append(q, c)[j].gvr = Append(q, c)[i].gvr
                      /\ Append(q, c)[i].action = "delete" =>
                           Append(q, c)[j].action = "add"
    BY <1>2 DEF Alternates
  <2>1. /\ q[i].action = "add" => q[j].gvr = q[i].gvr
        /\ q[i].action = "delete" => q[j].action = "add"
    BY DEF Leads, Alternates
  <2>2. QED
    BY <1>3, <2>1
<1>6. QED
  BY <1>2, <1>4, <1>5 DEF Leads

\* A notice at the end leads on to its version, if it begins where the others led.
LEMMA LeadsFurther ==
  ASSUME NEW q \in Seq(Notices), NEW c \in Notices, NEW n, c.gvr[1] = n, NEW W,
         NEW v, NEW w, Leads(q, n, W, v),
         \/ c.action = "add" /\ v = Absent /\ w = c.gvr[2]
         \/ c.action = "delete" /\ v = c.gvr[2] /\ v # Absent /\ w = Absent
  PROVE  Leads(Append(q, c), n, W, w)
<1> DEFINE l == Len(q) + 1
           p == Append(q, c)
<1>1. /\ At(p, n) = At(q, n) \cup {l}
      /\ \A i \in At(q, n) : i \in Nat /\ i < l /\ p[i] = q[i] /\ q[i] \in Notices
      /\ l \in Nat /\ p[l] = c
  BY DEF At
<1>2. c.gvr = <<n, c.gvr[2]>>
  BY DEF Notices, GVRs
<1> HIDE DEF l, p
<1>3. Final(p, n, w)
  <2> SUFFICES ASSUME NEW i \in At(p, n), \A k \in At(p, n) : k <= i
               PROVE  /\ p[i].action = "add" => w = p[i].gvr[2]
                      /\ p[i].action = "delete" => w = Absent
    BY DEF Final
  <2>1. i = l
    BY <1>1
  <2>2. QED
    BY <1>1, <2>1
<1>4. First(p, n, W)
  <2> SUFFICES ASSUME NEW i \in At(p, n), \A k \in At(p, n) : i <= k
               PROVE  /\ p[i].action = "add" =>
                           W \subseteq {p[i].gvr}
                      /\ p[i].action = "delete" => W = {p[i].gvr}
    BY DEF First
  <2>1. CASE i = l
    <3>1. At(q, n) = {}
      <4>1. SUFFICES ASSUME NEW k \in At(q, n) PROVE FALSE
        OBVIOUS
      <4>2. k \in At(p, n) /\ k \in Nat /\ l \in Nat /\ k < l
        BY <1>1
      <4>3. l <= k
        BY <2>1, <4>2
      <4>4. QED
        BY <4>2, <4>3
    <3>2. W = Version(n, v)
      BY <3>1 DEF Leads
    <3>3. c.action = "add" => W \subseteq {c.gvr}
      BY <3>2 DEF Version
    <3>4. c.action = "delete" => W = {c.gvr}
      BY <1>2, <3>2 DEF Version
    <3>5. QED
      BY <1>1, <2>1, <3>3, <3>4
  <2>2. CASE i \in At(q, n)
    <3>1. \A k \in At(q, n) : i <= k
      BY <1>1
    <3>2. /\ q[i].action = "add" => W \subseteq {q[i].gvr}
          /\ q[i].action = "delete" => W = {q[i].gvr}
      BY <2>2, <3>1 DEF Leads, First
    <3>3. QED
      BY <1>1, <2>2, <3>2
  <2>3. QED
    BY <1>1, <2>1, <2>2
<1>5. Alternates(p, n)
  <2> SUFFICES ASSUME NEW i \in At(p, n), NEW j \in At(p, n), i < j,
                      \A k \in At(p, n) : k <= i \/ j <= k
               PROVE  /\ p[i].action = "add" =>
                           p[j].gvr = p[i].gvr
                      /\ p[i].action = "delete" =>
                           p[j].action = "add"
    BY DEF Alternates
  <2>1. i \in At(q, n)
    BY <1>1
  <2>2. CASE j \in At(q, n)
    <3>1. \A k \in At(q, n) : k <= i \/ j <= k
      BY <1>1
    <3>2. /\ q[i].action = "add" => q[j].gvr = q[i].gvr
          /\ q[i].action = "delete" => q[j].action = "add"
      BY <2>1, <2>2, <3>1 DEF Leads, Alternates
    <3>3. QED
      BY <1>1, <2>1, <2>2, <3>2
  <2>3. CASE j = l
    <3>1. ASSUME NEW k \in At(q, n) PROVE k <= i
      <4>1. k \in At(p, n) /\ k \in Nat /\ l \in Nat /\ k < l
        BY <1>1
      <4>2. k <= i \/ l <= k
        BY <2>3, <4>1
      <4>3. QED
        BY <4>1, <4>2
    <3>2. /\ q[i].action = "add" => v = q[i].gvr[2]
          /\ q[i].action = "delete" => v = Absent
      BY <2>1, <3>1 DEF Leads, Final
    <3>3. q[i].gvr = <<n, q[i].gvr[2]>> /\ q[i].gvr[2] # Absent
      <4>1. q[i].gvr \in GVRs /\ q[i].gvr[1] = n
        BY <1>1, <2>1 DEF At, Notices
      <4>2. QED
        BY <4>1, ConstantsOK DEF GVRs
    <3>4. QED
      BY <1>1, <1>2, <2>1, <2>3, <3>2, <3>3
  <2>4. QED
    BY <1>1, <2>2, <2>3
<1>6. At(p, n) # {}
  BY <1>1
<1>7. QED
  BY <1>3, <1>4, <1>5, <1>6 DEF Leads, p

\* Before the first notices nothing has been named.
Leading ==
  /\ crdListed =>
       \A n \in Names \ (BuiltIn \cup escaped) : Leads(notices, n, Kept(n), crdStore[n])
  /\ ~crdListed => \A g \in activeInformers : g[1] \notin BuiltIn => g \in unnamed

LEMMA LeadingKept ==
  ASSUME Leading, UNCHANGED <<activeInformers, crdInformer, unnamed, escaped>>
  PROVE  Leading'
BY DEF Leading, Kept, Of, crdInformer

\* The first list of the CRDs gives each one notice.
LEMMA ListingLeads ==
  ASSUME TInv, Leading, CRDsListed
  PROVE  Leading'
<1>1. crdListed' /\ UNCHANGED <<activeInformers, unnamed, escaped>>
  BY DEF CRDsListed, history
<1> SUFFICES ASSUME NEW n \in Names \ (BuiltIn \cup escaped)
             PROVE  Leads(notices', n, Kept(n), crdStore'[n])
  BY <1>1 DEF Leading, Kept, Of
<1>2. /\ \A i \in At(notices', n) :
           notices'[i].action = "add" /\ n \in Defined /\ notices'[i].gvr = <<n, crd[n]>>
      /\ At(notices', n) = {} => n \notin Defined
  <2>1. \A i \in 1..Len(notices') :
          /\ notices'[i].action = "add"
          /\ notices'[i].gvr[1] \in Defined
          /\ notices'[i].gvr = <<notices'[i].gvr[1], crd[notices'[i].gvr[1]]>>
    BY Listing
  <2>2. ASSUME At(notices', n) = {}, n \in Defined PROVE FALSE
    <3>1. PICK i \in DOMAIN notices' : notices'[i].gvr[1] = n
      BY <2>2, Listing
    <3>2. i \in 1..Len(notices')
      BY <3>1, Listing
    <3>3. QED
      BY <2>2, <3>1, <3>2 DEF At
  <2>3. QED
    BY <2>1, <2>2 DEF At
<1>3. Kept(n) = {}
  BY DEF Leading, Kept, Of, CRDsListed
<1>4. crdStore'[n] = IF n \in Defined THEN crd[n] ELSE Absent
  BY DEF CRDsListed
<1>5. At(notices', n) = {} => Kept(n) = Version(n, crdStore'[n])
  BY <1>2, <1>3, <1>4 DEF Version
<1>6. First(notices', n, Kept(n)) /\ Final(notices', n, crdStore'[n])
  BY <1>2, <1>3, <1>4 DEF First, Final
<1>7. Alternates(notices', n)
  BY <1>2 DEF Alternates
<1>8. QED
  BY <1>5, <1>6, <1>7 DEF Leads

LEMMA SeenLeads ==
  ASSUME TInv, Leading, NEW n \in Names, CRDSeen(n)
  PROVE  Leading'
<1> SUFFICES ASSUME NEW m \in Names \ (BuiltIn \cup escaped')
             PROVE  Leads(notices', m, Kept(m), crdStore'[m])
  BY DEF Leading, Kept, Of, CRDSeen
<1>1. escaped \subseteq escaped' /\ crdListed /\ notices \in Seq(Notices)
  BY DEF CRDSeen, TInv, TypeOK
<1>2. Leads(notices, m, Kept(m), crdStore[m])
  BY <1>1 DEF Leading
<1>3. /\ crd[n] \in Versions \cup {Absent} /\ crdStore[n] \in Versions \cup {Absent}
      /\ crdStore[n] # crd[n] /\ crdStore' = [crdStore EXCEPT ![n] = crd[n]]
      /\ crdStore'[n] = crd[n] /\ (m # n => crdStore'[m] = crdStore[m])
  BY DEF TInv, TypeOK, ClusterOK, CRDSeen
<1>4. CASE crdStore[n] = Absent /\ Notify("add", n, crd[n])
  <2> DEFINE c == [action |-> "add", gvr |-> <<n, crd[n]>>]
  <2>1. c \in Notices /\ c.action = "add" /\ c.gvr[1] = n /\ c.gvr[2] = crd[n]
    BY <1>3, <1>4 DEF Notices, GVRs
  <2>2. notices' = Append(notices, c)
    BY <1>4 DEF Notify
  <2> HIDE DEF c
  <2>3. CASE m = n
    BY <1>1, <1>2, <1>3, <1>4, <2>1, <2>2, <2>3, LeadsFurther
  <2>4. CASE m # n
    BY <1>1, <1>2, <1>3, <2>1, <2>2, <2>4, LeadsBeside
  <2>5. QED
    BY <2>3, <2>4
<1>5. CASE crd[n] = Absent /\ Notify("delete", n, crdStore[n])
  <2> DEFINE c == [action |-> "delete", gvr |-> <<n, crdStore[n]>>]
  <2>1. c \in Notices /\ c.action = "delete" /\ c.gvr[1] = n /\ c.gvr[2] = crdStore[n]
    BY <1>3, <1>5 DEF Notices, GVRs
  <2>2. notices' = Append(notices, c)
    BY <1>5 DEF Notify
  <2> HIDE DEF c
  <2>3. CASE m = n
    BY <1>1, <1>2, <1>3, <1>5, <2>1, <2>2, <2>3, LeadsFurther
  <2>4. CASE m # n
    BY <1>1, <1>2, <1>3, <2>1, <2>2, <2>4, LeadsBeside
  <2>5. QED
    BY <2>3, <2>4
<1>6. CASE escaped' = escaped \cup {n} /\ UNCHANGED notices
  BY <1>2, <1>3, <1>6
<1>7. QED
  BY <1>4, <1>5, <1>6 DEF CRDSeen

LEMMA HandlerLeads ==
  ASSUME TInv, Leading, onCRDAdd \/ onCRDDelete
  PROVE  Leading'
<1>1. /\ notices \in Seq(Notices) /\ notices # <<>> /\ notices' = Tail(notices)
      /\ UNCHANGED <<crdListed, crdStore, escaped>> /\ crdListed
  BY DEF TInv, TypeOK, OffIsEmpty, onCRDAdd, onCRDDelete, Handle
<1>2. Head(notices) \in Notices
  BY <1>1
<1>3. /\ activeInformers' = IF Head(notices).action = "add"
                              THEN activeInformers \cup {Head(notices).gvr}
                              ELSE activeInformers \ {Head(notices).gvr}
      /\ unnamed' = unnamed \ {Head(notices).gvr}
  BY DEF onCRDAdd, onCRDDelete, Handle
<1> DEFINE W(n) == {g \in activeInformers' : g[1] = n} \ unnamed'
<1>4. ASSUME NEW n
      PROVE  /\ Head(notices).gvr[1] # n => W(n) = Kept(n)
             /\ Head(notices).gvr[1] = n =>
                  W(n) = IF Head(notices).action = "add" THEN Kept(n) \cup {Head(notices).gvr}
                                                         ELSE Kept(n) \ {Head(notices).gvr}
  BY <1>3 DEF Kept, Of
<1>5. ASSUME NEW n \in Names \ (BuiltIn \cup escaped)
      PROVE  Leads(Tail(notices), n, W(n), crdStore[n])
  <2>1. Leads(notices, n, Kept(n), crdStore[n])
    BY <1>1 DEF Leading
  <2> HIDE DEF W
  <2>2. QED
    BY <1>1, <1>4, <2>1, ConstantsOK, LeadsOn
<1>6. QED
  BY <1>1, <1>5 DEF Leading, Kept, Of

LEMMA LeadingStep ==
  ASSUME TInv, Leading, [Next]_vars
  PROVE  Leading'
<1>1. CASE UNCHANGED vars
  BY <1>1, LeadingKept DEF vars, history
<1>2. CASE Cluster
  BY <1>2, LeadingKept DEF Cluster, CreateObject, DeleteObject, InstallCRD, RemoveCRD, Quiet, history
<1>3. CASE Discover \/ StopWatcher
  BY <1>3 DEF Discover, StopWatcher, Leading, TInv, OffIsEmpty, crdInformer
<1>4. CASE StartInformers
  BY <1>4, LeadingKept DEF StartInformers, history
<1>5. CASE InitialSync \/ PeriodicResync
  BY <1>5, LeadingKept DEF InitialSync, PeriodicResync, history
<1>6. ASSUME NEW g \in GVRs, Reflect(g) PROVE Leading'
  BY <1>6, LeadingKept DEF Reflect, history
<1>7. QED
  BY <1>1, <1>2, <1>3, <1>4, <1>5, <1>6, ListingLeads, SeenLeads, HandlerLeads DEF Next

\* Once the notices are handled, activeInformers has for every CRD that the CRD informer
\* knows the version picked, and else of a custom resource only what the discovery found
\* and no notice has named (discoverResources, onCRDAdd, onCRDDelete and gvrFromCRD,
\* resourcesync_controller.go), for every set of versions that may be served.
THEOREM ActiveInformersFollow == Safety => []MapFollows
<1>1. Init => TInv /\ Leading
  <2>1. Init => Leading
    BY DEF Init, Leading
  <2>2. QED
    BY <2>1, TypeInit
<1>2. TInv /\ Leading /\ [Next]_vars => TInv' /\ Leading'
  BY TypeStep, LeadingStep
<1>3. Leading => MapFollows
  <2> SUFFICES ASSUME Leading, crdListed, notices = <<>>,
                      NEW n \in Names \ (BuiltIn \cup escaped)
               PROVE  Kept(n) = Version(n, crdStore[n])
    BY DEF MapFollows, Kept, Version
  <2>1. At(notices, n) = {}
    BY DEF At
  <2>2. QED
    BY <2>1 DEF Leading, Leads
<1>4. QED
  BY <1>1, <1>2, <1>3, PTL DEF Safety
=============================================================================
