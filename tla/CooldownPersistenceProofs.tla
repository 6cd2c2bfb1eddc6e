---------------------- MODULE CooldownPersistenceProofs ----------------------
(***************************************************************************)
(* A cooldown that was persisted and read back is honoured, and a clean    *)
(* stop persists the cooldowns, for all keys, policies, durations and      *)
(* bounds.                                                                 *)
(***************************************************************************)
EXTENDS CooldownPersistence, TLAPS

Starting == {"loading", "restoring"}
Live     == {"up"} \cup Ending

Typed ==
  /\ now \in Nat
  /\ process \in {"none"} \cup Starting \cup Live
  /\ configMap \in [Keys -> Nat]
  /\ cooldownTracking \in [Keys -> Nat]
  /\ loaded \in [Keys -> Nat]
  /\ sync \in [Callers -> [entries : [Keys -> Nat], todo : SUBSET Policies,
                           missed : SUBSET Policies, on : BOOLEAN]]

\* A process that starts runs no sync, and Load has not read anything before.
StartsQuietly ==
  /\ process = "loading" => restored = {}
  /\ process \in Starting => periodic = "off" /\ \A c \in Callers : sync[c] = NoSync

\* What m has for the keys that were read back is no less than the ConfigMap's.
Covers(m) ==
  \A k \in Keys : PolicyOf[k] \in restored /\ configMap[k] > now => m[k] >= configMap[k]

\* What Load returned covers the ConfigMaps until it is restored.
LoadedCovers == process = "restoring" => Covers(loaded)

\* A sync writes nothing that is later than what memory has: entries only grow while
\* a sync is under way.
SyncsNotAhead == \A c \in Callers, k \in Keys : sync[c].entries[k] <= cooldownTracking[k]

MemoryCovers == process \in Live => Covers(cooldownTracking)

IInv == Typed /\ StartsQuietly /\ LoadedCovers /\ SyncsNotAhead /\ MemoryCovers

LEMMA InvInit == Init => IInv
<1> SUFFICES ASSUME Init PROVE IInv
  OBVIOUS
<1>1. Typed
  BY DEF Init, Typed, None, NoSync
<1>2. StartsQuietly /\ LoadedCovers /\ MemoryCovers
  BY DEF Init, StartsQuietly, LoadedCovers, MemoryCovers, Starting, Live, Ending
<1>3. SyncsNotAhead
  <2>1. \A c \in Callers : sync[c].entries = None
    BY DEF Init, NoSync
  <2>2. \A k \in Keys : None[k] = 0 /\ cooldownTracking[k] = 0
    BY DEF Init, None
  <2>3. \A c \in Callers, k \in Keys : sync[c].entries[k] = 0 /\ cooldownTracking[k] = 0
    BY <2>1, <2>2
  <2>4. QED
    BY <2>3, SMT DEF SyncsNotAhead
<1>4. QED
  BY <1>1, <1>2, <1>3 DEF IInv
-----------------------------------------------------------------------------
(* One lemma per kind of step.                                              *)

\* Time passes, or nothing that matters happens: what is covered stays covered.
LEMMA QuietStepKeeps ==
  ASSUME IInv, now' \in Nat, now' >= now,
         UNCHANGED <<configMap, process, cooldownTracking, loaded, restored, periodic, sync>>
  PROVE  IInv'
<1>1. Typed' /\ StartsQuietly' /\ SyncsNotAhead'
  BY DEF IInv, Typed, StartsQuietly, SyncsNotAhead
<1>2. \A k \in Keys : configMap'[k] > now' => configMap[k] > now
  BY DEF IInv, Typed
<1>3. LoadedCovers' /\ MemoryCovers'
  BY <1>2 DEF IInv, LoadedCovers, MemoryCovers, Covers
<1>4. QED
  BY <1>1, <1>3 DEF IInv

\* A process starts or ends: all of its memory is gone.
LEMMA MemoryGoneKeeps ==
  ASSUME IInv, process' \in {"none", "loading"}, cooldownTracking' = None, loaded' = None,
         restored' = {}, periodic' = "off", sync' = [c \in Callers |-> NoSync],
         UNCHANGED <<now, configMap>>
  PROVE  IInv'
<1>1. Typed'
  BY DEF IInv, Typed, None, NoSync, Starting
<1>2. StartsQuietly' /\ LoadedCovers' /\ MemoryCovers'
  BY DEF StartsQuietly, LoadedCovers, MemoryCovers, Starting, Live, Ending
<1>3. SyncsNotAhead'
  BY DEF SyncsNotAhead, NoSync, None
<1>4. QED
  BY <1>1, <1>2, <1>3 DEF IInv

\* The ConfigMap of a deleted policy goes with it.
LEMMA SetPolicyKeeps ==
  ASSUME IInv, NEW p \in Policies, NEW s, SetPolicy(p, s)
  PROVE  IInv'
<1>1. /\ UNCHANGED <<now, process, cooldownTracking, loaded, restored, periodic, sync>>
      /\ configMap' = [k \in Keys |-> IF PolicyOf[k] = p /\ s = "deleted" THEN 0 ELSE configMap[k]]
  BY DEF SetPolicy, memory
<1>2. Typed'
  BY <1>1 DEF IInv, Typed
<1>3. StartsQuietly' /\ SyncsNotAhead'
  BY <1>1 DEF IInv, StartsQuietly, SyncsNotAhead
<1>4. \A k \in Keys : configMap'[k] > now' => configMap'[k] = configMap[k] /\ configMap[k] > now
  BY <1>1 DEF IInv, Typed
<1>5. LoadedCovers' /\ MemoryCovers'
  BY <1>1, <1>4 DEF IInv, LoadedCovers, MemoryCovers, Covers
<1>6. QED
  BY <1>2, <1>3, <1>5 DEF IInv

LEMMA LoadKeeps ==
  ASSUME IInv, NEW failed \in SUBSET Policies, Load(failed)
  PROVE  IInv'
<1>1. /\ UNCHANGED <<now, configMap, cooldownTracking, periodic, sync>>
      /\ process = "loading" /\ process' = "restoring"
      /\ loaded' = [k \in Keys |-> IF PolicyOf[k] \in restored' /\ configMap[k] >= now
                                   THEN configMap[k] ELSE 0]
  BY DEF Load, cluster
<1>2. Typed'
  BY <1>1 DEF IInv, Typed, Starting
<1>3. StartsQuietly' /\ SyncsNotAhead' /\ MemoryCovers'
  BY <1>1 DEF IInv, StartsQuietly, SyncsNotAhead, MemoryCovers, Starting, Live, Ending
<1>4. LoadedCovers'
  BY <1>1 DEF IInv, Typed, LoadedCovers, Covers
<1>5. QED
  BY <1>2, <1>3, <1>4 DEF IInv

\* Without a load nothing was read back.
LEMMA SkipLoadKeeps ==
  ASSUME IInv, SkipLoad
  PROVE  IInv'
<1>1. /\ UNCHANGED <<now, configMap, cooldownTracking, loaded, restored, periodic, sync>>
      /\ process = "loading" /\ process' = "up" /\ restored = {}
  BY DEF SkipLoad, cluster, memory, IInv, StartsQuietly
<1>2. Typed' /\ SyncsNotAhead'
  BY <1>1 DEF IInv, Typed, SyncsNotAhead, Live
<1>3. StartsQuietly' /\ LoadedCovers' /\ MemoryCovers'
  BY <1>1 DEF StartsQuietly, LoadedCovers, MemoryCovers, Covers, Starting
<1>4. QED
  BY <1>2, <1>3 DEF IInv

\* No sync is under way that could write what memory loses here.
LEMMA RestoreKeeps ==
  ASSUME IInv, Restore
  PROVE  IInv'
<1>1. /\ UNCHANGED <<now, configMap, restored, sync>>
      /\ process = "restoring" /\ process' = "up" /\ loaded' = None
      /\ cooldownTracking' = [k \in Keys |-> IF loaded[k] # 0 THEN loaded[k]
                                                              ELSE cooldownTracking[k]]
  BY DEF Restore, cluster
<1>2. Typed'
  BY <1>1 DEF IInv, Typed, None, Live
<1>3. SyncsNotAhead'
  <2>1. \A c \in Callers, k \in Keys : sync[c].entries[k] = 0
    BY <1>1 DEF IInv, StartsQuietly, Starting, NoSync, None
  <2>2. QED
    BY <1>1, <1>2, <2>1 DEF SyncsNotAhead, Typed
<1>4. StartsQuietly' /\ LoadedCovers'
  BY <1>1 DEF StartsQuietly, LoadedCovers, Starting
<1>5. MemoryCovers'
  <2> SUFFICES ASSUME NEW k \in Keys, PolicyOf[k] \in restored, configMap[k] > now
               PROVE  cooldownTracking'[k] >= configMap[k]
    BY <1>1 DEF MemoryCovers, Covers
  <2>1. loaded[k] >= configMap[k]
    BY <1>1 DEF IInv, LoadedCovers, Covers
  <2>2. loaded[k] # 0
    BY <2>1 DEF IInv, Typed
  <2>3. QED
    BY <1>1, <2>1, <2>2
<1>6. QED
  BY <1>2, <1>3, <1>4, <1>5 DEF IInv

\* A cooldown starts when the old one is over: entries grow.
LEMMA RemediateKeeps ==
  ASSUME IInv, NEW k \in Keys, Remediate(k)
  PROVE  IInv'
<1>1. /\ UNCHANGED <<now, configMap, process, loaded, restored, periodic, sync>>
      /\ cooldownTracking[k] <= now
      /\ cooldownTracking' = [cooldownTracking EXCEPT ![k] = now + Cooldown[PolicyOf[k]]]
  BY DEF Remediate, cluster
<1>2. Cooldown[PolicyOf[k]] \in Nat
  BY ConstantsOK
<1>3. Typed'
  BY <1>1, <1>2 DEF IInv, Typed
<1>4. \A x \in Keys : cooldownTracking'[x] >= cooldownTracking[x]
  BY <1>1, <1>2 DEF IInv, Typed
<1>5. SyncsNotAhead'
  <2> SUFFICES ASSUME NEW c \in Callers, NEW x \in Keys
               PROVE  sync[c].entries[x] <= cooldownTracking'[x]
    BY <1>1 DEF SyncsNotAhead
  <2>1. sync[c].entries[x] <= cooldownTracking[x]
    BY DEF IInv, SyncsNotAhead
  <2>2. sync[c].entries[x] \in Nat /\ cooldownTracking[x] \in Nat /\ cooldownTracking'[x] \in Nat
    BY <1>3 DEF IInv, Typed
  <2>3. QED
    BY <1>4, <2>1, <2>2
<1>6. StartsQuietly' /\ LoadedCovers'
  BY <1>1 DEF IInv, StartsQuietly, LoadedCovers, Covers
<1>7. MemoryCovers'
  <2> SUFFICES ASSUME process \in Live, NEW x \in Keys, PolicyOf[x] \in restored,
                      configMap[x] > now
               PROVE  cooldownTracking'[x] >= configMap[x]
    BY <1>1 DEF MemoryCovers, Covers
  <2>1. cooldownTracking[x] >= configMap[x]
    BY DEF IInv, MemoryCovers, Covers
  <2>2. configMap[x] \in Nat /\ cooldownTracking[x] \in Nat /\ cooldownTracking'[x] \in Nat
    BY <1>3 DEF IInv, Typed
  <2>3. QED
    BY <1>4, <2>1, <2>2
<1>8. QED
  BY <1>3, <1>5, <1>6, <1>7 DEF IInv

\* A sync takes its snapshot.
LEMMA BeginSyncKeeps ==
  ASSUME IInv, NEW c \in Callers, BeginSync(c), process \notin Starting,
         process' \notin Starting, process' \in {"none"} \cup Live,
         process' \in Live => process \in Live,
         UNCHANGED <<now, configMap, cooldownTracking, loaded, restored>>
  PROVE  IInv'
<1>1. LongEnough \in [Keys -> Nat] /\ \A k \in Keys : LongEnough[k] <= cooldownTracking[k]
  BY DEF IInv, Typed, LongEnough
<1>2. PICK todo \in SUBSET Policies :
        sync' = [sync EXCEPT ![c] = [entries |-> LongEnough, missed |-> {}, on |-> TRUE,
                                     todo |-> todo]]
  <2>1. {PolicyOf[k] : k \in {x \in Keys : LongEnough[x] # 0}} \in SUBSET Policies
    BY ConstantsOK
  <2>2. QED
    BY <2>1 DEF BeginSync
<1>3. Typed'
  BY <1>1, <1>2 DEF IInv, Typed
<1>4. SyncsNotAhead'
  BY <1>1, <1>2 DEF IInv, Typed, SyncsNotAhead
<1>5. StartsQuietly' /\ LoadedCovers' /\ MemoryCovers'
  BY DEF IInv, StartsQuietly, LoadedCovers, MemoryCovers, Covers, Starting
<1>6. QED
  BY <1>3, <1>4, <1>5 DEF IInv

\* A sync writes a ConfigMap: never more than memory has.
LEMMA WritePolicyKeeps ==
  ASSUME IInv, NEW c \in Callers, NEW p \in Policies, WritePolicy(c, p)
  PROVE  IInv'
<1>1. /\ UNCHANGED <<now, process, cooldownTracking, loaded, restored, periodic>>
      /\ p \in sync[c].todo /\ sync' = [sync EXCEPT ![c].todo = @ \ {p}]
      /\ configMap' = [k \in Keys |-> IF PolicyOf[k] = p THEN sync[c].entries[k]
                                                         ELSE configMap[k]]
  BY DEF WritePolicy, memory
<1>2. process \notin Starting
  BY <1>1 DEF IInv, StartsQuietly, NoSync
<1>3. Typed'
  BY <1>1 DEF IInv, Typed
<1>4. StartsQuietly' /\ LoadedCovers'
  BY <1>1, <1>2 DEF StartsQuietly, LoadedCovers, Starting
<1>5. SyncsNotAhead'
  BY <1>1 DEF IInv, Typed, SyncsNotAhead
<1>6. MemoryCovers'
  <2> SUFFICES ASSUME process \in Live, NEW k \in Keys, PolicyOf[k] \in restored,
                      configMap'[k] > now
               PROVE  cooldownTracking[k] >= configMap'[k]
    BY <1>1 DEF MemoryCovers, Covers
  <2>1. CASE PolicyOf[k] = p
    <3>1. configMap'[k] = sync[c].entries[k] /\ sync[c].entries[k] <= cooldownTracking[k]
      BY <1>1, <2>1 DEF IInv, SyncsNotAhead
    <3>2. sync[c].entries[k] \in Nat /\ cooldownTracking[k] \in Nat
      BY DEF IInv, Typed
    <3>3. QED
      BY <3>1, <3>2
  <2>2. CASE PolicyOf[k] # p
    BY <1>1, <2>2 DEF IInv, MemoryCovers, Covers
  <2>3. QED
    BY <2>1, <2>2
<1>7. QED
  BY <1>3, <1>4, <1>5, <1>6 DEF IInv

LEMMA MissPolicyKeeps ==
  ASSUME IInv, NEW c \in Callers, NEW p \in Policies, MissPolicy(c, p)
  PROVE  IInv'
<1>1. /\ UNCHANGED <<now, configMap, process, cooldownTracking, loaded, restored, periodic>>
      /\ p \in sync[c].todo
      /\ sync' = [sync EXCEPT ![c].todo = @ \ {p}, ![c].missed = @ \cup {p}]
  BY DEF MissPolicy, memory, cluster
<1>2. process \notin Starting
  BY <1>1 DEF IInv, StartsQuietly, NoSync
<1>3. Typed'
  BY <1>1 DEF IInv, Typed
<1>4. SyncsNotAhead'
  BY <1>1 DEF IInv, Typed, SyncsNotAhead
<1>5. StartsQuietly' /\ LoadedCovers' /\ MemoryCovers'
  BY <1>1, <1>2 DEF IInv, StartsQuietly, LoadedCovers, MemoryCovers, Covers, Starting
<1>6. QED
  BY <1>3, <1>4, <1>5 DEF IInv

LEMMA EndSyncKeeps ==
  ASSUME IInv, NEW c \in Callers, EndSync(c)
  PROVE  IInv'
<1>1. /\ UNCHANGED <<now, configMap, cooldownTracking, loaded, restored>>
      /\ sync[c].on /\ sync' = [sync EXCEPT ![c] = NoSync]
      /\ process' \in {process, "none"}
  BY DEF EndSync, cluster
<1>2. process \notin Starting
  BY <1>1 DEF IInv, StartsQuietly, NoSync
<1>3. Typed'
  BY <1>1 DEF IInv, Typed, NoSync, None
<1>4. SyncsNotAhead'
  <2>1. \A k \in Keys : 0 <= cooldownTracking[k]
    BY DEF IInv, Typed
  <2>2. QED
    BY <1>1, <2>1 DEF IInv, Typed, SyncsNotAhead, NoSync, None
<1>5. StartsQuietly' /\ LoadedCovers' /\ MemoryCovers'
  BY <1>1, <1>2 DEF IInv, StartsQuietly, LoadedCovers, MemoryCovers, Covers, Starting, Live, Ending
<1>6. QED
  BY <1>3, <1>4, <1>5 DEF IInv

\* The steps of Stop that neither begin nor end a sync, and of the periodic goroutine.
LEMMA StopStepKeeps ==
  ASSUME IInv, process' \in {process, "none"} \/ (process \in Live /\ process' \in Live),
         periodic' = periodic \/ periodic = "select",
         UNCHANGED <<now, configMap, cooldownTracking, loaded, restored, sync>>
  PROVE  IInv'
<1>1. Typed' /\ SyncsNotAhead'
  BY DEF IInv, Typed, SyncsNotAhead
<1>2. StartsQuietly' /\ LoadedCovers' /\ MemoryCovers'
  BY DEF IInv, StartsQuietly, LoadedCovers, MemoryCovers, Covers, Starting, Live, Ending
<1>3. QED
  BY <1>1, <1>2 DEF IInv
-----------------------------------------------------------------------------
LEMMA InvNext == IInv /\ [Next]_vars => IInv'
<1> SUFFICES ASSUME IInv, [Next]_vars PROVE IInv'
  OBVIOUS
<1>1. CASE Tick \/ Shutdown \/ UNCHANGED vars
  <2>1. /\ UNCHANGED <<configMap, process, cooldownTracking, loaded, restored, periodic, sync>>
        /\ now' = now \/ now' = now + 1
    BY <1>1 DEF Tick, Shutdown, vars, cluster, memory
  <2>2. now' \in Nat /\ now' >= now
    BY <2>1 DEF IInv, Typed
  <2>3. QED
    BY <2>1, <2>2, QuietStepKeeps
<1>2. CASE Start \/ Crash
  BY <1>2, MemoryGoneKeeps DEF Start, Crash, cluster
<1>3. CASE \E p \in Policies, s \in {"on", "off", "deleted"} : SetPolicy(p, s)
  BY <1>3, SetPolicyKeeps
<1>4. CASE \E failed \in SUBSET Policies : Load(failed)
  BY <1>4, LoadKeeps
<1>5. CASE SkipLoad \/ Restore
  BY <1>5, SkipLoadKeeps, RestoreKeeps
<1>6. CASE \E k \in Keys : Remediate(k)
  BY <1>6, RemediateKeeps
<1>7. CASE PeriodicSync
  <2>1. process \notin Starting
    BY <1>7 DEF PeriodicSync, IInv, StartsQuietly
  <2>2. process \in {"none"} \cup Live
    BY <2>1 DEF IInv, Typed
  <2>3. /\ BeginSync("periodic") /\ process' = process
        /\ UNCHANGED <<now, configMap, cooldownTracking, loaded, restored>>
    BY <1>7 DEF PeriodicSync, cluster, memory
  <2>4. "periodic" \in Callers
    BY DEF Callers
  <2>5. QED
    BY <2>1, <2>2, <2>3, <2>4, BeginSyncKeeps
<1>8. CASE PeriodicEnds \/ Stop \/ StopMarks
  <2>1. UNCHANGED <<now, configMap, cooldownTracking, loaded, restored, sync>>
    BY <1>8 DEF PeriodicEnds, Stop, StopMarks, cluster, memory
  <2>2. /\ process' \in {process, "none"} \/ (process \in Live /\ process' \in Live)
        /\ periodic' = periodic \/ periodic = "select"
    BY <1>8 DEF PeriodicEnds, Stop, StopMarks, Live, Ending
  <2>3. QED
    BY <2>1, <2>2, StopStepKeeps
<1>9. CASE FinalSync
  <2>1. CASE dirtyEntries = {}
    <3>1. /\ UNCHANGED <<now, configMap, cooldownTracking, loaded, restored, sync, periodic>>
          /\ process' = "none"
      BY <1>9, <2>1 DEF FinalSync, cluster, memory
    <3>2. QED
      BY <3>1, StopStepKeeps
  <2>2. CASE dirtyEntries # {}
    <3>1. /\ BeginSync("Stop") /\ process = "marked" /\ process' = "final"
          /\ UNCHANGED <<now, configMap, cooldownTracking, loaded, restored>>
      BY <1>9, <2>2 DEF FinalSync, cluster, memory
    <3>2. QED
      BY <3>1, BeginSyncKeeps DEF Callers, Starting, Live, Ending
  <2>3. QED
    BY <2>1, <2>2
<1>10. CASE \E c \in Callers : SyncGoesOn(c)
  BY <1>10, WritePolicyKeeps, MissPolicyKeeps, EndSyncKeeps DEF SyncGoesOn
<1>11. QED
  BY <1>1, <1>2, <1>3, <1>4, <1>5, <1>6, <1>7, <1>8, <1>9, <1>10 DEF Next, Stopping, Callers

\* Whatever crashes, conflicts and overlaps, the reconciler of a process that has
\* restored its cooldowns never lets an event through that a ConfigMap it has read
\* still forbids.
THEOREM PersistedMeansHonoured == Spec => []HonouredOncePersisted
<1>1. IInv => HonouredOncePersisted
  BY DEF IInv, MemoryCovers, Covers, Live, HonouredOncePersisted
<1>2. QED
  BY <1>1, InvInit, InvNext, PTL DEF Spec
-----------------------------------------------------------------------------
(* Types, and the life of a sync.                                           *)

Plain ==
  /\ now \in 0..MaxTime /\ starts \in 0..MaxStarts
  /\ policy \in [Policies -> {"on", "off", "deleted"}]
  /\ ctxDone \in BOOLEAN /\ timedOut \in BOOLEAN
  /\ restored \subseteq Policies
  /\ dirtyEntries \subseteq {k \in Keys : cooldownTracking[k] # 0}

\* A caller has a sync in its phase for it, and no other.
SyncInPhase ==
  /\ periodic \in {"off", "select", "sync", "ended"}
  /\ periodic = "sync" => sync["periodic"].on
  /\ periodic # "sync" => sync["periodic"] = NoSync
  /\ process = "final" => sync["Stop"].on
  /\ process # "final" => sync["Stop"] = NoSync

TInv == IInv /\ Plain /\ SyncInPhase

LEMMA TypesInit == Init => Plain /\ SyncInPhase
<1> SUFFICES ASSUME Init PROVE Plain /\ SyncInPhase
  OBVIOUS
<1>1. policy \in [Policies -> {"on", "off", "deleted"}]
  BY DEF Init
<1>2. now \in 0..MaxTime /\ starts \in 0..MaxStarts
  BY ConstantsOK DEF Init
<1>3. ctxDone \in BOOLEAN /\ timedOut \in BOOLEAN /\ restored = {} /\ dirtyEntries = {}
  BY DEF Init
<1>4. Plain
  BY <1>1, <1>2, <1>3 DEF Plain
<1>5. sync["periodic"] = NoSync /\ sync["Stop"] = NoSync
  BY DEF Init, Callers
<1>6. SyncInPhase
  BY <1>5 DEF Init, SyncInPhase
<1>7. QED
  BY <1>4, <1>6

LEMMA PlainNext == IInv /\ Plain /\ [Next]_vars => Plain'
<1> SUFFICES ASSUME IInv, Plain, [Next]_vars PROVE Plain'
  OBVIOUS
<1> USE DEF cluster, memory
<1>1. CASE UNCHANGED <<now, policy, starts, ctxDone, timedOut, restored, cooldownTracking>>
           /\ dirtyEntries' \subseteq dirtyEntries
  BY <1>1 DEF Plain
<1>2. CASE Tick \/ Start \/ Crash \/ Shutdown
  <2>1. CASE Tick
    BY <2>1, ConstantsOK DEF Tick, Plain
  <2>2. CASE Start
    <3>1. now' \in 0..MaxTime /\ starts' \in 0..MaxStarts
      BY <2>2, ConstantsOK DEF Start, Plain
    <3>2. ctxDone' \in BOOLEAN /\ timedOut' \in BOOLEAN /\ restored' = {} /\ dirtyEntries' = {}
      BY <2>2 DEF Start
    <3>3. QED
      BY <2>2, <3>1, <3>2 DEF Start, Plain
  <2>3. CASE Crash \/ Shutdown
    BY <2>3 DEF Crash, Shutdown, Plain
  <2>4. QED
    BY <1>2, <2>1, <2>2, <2>3
<1>3. CASE \E p \in Policies, s \in {"on", "off", "deleted"} : SetPolicy(p, s)
  BY <1>3 DEF SetPolicy, Plain
<1>4. CASE (\E failed \in SUBSET Policies : Load(failed)) \/ SkipLoad
  BY <1>4 DEF Load, SkipLoad, Plain
<1>5. CASE Restore
  BY <1>5 DEF Restore, Plain
<1>6. CASE \E k \in Keys : Remediate(k)
  <2>1. PICK k \in Keys : Remediate(k)
    BY <1>6
  <2>2. Cooldown[PolicyOf[k]] \in Nat \ {0} /\ now \in Nat
    BY ConstantsOK DEF IInv, Typed
  <2>3. /\ cooldownTracking' = [cooldownTracking EXCEPT ![k] = now + Cooldown[PolicyOf[k]]]
        /\ dirtyEntries' \subseteq dirtyEntries \cup {k}
        /\ UNCHANGED <<now, policy, starts, ctxDone, restored, timedOut>>
    BY <2>1 DEF Remediate
  <2>4. \A x \in Keys : cooldownTracking[x] # 0 \/ x = k => cooldownTracking'[x] # 0
    BY <2>2, <2>3 DEF IInv, Typed
  <2>5. QED
    BY <2>3, <2>4 DEF Plain
<1>7. CASE PeriodicSync \/ PeriodicEnds \/ Stop \/ FinalSync
  BY <1>1, <1>7 DEF PeriodicSync, PeriodicEnds, Stop, FinalSync
<1>8. CASE StopMarks
  <2>1. /\ UNCHANGED <<now, policy, starts, ctxDone, restored, cooldownTracking>>
        /\ dirtyEntries' = dirtyEntries \/ dirtyEntries' = {k \in Keys : cooldownTracking[k] # 0}
    BY <1>8 DEF StopMarks
  <2>2. timedOut' \in BOOLEAN
    BY <1>8 DEF StopMarks
  <2>3. QED
    BY <2>1, <2>2 DEF Plain
<1>9. CASE \E c \in Callers : SyncGoesOn(c)
  BY <1>1, <1>9 DEF SyncGoesOn, WritePolicy, MissPolicy, EndSync
<1>10. CASE UNCHANGED vars
  BY <1>1, <1>10 DEF vars
<1>11. QED
  BY <1>2, <1>3, <1>4, <1>5, <1>6, <1>7, <1>8, <1>9, <1>10 DEF Next, Stopping, Callers

LEMMA SyncInPhaseNext == IInv /\ SyncInPhase /\ [Next]_vars => SyncInPhase'
<1> SUFFICES ASSUME IInv, SyncInPhase, [Next]_vars PROVE SyncInPhase'
  OBVIOUS
<1> USE DEF cluster, memory
<1>0. sync = [c \in Callers |-> sync[c]] /\ "periodic" \in Callers /\ "Stop" \in Callers
  BY DEF IInv, Typed, Callers
<1>1. CASE UNCHANGED <<periodic, sync>> /\ (process' = process \/ {process, process'} \cap {"final"} = {})
  BY <1>1 DEF SyncInPhase, NoSync, None
<1>2. CASE Tick \/ Shutdown \/ SkipLoad \/ Stop \/ UNCHANGED vars
  BY <1>1, <1>2 DEF Tick, Shutdown, SkipLoad, Stop, vars
<1>3. CASE Start \/ Crash
  BY <1>3 DEF Start, Crash, SyncInPhase, Callers, NoSync, None
<1>4. CASE \/ \E p \in Policies, s \in {"on", "off", "deleted"} : SetPolicy(p, s)
           \/ \E failed \in SUBSET Policies : Load(failed)
           \/ \E k \in Keys : Remediate(k)
  BY <1>1, <1>4 DEF SetPolicy, Load, Remediate
<1>5. CASE Restore
  <2>1. sync["periodic"] = NoSync
    BY <1>0, <1>5 DEF Restore, IInv, StartsQuietly, Starting
  <2>2. QED
    BY <1>5, <2>1 DEF Restore, SyncInPhase, NoSync, None
<1>6. CASE PeriodicSync
  <2>1. /\ periodic' = "sync" /\ process' = process /\ sync'["Stop"] = sync["Stop"]
        /\ sync'["periodic"].on
    BY <1>0, <1>6 DEF PeriodicSync, BeginSync
  <2>2. QED
    BY <2>1 DEF SyncInPhase, NoSync, None
<1>7. CASE PeriodicEnds \/ StopMarks
  BY <1>7 DEF PeriodicEnds, StopMarks, SyncInPhase, NoSync, None
<1>8. CASE FinalSync
  <2>1. CASE dirtyEntries = {}
    BY <1>1, <1>8, <2>1 DEF FinalSync
  <2>2. CASE dirtyEntries # {}
    <3>1. /\ UNCHANGED periodic /\ process' = "final" /\ sync'["periodic"] = sync["periodic"]
          /\ sync'["Stop"].on
      BY <1>0, <1>8, <2>2 DEF FinalSync, BeginSync
    <3>2. QED
      BY <3>1 DEF SyncInPhase, NoSync, None
  <2>3. QED
    BY <2>1, <2>2
<1>9. ASSUME NEW c \in Callers, SyncGoesOn(c)
      PROVE  SyncInPhase'
  <2>1. CASE \E p \in Policies : WritePolicy(c, p) \/ MissPolicy(c, p)
    <3>1. PICK p \in Policies : WritePolicy(c, p) \/ MissPolicy(c, p)
      BY <2>1
    <3>2. /\ UNCHANGED <<process, periodic>> /\ sync[c] # NoSync
          /\ \A d \in Callers : sync'[d].on = sync[d].on /\ (d # c => sync'[d] = sync[d])
      BY <1>0, <3>1 DEF WritePolicy, MissPolicy, NoSync, IInv, Typed
    <3>3. QED
      BY <1>0, <3>2 DEF SyncInPhase, NoSync, None, Callers
  <2>2. CASE EndSync(c)
    BY <1>0, <2>2 DEF EndSync, SyncInPhase, NoSync, None, Callers
  <2>3. QED
    BY <1>9, <2>1, <2>2 DEF SyncGoesOn
<1>10. QED
  BY <1>2, <1>3, <1>4, <1>5, <1>6, <1>7, <1>8, <1>9 DEF Next, Stopping, Callers

LEMMA TypesHold == Spec => []TInv
BY TypesInit, InvInit, InvNext, PlainNext, SyncInPhaseNext, PTL DEF Spec, TInv

\* A sync is under way exactly in the phase of its caller, what is dirty has an entry,
\* and no crash or end leaves a sync, a mark or an entry behind.
THEOREM TypeCorrect == Spec => []TypeOK
<1>1. TInv => TypeOK
  BY DEF TInv, IInv, Typed, Plain, SyncInPhase, NoSync, Starting, Live, Running, Ending, TypeOK
<1>2. QED
  BY <1>1, TypesHold, PTL
-----------------------------------------------------------------------------
(* A clean stop.                                                            *)

\* The final sync of k: in its snapshot, and still to do, missed, or done.
Followed(k) ==
  /\ sync["Stop"].entries[k] = cooldownTracking[k]
  /\ PolicyOf[k] \in sync["Stop"].todo \/ Missed(k) \/ Persisted(k)

\* What must be persisted, or would have to be if its policy persisted again.
Lasting(k) == policy[PolicyOf[k]] # "deleted" /\ cooldownTracking[k] >= now + MinPersist

\* The inductive invariant: while nobody else syncs, all entries are marked, and then
\* whatever lasts is followed by the final sync.
StopInv ==
  /\ process \in {"marked", "final"} /\ ~timedOut => periodic = "ended"
  /\ process = "marked" /\ ~timedOut => dirtyEntries # {}
  /\ process = "final" /\ ~timedOut => \A k \in Keys : Lasting(k) => Followed(k)

\* Outside the two steps of Stop there is nothing to show.
LEMMA ElsewhereKeeps ==
  ASSUME process' \notin {"marked", "final"}
  PROVE  StopInv'
BY DEF StopInv

\* Steps that end nothing, while time goes on or not.
LEMMA StopWaits ==
  ASSUME TInv, StopInv, now' \in Nat, now' >= now,
         UNCHANGED <<process, timedOut, periodic, dirtyEntries, policy, configMap,
                     cooldownTracking, sync>>
  PROVE  StopInv'
<1>1. ASSUME NEW k \in Keys, Lasting(k)', process = "final", ~timedOut
      PROVE  Followed(k)'
  <2>1. cooldownTracking[k] >= now + MinPersist
    BY <1>1, ConstantsOK DEF Lasting, TInv, IInv, Typed
  <2>2. Followed(k)
    BY <1>1, <2>1 DEF Lasting, StopInv
  <2>3. QED
    BY <2>2 DEF Followed, Missed, Persisted
<1>2. QED
  BY <1>1 DEF StopInv

\* A policy that is deleted has nothing to persist any more.
LEMMA SetPolicyWaits ==
  ASSUME TInv, StopInv, NEW p \in Policies, NEW s \in {"on", "off", "deleted"}, SetPolicy(p, s)
  PROVE  StopInv'
<1>1. /\ UNCHANGED <<now, process, timedOut, periodic, dirtyEntries, cooldownTracking, sync>>
      /\ policy' = [policy EXCEPT ![p] = s]
      /\ configMap' = [k \in Keys |-> IF PolicyOf[k] = p /\ s = "deleted" THEN 0 ELSE configMap[k]]
  BY DEF SetPolicy, memory
<1>2. ASSUME NEW k \in Keys, Lasting(k)', process = "final", ~timedOut
      PROVE  Followed(k)'
  <2>1. PolicyOf[k] \in Policies
    BY ConstantsOK
  <2>2. policy[PolicyOf[k]] # "deleted" /\ ~(PolicyOf[k] = p /\ s = "deleted")
    BY <1>1, <1>2, <2>1 DEF Lasting, SetPolicy, TInv, Plain
  <2>3. configMap'[k] = configMap[k]
    BY <1>1, <2>2
  <2>4. Followed(k)
    BY <1>1, <1>2, <2>2 DEF Lasting, StopInv
  <2>5. QED
    BY <1>1, <2>3, <2>4 DEF Followed, Missed, Persisted
<1>3. QED
  BY <1>1, <1>2 DEF StopInv

\* Without a timeout the periodic goroutine has ended before the entries are marked.
LEMMA StopMarksAll ==
  ASSUME TInv, StopMarks
  PROVE  StopInv'
<1>1. CASE process' = "none"
  BY <1>1, ElsewhereKeeps
<1>2. CASE process' # "none"
  <2>1. /\ process' = "marked" /\ periodic' = periodic /\ periodic \notin {"off", "select"}
        /\ cooldownTracking # None /\ dirtyEntries' = {k \in Keys : cooldownTracking[k] # 0}
    BY <1>2 DEF StopMarks
  <2>2. ~timedOut' => periodic # "sync"
    BY DEF StopMarks
  <2>3. \E k \in Keys : cooldownTracking[k] # 0
    BY <2>1 DEF TInv, IInv, Typed, None
  <2>4. QED
    BY <2>1, <2>2, <2>3 DEF StopInv, TInv, SyncInPhase
<1>3. QED
  BY <1>1, <1>2

\* The snapshot of the final sync has all that lasts.
LEMMA FinalSyncFollows ==
  ASSUME TInv, StopInv, FinalSync
  PROVE  StopInv'
<1>1. CASE dirtyEntries = {}
  BY <1>1, ElsewhereKeeps DEF FinalSync
<1>2. CASE dirtyEntries # {}
  <2> DEFINE T == {PolicyOf[x] : x \in {y \in Keys : LongEnough[y] # 0}}
             new == [entries |-> LongEnough, missed |-> {}, on |-> TRUE, todo |-> T]
  <2>1. /\ process = "marked" /\ process' = "final" /\ sync' = [sync EXCEPT !["Stop"] = new]
        /\ UNCHANGED <<now, policy, cooldownTracking, timedOut, periodic>>
    BY <1>2 DEF FinalSync, BeginSync, cluster, memory
  <2>2. new.entries = LongEnough /\ new.todo = T
    OBVIOUS
  <2> HIDE DEF new
  <2>3. sync'["Stop"].entries = LongEnough /\ sync'["Stop"].todo = T
    BY <2>1, <2>2 DEF TInv, IInv, Typed, Callers
  <2>4. ASSUME NEW k \in Keys, Lasting(k)
        PROVE  Followed(k)'
    <3>1. cooldownTracking[k] \in Nat /\ cooldownTracking[k] >= now + MinPersist /\ now \in Nat
      BY <2>4 DEF Lasting, TInv, IInv, Typed
    <3>2. LongEnough[k] = cooldownTracking[k] /\ LongEnough[k] # 0
      BY <3>1, ConstantsOK DEF LongEnough
    <3>3. PolicyOf[k] \in T
      BY <3>2
    <3>4. QED
      BY <2>1, <2>3, <3>2, <3>3 DEF Followed
  <2>5. QED
    BY <2>1, <2>4 DEF StopInv, Lasting
<1>3. QED
  BY <1>1, <1>2

\* The final sync writes its snapshot, or misses the policy; nobody else writes.
LEMMA FinalSyncGoesOn ==
  ASSUME TInv, StopInv, NEW p \in Policies, WritePolicy("Stop", p) \/ MissPolicy("Stop", p)
  PROVE  StopInv'
<1> DEFINE done == sync["Stop"]
<1>1. /\ done.on /\ UNCHANGED <<now, process, policy, cooldownTracking, timedOut, periodic>>
  BY DEF WritePolicy, MissPolicy, memory, cluster, TInv, SyncInPhase, NoSync
<1>2. process = "final"
  BY <1>1 DEF TInv, SyncInPhase, NoSync
<1>3. /\ sync'["Stop"].entries = done.entries
      /\ \/ /\ sync'["Stop"].todo = done.todo \ {p} /\ sync'["Stop"].missed = done.missed
            /\ \A k \in Keys : configMap'[k] = IF PolicyOf[k] = p THEN done.entries[k] ELSE configMap[k]
         \/ /\ sync'["Stop"].todo = done.todo \ {p} /\ sync'["Stop"].missed = done.missed \cup {p}
            /\ configMap' = configMap
  BY DEF WritePolicy, MissPolicy, cluster, TInv, IInv, Typed, Callers
<1>4. ASSUME NEW k \in Keys, Lasting(k), ~timedOut
      PROVE  Followed(k)'
  <2>1. Followed(k)
    BY <1>2, <1>4 DEF StopInv
  <2>2. QED
    BY <1>1, <1>3, <2>1 DEF Followed, Missed, Persisted
<1>5. QED
  BY <1>1, <1>2, <1>4 DEF StopInv, Lasting

LEMMA StopInvNext == TInv /\ StopInv /\ [Next]_vars => StopInv'
<1> SUFFICES ASSUME TInv, StopInv, [Next]_vars PROVE StopInv'
  OBVIOUS
<1> USE DEF cluster, memory
<1>0. now \in Nat
  BY DEF TInv, IInv, Typed
<1>1. CASE Tick \/ Shutdown \/ UNCHANGED vars
  <2>1. /\ now' = now \/ now' = now + 1
        /\ UNCHANGED <<process, timedOut, periodic, dirtyEntries, policy, configMap,
                       cooldownTracking, sync>>
    BY <1>1 DEF Tick, Shutdown, vars
  <2>2. now' \in Nat /\ now' >= now
    BY <1>0, <2>1
  <2>3. QED
    BY <2>1, <2>2, StopWaits
<1>2. CASE Start \/ Crash \/ SkipLoad \/ Restore \/ Stop \/ \E failed \in SUBSET Policies : Load(failed)
  BY <1>2, ElsewhereKeeps DEF Start, Crash, SkipLoad, Restore, Stop, Load
<1>3. CASE \E k \in Keys : Remediate(k)
  BY <1>3, ElsewhereKeeps DEF Remediate, Running
<1>4. CASE \E p \in Policies, s \in {"on", "off", "deleted"} : SetPolicy(p, s)
  BY <1>4, SetPolicyWaits
<1>5. CASE PeriodicSync \/ PeriodicEnds
  <2>1. periodic = "select" /\ UNCHANGED <<process, timedOut>>
    BY <1>5 DEF PeriodicSync, PeriodicEnds
  <2>2. ~(process \in {"marked", "final"} /\ ~timedOut)
    BY <2>1 DEF StopInv
  <2>3. QED
    BY <2>1, <2>2 DEF StopInv
<1>6. CASE SyncGoesOn("periodic")
  <2>1. sync["periodic"] # NoSync
    <3>1. sync["periodic"].on \/ sync["periodic"].todo # {}
      BY <1>6 DEF SyncGoesOn, WritePolicy, MissPolicy, EndSync
    <3>2. ~NoSync.on /\ NoSync.todo = {}
      BY DEF NoSync
    <3>3. QED
      BY <3>1, <3>2
  <2>2. ~(process \in {"marked", "final"} /\ ~timedOut)
    BY <2>1 DEF StopInv, TInv, SyncInPhase
  <2>3. UNCHANGED <<process, timedOut>>
    BY <1>6 DEF SyncGoesOn, WritePolicy, MissPolicy, EndSync
  <2>4. QED
    BY <2>2, <2>3 DEF StopInv
<1>7. CASE SyncGoesOn("Stop")
  <2>1. CASE \E p \in Policies : WritePolicy("Stop", p) \/ MissPolicy("Stop", p)
    BY <2>1, FinalSyncGoesOn
  <2>2. CASE EndSync("Stop")
    BY <2>2, ElsewhereKeeps DEF EndSync
  <2>3. QED
    BY <1>7, <2>1, <2>2 DEF SyncGoesOn
<1>8. QED
  BY <1>1, <1>2, <1>3, <1>4, <1>5, <1>6, <1>7, StopMarksAll, FinalSyncFollows DEF Next, Stopping

\* What CleanStopPersists says of one step.
NothingLost == \A k \in Keys : Persistable(k) => Persisted(k) \/ Missed(k)

LEMMA StepLosesNothing == TInv /\ StopInv /\ [Next]_vars /\ StopEnds /\ ~timedOut => NothingLost
<1> SUFFICES ASSUME TInv, StopInv, [Next]_vars, StopEnds, ~timedOut PROVE NothingLost
  OBVIOUS
<1>1. process \in {"marked", "final"} /\ process' = "none" /\ ~Crash
  BY DEF StopEnds
<1>2. CASE FinalSync
  BY <1>1, <1>2 DEF FinalSync, StopInv
<1>3. CASE EndSync("Stop")
  <2>1. sync["Stop"].todo = {} /\ process = "final"
    BY <1>1, <1>3 DEF EndSync, TInv, SyncInPhase, NoSync
  <2>2. ASSUME NEW k \in Keys, Persistable(k)
        PROVE  Persisted(k) \/ Missed(k)
    <3>1. Lasting(k)
      BY <2>2 DEF Persistable, Lasting
    <3>2. QED
      BY <2>1, <3>1 DEF StopInv, Followed
  <2>3. QED
    BY <2>2 DEF NothingLost
<1>4. FinalSync \/ EndSync("Stop")
  BY <1>1 DEF Next, Tick, Start, Shutdown, SetPolicy, Load, SkipLoad, Restore, Remediate, Running,
     PeriodicSync, SyncGoesOn, WritePolicy, MissPolicy, EndSync, PeriodicEnds, Stop, Stopping,
     StopMarks, vars
<1>5. QED
  BY <1>2, <1>3, <1>4

\* A stop that waited for the periodic sync leaves every cooldown that is long enough in
\* the ConfigMaps, except those of policies that the final sync could not write,
\* whatever marks an earlier sync has cleared.
THEOREM CleanStopLosesNothing == Spec => CleanStopPersists
<1>1. TInv /\ StopInv /\ [Next]_vars => [StopEnds /\ ~timedOut => NothingLost]_vars
  BY StepLosesNothing
<1>2. Init => StopInv
  BY DEF Init, StopInv
<1>3. Spec => []StopInv
  BY <1>2, StopInvNext, TypesHold, PTL DEF Spec
<1>4. Spec => [][StopEnds /\ ~timedOut => NothingLost]_vars
  BY <1>1, <1>3, TypesHold, PTL DEF Spec
<1>5. QED
  BY <1>4 DEF NothingLost, CleanStopPersists
=============================================================================
