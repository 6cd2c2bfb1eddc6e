------------------------- MODULE CooldownPersistence -------------------------
(***************************************************************************)
(* The cooldowns of remediation policies and their way through a restart:  *)
(* events start cooldowns in memory and mark them dirty, a periodic sync   *)
(* and the final sync of Stop write them to one ConfigMap per policy, and  *)
(* the next process loads them while its reconciler is running already.    *)
(*                                                                         *)
(* Times are whole units, 0 is no time; an entry is the end of a cooldown. *)
(***************************************************************************)
EXTENDS Naturals

CONSTANTS
  Keys,        \* rate limit keys
  Policies,    \* RemediationPolicies
  PolicyOf,    \* the policy of a key, parseFullKey
  Cooldown,    \* the length of a policy's cooldowns
  MinPersist,  \* COOLDOWN_MIN_PERSIST_DURATION
  MaxTime,     \* bound on the clock
  MaxStarts    \* bound on processes

ASSUME ConstantsOK ==
  /\ PolicyOf \in [Keys -> Policies]
  /\ Cooldown \in [Policies -> Nat \ {0}]
  /\ MinPersist \in Nat \ {0} /\ MaxTime \in Nat /\ MaxStarts \in Nat

VARIABLES
  now,
  policy,            \* whether a policy exists and persists its cooldowns
  configMap,         \* the entries in the policies' ConfigMaps
  process,           \* the life of the process, the steps of Stop included
  starts,            \* number of processes so far
  ctxDone,           \* the manager's context is cancelled
  cooldownTracking,  \* entries in memory
  dirtyEntries,
  loaded,            \* what Load returned
  restored,          \* policies whose ConfigMap Load has read
  periodic,          \* the goroutine of StartPeriodicSync
  sync,              \* the Sync calls of the periodic goroutine and of Stop
  timedOut           \* Stop did not wait for the end of a periodic sync

cluster == <<policy, configMap>>
memory  == <<cooldownTracking, dirtyEntries, loaded, restored>>
vars == <<now, cluster, process, starts, ctxDone, memory, periodic, sync, timedOut>>

None    == [k \in Keys |-> 0]
Callers == {"periodic", "Stop"}
NoSync  == [entries |-> None, todo |-> {}, missed |-> {}, on |-> FALSE]

Running == {"loading", "restoring", "up"}   \* the reconcilers work
Ending  == {"stopping", "marked", "final"}  \* Stop is under way

TypeOK ==
  /\ now \in 0..MaxTime
  /\ policy \in [Policies -> {"on", "off", "deleted"}]
  /\ process \in {"none"} \cup Running \cup Ending
  /\ starts \in 0..MaxStarts
  /\ ctxDone \in BOOLEAN /\ timedOut \in BOOLEAN
  /\ DOMAIN configMap = Keys /\ DOMAIN cooldownTracking = Keys /\ DOMAIN loaded = Keys
  /\ \A k \in Keys : {configMap[k], cooldownTracking[k], loaded[k]} \subseteq Nat
  /\ dirtyEntries \subseteq {k \in Keys : cooldownTracking[k] # 0}
  /\ restored \subseteq Policies
  /\ periodic \in {"off", "select", "sync", "ended"}
  /\ periodic = "sync" <=> sync["periodic"].on
  /\ process = "final" <=> sync["Stop"].on
  /\ \A c \in Callers : sync[c].todo \cup sync[c].missed \subseteq Policies

Init ==
  /\ now = 0
  /\ policy \in [Policies -> {"on", "off"}]
  /\ configMap = None
  /\ process = "none" /\ starts = 0
  /\ ctxDone = FALSE /\ timedOut = FALSE
  /\ cooldownTracking = None /\ dirtyEntries = {} /\ loaded = None /\ restored = {}
  /\ periodic = "off" /\ sync = [c \in Callers |-> NoSync]
-----------------------------------------------------------------------------
Tick ==
  /\ now < MaxTime
  /\ now' = now + 1
  /\ UNCHANGED <<cluster, process, starts, ctxDone, memory, periodic, sync, timedOut>>

\* A policy is edited or deleted; its ConfigMap is owned by it.  (A policy that is
\* created again counts as another policy.)
SetPolicy(p, s) ==
  /\ policy[p] \notin {s, "deleted"}
  /\ policy' = [policy EXCEPT ![p] = s]
  /\ configMap' = [k \in Keys |-> IF PolicyOf[k] = p /\ s = "deleted" THEN 0 ELSE configMap[k]]
  /\ UNCHANGED <<now, process, starts, ctxDone, memory, periodic, sync, timedOut>>

\* The process starts; its maps are empty.
Start ==
  /\ process = "none" /\ starts < MaxStarts
  /\ process' = "loading" /\ starts' = starts + 1
  /\ ctxDone' = FALSE /\ timedOut' = FALSE
  /\ cooldownTracking' = None /\ dirtyEntries' = {} /\ loaded' = None /\ restored' = {}
  /\ periodic' = "off" /\ sync' = [c \in Callers |-> NoSync]
  /\ UNCHANGED <<now, cluster>>

\* A crash, a second signal, or a manager that does not stop in its grace period: main
\* exits without Stop.
Crash ==
  /\ process # "none"
  /\ process' = "none"
  /\ cooldownTracking' = None /\ dirtyEntries' = {} /\ loaded' = None /\ restored' = {}
  /\ periodic' = "off" /\ sync' = [c \in Callers |-> NoSync]
  /\ UNCHANGED <<now, cluster, starts, ctxDone, timedOut>>

\* The manager's context is cancelled by a signal; reconciles under way go on.
Shutdown ==
  /\ process \in Running /\ ~ctxDone
  /\ ctxDone' = TRUE
  /\ UNCHANGED <<now, cluster, process, starts, memory, periodic, sync, timedOut>>

\* A bug: what is too short to be marked is not loaded either.
LoadLong(failed) ==
  /\ process = "loading"
  /\ restored' = {p \in Policies \ failed : policy[p] = "on"}
  /\ loaded' = [k \in Keys |-> IF PolicyOf[k] \in restored' /\ configMap[k] >= now + MinPersist
                               THEN configMap[k] ELSE 0]
  /\ process' = "restoring"
  /\ UNCHANGED <<now, cluster, starts, ctxDone, cooldownTracking, dirtyEntries, periodic, sync,
                 timedOut>>

\* Load; the ConfigMaps of the policies in failed cannot be read.
Load(failed) ==
  /\ process = "loading"
  /\ restored' = {p \in Policies \ failed : policy[p] = "on"}
  /\ loaded' = [k \in Keys |-> IF PolicyOf[k] \in restored' /\ configMap[k] >= now
                               THEN configMap[k] ELSE 0]
  /\ process' = "restoring"
  /\ UNCHANGED <<now, cluster, starts, ctxDone, cooldownTracking, dirtyEntries, periodic, sync,
                 timedOut>>

\* WaitForCacheSync fails: nothing is loaded and no periodic sync started.
SkipLoad ==
  /\ process = "loading" /\ ctxDone
  /\ process' = "up"
  /\ UNCHANGED <<now, cluster, starts, ctxDone, memory, periodic, sync, timedOut>>

\* What was loaded replaces what the reconciler has set meanwhile.
Restore ==
  /\ process = "restoring"
  /\ cooldownTracking' = [k \in Keys |-> IF loaded[k] # 0 THEN loaded[k] ELSE cooldownTracking[k]]
  /\ loaded' = None
  /\ process' = "up" /\ periodic' = "select"
  /\ UNCHANGED <<now, cluster, starts, ctxDone, dirtyEntries, restored, sync, timedOut>>

\* isRateLimited lets an event through and starts a cooldown.  MarkDirty reads the
\* clock again, so a cooldown of exactly MinPersist is too short for it.
Remediate(k) ==
  LET p == PolicyOf[k] IN
  /\ process \in Running
  /\ policy[p] # "deleted"
  /\ cooldownTracking[k] <= now
  /\ cooldownTracking' = [cooldownTracking EXCEPT ![k] = now + Cooldown[p]]
  /\ dirtyEntries' = IF policy[p] = "on" /\ Cooldown[p] > MinPersist
                     THEN dirtyEntries \cup {k} ELSE dirtyEntries
  /\ UNCHANGED <<now, cluster, process, starts, ctxDone, loaded, restored, periodic, sync, timedOut>>
-----------------------------------------------------------------------------
(* Sync.                                                                    *)

LongEnough == [k \in Keys |-> IF cooldownTracking[k] >= now + MinPersist
                              THEN cooldownTracking[k] ELSE 0]

\* Entries are grouped by policy; a policy without entries is not written.
BeginSync(c) ==
  sync' = [sync EXCEPT ![c] =
    [entries |-> LongEnough, missed |-> {}, on |-> TRUE,
     todo |-> {PolicyOf[k] : k \in {x \in Keys : LongEnough[x] # 0}}]]

PeriodicSync ==
  /\ periodic = "select" /\ dirtyEntries # {}
  /\ periodic' = "sync"
  /\ BeginSync("periodic")
  /\ UNCHANGED <<now, cluster, process, starts, ctxDone, memory, timedOut>>

\* syncPolicyConfigMap creates or overwrites the ConfigMap.
WritePolicy(c, p) ==
  /\ p \in sync[c].todo /\ policy[p] = "on"
  /\ c = "periodic" => ~ctxDone
  /\ configMap' = [k \in Keys |-> IF PolicyOf[k] = p THEN sync[c].entries[k] ELSE configMap[k]]
  /\ sync' = [sync EXCEPT ![c].todo = @ \ {p}]
  /\ UNCHANGED <<now, policy, process, starts, ctxDone, memory, periodic, timedOut>>

\* The policy does not persist any more, a call fails, or the write conflicts, which
\* is no error for the caller.
MissPolicy(c, p) ==
  /\ p \in sync[c].todo
  /\ sync' = [sync EXCEPT ![c].todo = @ \ {p}, ![c].missed = @ \cup {p}]
  /\ UNCHANGED <<now, cluster, process, starts, ctxDone, memory, periodic, timedOut>>

\* A bug: the caller of the sync is not told that it ended.
EndSyncUnnoticed(c) ==
  /\ sync[c].on /\ sync[c].todo = {}
  /\ dirtyEntries' = {}
  /\ sync' = [sync EXCEPT ![c] = NoSync]
  /\ UNCHANGED <<now, cluster, process, starts, ctxDone, cooldownTracking, loaded, restored, timedOut,
                 periodic>>

\* Whatever was written, nothing is dirty after the attempt.
EndSync(c) ==
  /\ sync[c].on /\ sync[c].todo = {}
  /\ dirtyEntries' = {}
  /\ sync' = [sync EXCEPT ![c] = NoSync]
  /\ IF c = "periodic" THEN periodic' = "select" /\ UNCHANGED process
                       ELSE process' = "none" /\ UNCHANGED periodic
  /\ UNCHANGED <<now, cluster, starts, ctxDone, cooldownTracking, loaded, restored, timedOut>>

PeriodicEnds ==
  /\ periodic = "select"
  /\ ctxDone \/ process \in Ending
  /\ periodic' = "ended"
  /\ UNCHANGED <<now, cluster, process, starts, ctxDone, memory, sync, timedOut>>
-----------------------------------------------------------------------------
(* Stop, called when the manager has returned.                              *)

Stop ==
  /\ process = "up" /\ ctxDone
  /\ process' = "stopping"
  /\ UNCHANGED <<now, cluster, starts, ctxDone, memory, periodic, sync, timedOut>>

\* A bug: no timeout while waiting for the periodic goroutine.
StopWaitsForEver ==
  /\ process = "stopping" /\ periodic = "ended"
  /\ timedOut' = FALSE
  /\ IF cooldownTracking = None
     THEN process' = "none" /\ UNCHANGED dirtyEntries
     ELSE /\ dirtyEntries' = {k \in Keys : cooldownTracking[k] # 0}
          /\ process' = "marked"
  /\ UNCHANGED <<now, cluster, starts, ctxDone, cooldownTracking, loaded, restored, periodic, sync>>

\* A bug: only what is dirty already is synced.
StopWithoutMarks ==
  /\ process = "stopping" /\ periodic # "select"
  /\ timedOut' = (periodic = "sync")
  /\ process' = IF periodic = "off" \/ cooldownTracking = None THEN "none" ELSE "marked"
  /\ UNCHANGED <<now, cluster, starts, ctxDone, memory, periodic, sync>>

\* The goroutine has ended, or is in a sync or was never started and five seconds
\* have passed.  In the last case there is no callback; else all entries are marked.
StopMarks ==
  /\ process = "stopping" /\ periodic # "select"
  /\ timedOut' = (periodic = "sync")
  /\ IF periodic = "off" \/ cooldownTracking = None
     THEN process' = "none" /\ UNCHANGED dirtyEntries
     ELSE /\ dirtyEntries' = {k \in Keys : cooldownTracking[k] # 0}
          /\ process' = "marked"
  /\ UNCHANGED <<now, cluster, starts, ctxDone, cooldownTracking, loaded, restored, periodic, sync>>

FinalSync ==
  /\ process = "marked"
  /\ IF dirtyEntries = {}
     THEN process' = "none" /\ UNCHANGED sync
     ELSE process' = "final" /\ BeginSync("Stop")
  /\ UNCHANGED <<now, cluster, starts, ctxDone, memory, periodic, timedOut>>
-----------------------------------------------------------------------------
SyncGoesOn(c) ==
  \/ \E p \in Policies : WritePolicy(c, p) \/ MissPolicy(c, p)
  \/ EndSync(c)
Stopping == StopMarks \/ FinalSync \/ SyncGoesOn("Stop")

Next ==
  \/ Tick \/ Start \/ Crash \/ Shutdown
  \/ \E p \in Policies, s \in {"on", "off", "deleted"} : SetPolicy(p, s)
  \/ \E failed \in SUBSET Policies : Load(failed)
  \/ SkipLoad \/ Restore
  \/ \E k \in Keys : Remediate(k)
  \/ PeriodicSync \/ SyncGoesOn("periodic") \/ PeriodicEnds
  \/ Stop \/ Stopping

\* Calls of the API server end, if only by the timeout of Stop's context, and a
\* goroutine whose channel is closed runs.
Spec == Init /\ [][Next]_vars /\ WF_vars(Stopping) /\ WF_vars(PeriodicEnds)
-----------------------------------------------------------------------------
(* Correctness.                                                             *)

\* A cooldown that reached a ConfigMap and was read back is honoured: as long as it
\* runs, memory has it or a later one, so isRateLimited lets no event through.
HonouredOncePersisted ==
  process \in {"up"} \cup Ending =>
    \A k \in Keys : PolicyOf[k] \in restored /\ configMap[k] > now =>
                      cooldownTracking[k] >= configMap[k]

Persistable(k) == policy[PolicyOf[k]] = "on" /\ cooldownTracking[k] >= now + MinPersist
Persisted(k)   == configMap[k] = cooldownTracking[k]
Missed(k)      == PolicyOf[k] \in sync["Stop"].missed

\* A stop after which Stop waited for the periodic sync and missed no policy leaves
\* every cooldown that is long enough in the ConfigMaps, also those whose dirty mark
\* an earlier sync has lost.
StopEnds == process \in {"marked", "final"} /\ process' = "none" /\ ~Crash
CleanStopPersists ==
  [][StopEnds /\ ~timedOut => \A k \in Keys : Persistable(k) => Persisted(k) \/ Missed(k)]_vars

\* Stop returns, with or without a periodic sync to wait for.
StopReturns == process = "stopping" ~> process = "none"
=============================================================================
