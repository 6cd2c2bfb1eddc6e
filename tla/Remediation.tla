----------------------------- MODULE Remediation -----------------------------
(***************************************************************************)
(* The RemediationPolicy reconciler: one worker that takes events and      *)
(* policies from the queue, and beside it the cluster, where events recur, *)
(* objects come and go, policies are edited, caches lag behind, time,      *)
(* and the next process, which is set up before it has the leader's lease. *)
(* reconcileEvent is split where time or the cluster may come between:     *)
(* before each lookup of the rate limit key and each call.  Cooldowns that *)
(* are persisted are the subject of CooldownPersistence.                   *)
(***************************************************************************)
EXTENDS Naturals, Sequences

CONSTANTS
  Events,           \* Event objects
  Objects,          \* the objects that events are about
  Transient,        \* those of them that come and go
  ObjectOf,         \* the object of an event
  KeyOf,            \* an object's rate limit key, by what the lookup of its owner finds
  Policies,
  Matches,          \* the policies a selector of which matches the event
  EventsPerMinute, CooldownMinutes, \* spec.rateLimiting of a policy
  Minute, ObjectCooldown, ProcessedAge, \* 1, 5 and 10 minutes
  MaxAttempts,      \* attempts of a status update
  MaxOccurrences, MaxTime, MaxStarts \* bounds on events, the clock and processes

\* The owner: the CronJob or Job through Pod and Job; the Job, when it cannot be read or
\* is not in the cache; what the Pod's name tells of a CronJob, when the Pod is not in the
\* cache; its plain name, when it cannot be read.
Lookups == {"owner", "job", "parsed", "pod"}

ASSUME ConstantsOK ==
  /\ ObjectOf \in [Events -> Objects] /\ Transient \subseteq Objects
  /\ DOMAIN KeyOf = Lookups /\ \A l \in Lookups : DOMAIN KeyOf[l] = Objects
  /\ Matches \in [Events -> SUBSET Policies]
  /\ EventsPerMinute \in [Policies -> Nat] /\ CooldownMinutes \in [Policies -> Nat]
  /\ {Minute, ObjectCooldown, ProcessedAge, MaxAttempts, MaxTime, MaxStarts} \subseteq Nat \ {0}
  /\ MaxOccurrences \in Nat

VARIABLES
  now, starts,
  occurrences,       \* number of events so far, recurring ones included
  event,             \* the resourceVersion of an event, 0 before it exists, and its time
  status,            \* events counted in a policy's status; new before its first condition
  fresh,             \* the cached policy is the current one
  seenNew,           \* the cached policy has no status yet
  startupTime,
  standby,           \* startupTime of the process that waits for the lease, or 0
  queue,             \* events to be reconciled
  job,               \* the reconcile under way
  processedEvents,   \* when an event version was marked, or 0
  objectCooldowns, cooldownTracking, rateLimitTracking, \* by policy and key
  sent,              \* by which process an event version was last sent, and its mark
 \* by policy and workload, with the key of the owner:
  passedAt,          \*   when an event last passed the limits
  cooledAt,          \*   when its object cooldown was last set
  handled            \* number of events that were marked for a policy

cluster == <<occurrences, event>>
process == <<starts, startupTime, standby>>
api     == <<status, fresh, seenNew>>
limits  == <<objectCooldowns, cooldownTracking, rateLimitTracking>>
history == <<sent, passedAt, cooledAt, handled>>
vars == <<now, process, cluster, api, queue, job, processedEvents, limits, history>>

Keys      == {KeyOf[l][o] : l \in Lookups, o \in Objects}
Workload(o) == KeyOf["owner"][o]
Workloads == {Workload(o) : o \in Objects}
Versions  == Events \X (1..MaxOccurrences)
NoTimes   == [b \in Policies \X Keys |-> 0]
NoPasses  == [x \in Policies \X Workloads |-> 0]
Idle     == [step |-> "idle"]
Never    == [marked |-> 0, process |-> 0]

Steps == {"cooldown", "limit", "limited", "mark", "send", "answer"}
Jobs ==
  [step : {"idle"}]
    \cup [step : Steps, e : Versions, p : Policies, found : SUBSET {"cooldown", "limit"}]
    \cup [step : {"status"}, e : Versions, p : Policies, fails : BOOLEAN,
          tries : 0..(MaxAttempts - 1)]
    \cup [step : {"init"}, p : Policies]

TypeOK ==
  /\ now \in 1..MaxTime /\ starts \in 1..MaxStarts
  /\ startupTime \in 0..now /\ standby \in 0..now
  /\ occurrences \in 0..MaxOccurrences
  /\ event \in [Events -> [version : 0..occurrences, time : 0..now]]
  /\ status \in [Policies -> [new : BOOLEAN, total : Nat]]
  /\ \A p \in Policies : status[p].new => status[p].total = 0
  /\ fresh \in [Policies -> BOOLEAN] /\ seenNew \in [Policies -> BOOLEAN]
  /\ queue \subseteq {e \in Events : event[e].version > 0}
  /\ job \in Jobs /\ (job.step \in Steps => job.p \in Matches[job.e[1]])
  /\ processedEvents \in [Versions -> 0..now]
  /\ objectCooldowns \in [Policies \X Keys -> 0..(now + ObjectCooldown)]
  /\ cooldownTracking \in [Policies \X Keys -> Nat]
  /\ \A b \in Policies \X Keys : cooldownTracking[b] <= now + CooldownMinutes[b[1]]
  /\ DOMAIN rateLimitTracking = Policies \X Keys
  /\ sent \in [Versions -> [marked : 0..now, process : 0..starts]]
  /\ passedAt \in [Policies \X Workloads -> 0..now]
  /\ cooledAt \in [Policies \X Workloads -> 0..now]
  /\ handled \in [Policies -> Nat]

Init ==
  /\ now = 1 /\ starts = 1 /\ startupTime = 0 /\ standby = 0
  /\ occurrences = 0
  /\ event = [e \in Events |-> [version |-> 0, time |-> 0]]
  /\ status = [p \in Policies |-> [new |-> TRUE, total |-> 0]]
  /\ fresh = [p \in Policies |-> TRUE] /\ seenNew = [p \in Policies |-> TRUE]
  /\ queue = {} /\ job = Idle
  /\ processedEvents = [x \in Versions |-> 0]
  /\ objectCooldowns = NoTimes /\ cooldownTracking = NoTimes
  /\ rateLimitTracking = [b \in Policies \X Keys |-> <<>>]
  /\ sent = [x \in Versions |-> Never]
  /\ passedAt = NoPasses /\ cooledAt = NoPasses
  /\ handled = [p \in Policies |-> 0]
-----------------------------------------------------------------------------
\* Once an event is marked, time passes only while MCP is waited for: notifications
\* and the attempts of a status update take seconds.
Tick ==
  /\ now < MaxTime /\ job.step \notin {"send", "status"}
  /\ now' = now + 1
  /\ UNCHANGED <<process, cluster, api, queue, job, processedEvents, limits, history>>

\* An event occurs or recurs: a new resourceVersion and timestamp.
Occur(e) ==
  /\ occurrences < MaxOccurrences /\ occurrences' = occurrences + 1
  /\ event' = [event EXCEPT ![e] = [version |-> @.version + 1, time |-> now]]
  /\ queue' = queue \cup {e}
  /\ UNCHANGED <<now, process, api, job, processedEvents, limits, history>>

\* Somebody else writes the policy; the cached copy is outdated until it follows.
Edit(p) ==
  /\ fresh[p]
  /\ fresh' = [fresh EXCEPT ![p] = FALSE]
  /\ UNCHANGED <<now, process, cluster, status, seenNew, queue, job, processedEvents,
                 limits, history>>

CacheFollows(p) ==
  /\ ~fresh[p]
  /\ fresh' = [fresh EXCEPT ![p] = TRUE]
  /\ seenNew' = [seenNew EXCEPT ![p] = status[p].new]
  /\ UNCHANGED <<now, process, cluster, status, queue, job, processedEvents, limits,
                 history>>

\* A process is set up: after a crash, or by a rollout while the leader works on.
StandBy ==
  /\ starts < MaxStarts /\ standby = 0
  /\ standby' = now
  /\ UNCHANGED <<now, starts, startupTime, cluster, api, queue, job, processedEvents, limits, history>>

\* The leader has ended or crashed, and the next process gets the lease: it finds all
\* events in its first list.  Its caches are older and may lag.
Lead ==
  /\ standby > 0
  /\ starts' = starts + 1 /\ startupTime' = standby /\ standby' = 0
  /\ queue' = {e \in Events : event[e].version > 0} /\ job' = Idle
  /\ fresh' \in [Policies -> BOOLEAN] /\ seenNew' \in [Policies -> BOOLEAN]
  /\ \A p \in Policies : seenNew'[p] # status[p].new => seenNew'[p] /\ ~fresh'[p]
  /\ processedEvents' = [x \in Versions |-> 0]
  /\ objectCooldowns' = NoTimes /\ cooldownTracking' = NoTimes
  /\ rateLimitTracking' = [b \in Policies \X Keys |-> <<>>]
  /\ passedAt' = NoPasses /\ cooledAt' = NoPasses
  /\ UNCHANGED <<now, cluster, status, sent, handled>>
-----------------------------------------------------------------------------
(* reconcileEvent.                                                          *)

Current(e) == <<e, event[e].version>>

\* Timestamps of events have whole seconds, startupTime is finer: an event of the
\* same unit counts as earlier.
Historical(e) == event[e].time <= startupTime

Finish(again) ==
  /\ job' = Idle
  /\ queue' = IF again THEN queue \cup {job.e[1]} ELSE queue

\* Dropped for good: too old, its object not there now, processed before, or nobody's.
Ignore(e) ==
  /\ job = Idle /\ e \in queue
  /\ \/ Historical(e)
     \/ ObjectOf[e] \in Transient
     \/ processedEvents[Current(e)] > 0
     \/ Matches[e] = {}
  /\ queue' = queue \ {e}
  /\ UNCHANGED <<now, process, cluster, api, job, processedEvents, limits, history>>

\* A bug: historical events are taken too.
TakeHistorical(e, p) ==
  /\ job = Idle /\ e \in queue
  /\ processedEvents[Current(e)] = 0
  /\ p \in Matches[e]
  /\ job' = [step |-> "cooldown", e |-> Current(e), p |-> p, found |-> {}]
  /\ queue' = queue \ {e}
  /\ UNCHANGED <<now, process, cluster, api, processedEvents, limits, history>>

\* The object is there, or its lookup fails; the first matching policy of a list in no
\* particular order.
Take(e, p) ==
  /\ job = Idle /\ e \in queue
  /\ ~Historical(e) /\ processedEvents[Current(e)] = 0
  /\ p \in Matches[e]
  /\ job' = [step |-> "cooldown", e |-> Current(e), p |-> p, found |-> {}]
  /\ queue' = queue \ {e}
  /\ UNCHANGED <<now, process, cluster, api, processedEvents, limits, history>>

\* A bug: owners are not resolved.
BucketOfPod(l) == <<job.p, KeyOf["pod"][ObjectOf[job.e[1]]]>>

\* getRateLimitKey, resolved anew for every use, with any result: the caches lag, and
\* reading them may fail.
Bucket(l) == <<job.p, KeyOf[l][ObjectOf[job.e[1]]]>>

Noting(l, use) == IF l = "owner" THEN job.found \cup {use} ELSE job.found

isObjectInCooldown(l) ==
  /\ job.step = "cooldown"
  /\ job' = [job EXCEPT !.step = IF now < objectCooldowns[Bucket(l)] THEN "limited" ELSE "limit",
                        !.found = Noting(l, "cooldown")]
  /\ UNCHANGED <<now, process, cluster, api, queue, processedEvents, limits, history>>

Recent(l) == SelectSeq(rateLimitTracking[Bucket(l)], LAMBDA t : t + Minute > now)

RateLimited(l) ==
  /\ EventsPerMinute[job.p] # 0 \/ CooldownMinutes[job.p] # 0
  /\ \/ now < cooldownTracking[Bucket(l)]
     \/ EventsPerMinute[job.p] > 0 /\ Len(Recent(l)) >= EventsPerMinute[job.p]

Limited(l) ==
  /\ job.step = "limit" /\ RateLimited(l)
  /\ job' = [job EXCEPT !.step = "limited"]
  /\ UNCHANGED <<now, process, cluster, api, queue, processedEvents, limits, history>>

\* The history of what was done with the key of the owner.
Stamp(at, l) == IF l = "owner" THEN [at EXCEPT ![<<job.p, Workload(ObjectOf[job.e[1]])>>] = now] ELSE at

\* Without a number of events per minute no cooldown is set either.
Pass(l) ==
  /\ job.step = "limit" /\ ~RateLimited(l)
  /\ IF EventsPerMinute[job.p] > 0
     THEN /\ rateLimitTracking' = [rateLimitTracking EXCEPT ![Bucket(l)] = Append(Recent(l), now)]
          /\ cooldownTracking' = IF CooldownMinutes[job.p] > 0
               THEN [cooldownTracking EXCEPT ![Bucket(l)] = now + CooldownMinutes[job.p]]
               ELSE cooldownTracking
     ELSE UNCHANGED <<rateLimitTracking, cooldownTracking>>
  /\ job' = [job EXCEPT !.step = "mark", !.found = Noting(l, "limit")]
  /\ passedAt' = Stamp(passedAt, l)
  /\ UNCHANGED <<now, process, cluster, api, queue, processedEvents, objectCooldowns, sent,
                 cooledAt, handled>>

\* updateRateLimitStatus; a failure is logged.  (Its counter is not modelled, its
\* write outdates the cached policy.)
ReportLimited ==
  /\ job.step = "limited"
  /\ fresh' \in {fresh, [fresh EXCEPT ![job.p] = FALSE]}
  /\ Finish(FALSE)
  /\ UNCHANGED <<now, process, cluster, status, seenNew, processedEvents, limits, history>>

\* markEventProcessed and setObjectCooldown.
Mark(l) ==
  /\ job.step = "mark"
  /\ processedEvents' = [processedEvents EXCEPT ![job.e] = now]
  /\ objectCooldowns' = [objectCooldowns EXCEPT ![Bucket(l)] = now + ObjectCooldown]
  /\ handled' = [handled EXCEPT ![job.p] = @ + 1]
  /\ cooledAt' = Stamp(cooledAt, l)
  /\ job' = [job EXCEPT !.step = "send", !.found = {}]
  /\ UNCHANGED <<now, process, cluster, api, queue, cooldownTracking, rateLimitTracking, sent,
                 passedAt>>
-----------------------------------------------------------------------------
(* processEvent.                                                            *)

\* updatePolicyStatus comes next; the reconcile fails if it does, or anyhow.
Report(fails) ==
  job' = [step |-> "status", e |-> job.e, p |-> job.p, fails |-> fails, tries |-> 0]

\* The token cannot be read: no request, and nothing in the status.
NoToken ==
  /\ job.step = "send"
  /\ Finish(TRUE)
  /\ UNCHANGED <<now, process, cluster, api, processedEvents, limits, history>>

\* The request cannot be generated.
NoRequest ==
  /\ job.step = "send"
  /\ Report(TRUE)
  /\ UNCHANGED <<now, process, cluster, api, queue, processedEvents, limits, history>>

\* sendMcpRequest: MCP has the request and answers yes or no, or the call fails, at
\* the latest after its timeout; the request is recorded when it leaves.
Send ==
  /\ job.step = "send"
  /\ sent' = [sent EXCEPT ![job.e] = [marked |-> processedEvents[job.e], process |-> starts]]
  /\ job' = [job EXCEPT !.step = "answer"]
  /\ UNCHANGED <<now, process, cluster, api, queue, processedEvents, limits, passedAt, cooledAt,
                 handled>>

Answer(fails) ==
  /\ job.step = "answer"
  /\ Report(fails)
  /\ UNCHANGED <<now, process, cluster, api, queue, processedEvents, limits, history>>

Count(p) == status' = [status EXCEPT ![p] = [new |-> FALSE, total |-> @.total + 1]]

StatusWritten ==
  /\ job.step = "status" /\ fresh[job.p]
  /\ Count(job.p)
  /\ fresh' = [fresh EXCEPT ![job.p] = FALSE]
  /\ Finish(job.fails)
  /\ UNCHANGED <<now, process, cluster, seenNew, processedEvents, limits, history>>

\* A bug: every error is retried, though the write may have been done.
StatusFailsRetried ==
  /\ job.step = "status"
  /\ \/ fresh[job.p] /\ Count(job.p) /\ fresh' = [fresh EXCEPT ![job.p] = FALSE]
     \/ UNCHANGED <<status, fresh>>
  /\ IF job.tries + 1 < MaxAttempts
     THEN job' = [job EXCEPT !.tries = @ + 1] /\ UNCHANGED queue
     ELSE Finish(TRUE)
  /\ UNCHANGED <<now, process, cluster, seenNew, processedEvents, limits, history>>

\* An error that is no conflict: the write may have been done, it is not repeated.
StatusFails ==
  /\ job.step = "status"
  /\ \/ fresh[job.p] /\ Count(job.p) /\ fresh' = [fresh EXCEPT ![job.p] = FALSE]
     \/ UNCHANGED <<status, fresh>>
  /\ Finish(TRUE)
  /\ UNCHANGED <<now, process, cluster, seenNew, processedEvents, limits, history>>

\* A bug: one attempt too many.
StatusConflictOnceMore ==
  /\ job.step = "status"
  /\ IF job.tries < MaxAttempts
     THEN job' = [job EXCEPT !.tries = @ + 1] /\ UNCHANGED queue
     ELSE Finish(TRUE)
  /\ UNCHANGED <<now, process, cluster, api, processedEvents, limits, history>>

\* The cached copy was outdated, or could not be read; the next attempt reads again.
StatusConflict ==
  /\ job.step = "status"
  /\ IF job.tries + 1 < MaxAttempts
     THEN job' = [job EXCEPT !.tries = @ + 1] /\ UNCHANGED queue
     ELSE Finish(TRUE)
  /\ UNCHANGED <<now, process, cluster, api, processedEvents, limits, history>>
-----------------------------------------------------------------------------
(* reconcilePolicy: after changes of the policy and every five minutes.     *)

\* cleanupProcessedEvents and cleanupObjectCooldowns
Cleanup ==
  /\ processedEvents' = [x \in Versions |-> IF processedEvents[x] + ProcessedAge < now
                                            THEN 0 ELSE processedEvents[x]]
  /\ objectCooldowns' = [b \in Policies \X Keys |-> IF objectCooldowns[b] < now
                                                    THEN 0 ELSE objectCooldowns[b]]

ReconcilePolicy(p) ==
  /\ job = Idle /\ ~seenNew[p]
  /\ Cleanup
  /\ UNCHANGED <<now, process, cluster, api, queue, job, cooldownTracking,
                 rateLimitTracking, history>>

\* The cached policy has no status; initializePolicyStatus reads it once more.
ReconcileNewPolicy(p) ==
  /\ job = Idle /\ seenNew[p]
  /\ job' = [step |-> "init", p |-> p]
  /\ UNCHANGED <<now, process, cluster, api, queue, processedEvents, limits, history>>

initializePolicyStatus ==
  /\ job.step = "init" /\ fresh[job.p]
  /\ status' = [status EXCEPT ![job.p] = [new |-> FALSE, total |-> 0]]
  /\ fresh' = [fresh EXCEPT ![job.p] = FALSE]
  /\ Cleanup
  /\ job' = Idle
  /\ UNCHANGED <<now, process, cluster, seenNew, queue, cooldownTracking,
                 rateLimitTracking, history>>

InitializeFails ==
  /\ job.step = "init"
  /\ job' = Idle
  /\ UNCHANGED <<now, process, cluster, api, queue, processedEvents, limits, history>>
-----------------------------------------------------------------------------
Cluster ==
  \/ \E e \in Events : Occur(e)
  \/ \E p \in Policies : Edit(p) \/ CacheFollows(p)

ReconcileEvent ==
  \/ \E e \in Events : Ignore(e) \/ \E p \in Policies : Take(e, p)
  \/ \E l \in Lookups : isObjectInCooldown(l) \/ Limited(l) \/ Pass(l) \/ Mark(l)
  \/ ReportLimited
  \/ NoToken \/ NoRequest \/ Send \/ \E fails \in BOOLEAN : Answer(fails)
  \/ StatusWritten \/ StatusFails \/ StatusConflict

PolicyReconciled ==
  \/ \E p \in Policies : ReconcilePolicy(p) \/ ReconcileNewPolicy(p)
  \/ initializePolicyStatus \/ InitializeFails

Next == Tick \/ StandBy \/ Lead \/ Cluster \/ ReconcileEvent \/ PolicyReconciled

Spec == Init /\ [][Next]_vars
-----------------------------------------------------------------------------
(* Correctness.                                                             *)

\* However often events are requeued after errors and status writes conflict, fail
\* or succeed unnoticed, no event is counted twice.
CountersHonest ==
  \A p \in Policies : status[p].total <= handled[p]

Sends == job.step = "send" /\ job'.step = "answer"

\* An event version goes to MCP once.  The exceptions: the mark of the version was old
\* enough to be forgotten, and every cooldown it had started was over, when it was
\* requeued; or the leader sent it while this process was standing by.
NoEarlyRepeat ==
  [][Sends /\ sent[job.e] # Never =>
       \/ sent[job.e].process = starts /\ now > sent[job.e].marked + ProcessedAge
       \/ sent[job.e].process < starts /\ sent[job.e].marked > startupTime]_vars

\* Two events of one object, or of two Pods of one Job or CronJob, pass a policy's
\* limits only with the cooldowns between them: each cooldown as far as the lookup that
\* checks it, and the one that set it, have found the owner, while the process lives.
Spaced ==
  [][job.step = "limit" /\ job'.step = "mark" =>
       LET b == <<job.p, Workload(ObjectOf[job.e[1]])>> IN
       /\ "limit" \in job'.found /\ EventsPerMinute[job.p] > 0 /\ passedAt[b] > 0
            => now >= passedAt[b] + CooldownMinutes[job.p]
       /\ "cooldown" \in job'.found /\ cooledAt[b] > 0
            => now >= cooledAt[b] + ObjectCooldown]_vars
=============================================================================
