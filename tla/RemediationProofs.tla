-------------------------- MODULE RemediationProofs --------------------------
(***************************************************************************)
(* The counters of a policy's status never run ahead of the events that    *)
(* were marked for it, no event is sent again early, and events of one     *)
(* workload keep their distance, for all events, policies and bounds.      *)
(***************************************************************************)
EXTENDS Remediation, TLAPS

-----------------------------------------------------------------------------
(* Types.                                                                   *)

EventJobs  == [step : Steps, e : Versions, p : Policies, found : SUBSET {"cooldown", "limit"}]
StatusJobs == [step : {"status"}, e : Versions, p : Policies, fails : BOOLEAN,
               tries : 0..(MaxAttempts - 1)]

\* The record of a job is known from its step.
LEMMA JobFields ==
  ASSUME job \in Jobs
  PROVE  /\ (job = Idle) <=> (job.step = "idle")
         /\ job.step \in Steps => job \in EventJobs
         /\ job.step = "status" => job \in StatusJobs
         /\ job.step = "init" => job \in [step : {"init"}, p : Policies]
<1>1. CASE job \in [step : {"idle"}]
  BY <1>1 DEF Idle, Steps
<1>2. CASE job \in EventJobs
  BY <1>2 DEF Idle, Steps, EventJobs
<1>3. CASE job \in StatusJobs
  BY <1>3 DEF Idle, Steps, StatusJobs
<1>4. CASE job \in [step : {"init"}, p : Policies]
  BY <1>4 DEF Idle, Steps
<1>5. QED
  BY <1>1, <1>2, <1>3, <1>4 DEF Jobs, EventJobs, StatusJobs

LEMMA JobSets ==
  /\ Idle \in Jobs /\ EventJobs \subseteq Jobs /\ StatusJobs \subseteq Jobs
  /\ \A p \in Policies : [step |-> "init", p |-> p] \in Jobs
  /\ Idle.step = "idle"
BY DEF Jobs, EventJobs, StatusJobs, Idle

\* The key that is looked up is one of the object's.
LEMMA BucketType ==
  ASSUME job \in EventJobs, NEW l \in Lookups
  PROVE  /\ Bucket(l) \in Policies \X Keys /\ Bucket(l)[1] = job.p
         /\ ObjectOf[job.e[1]] \in Objects /\ Workload(ObjectOf[job.e[1]]) \in Workloads
<1>1. ObjectOf[job.e[1]] \in Objects /\ job.p \in Policies
  BY ConstantsOK DEF EventJobs, Versions
<1>2. KeyOf[l][ObjectOf[job.e[1]]] \in Keys /\ Workload(ObjectOf[job.e[1]]) \in Workloads
  BY <1>1 DEF Keys, Workloads
<1>3. QED
  BY <1>1, <1>2 DEF Bucket

LEMMA CurrentType ==
  ASSUME TypeOK, NEW e \in queue
  PROVE  e \in Events /\ Current(e) \in Versions
<1>1. e \in Events /\ event[e].version \in 1..MaxOccurrences
  BY ConstantsOK DEF TypeOK
<1>2. QED
  BY <1>1 DEF Current, Versions

\* The type invariant in parts, with what makes it inductive: an event that is being
\* reconciled has occurred.
ClockType ==
  /\ now \in 1..MaxTime /\ starts \in 1..MaxStarts
  /\ startupTime \in 0..now /\ standby \in 0..now /\ (standby > 0 => starts < MaxStarts)
  /\ occurrences \in 0..MaxOccurrences
EventType ==
  /\ event \in [Events -> [version : 0..occurrences, time : 0..now]]
  /\ queue \subseteq {e \in Events : event[e].version > 0}
PolicyType ==
  /\ status \in [Policies -> [new : BOOLEAN, total : Nat]]
  /\ \A p \in Policies : status[p].new => status[p].total = 0
  /\ fresh \in [Policies -> BOOLEAN] /\ seenNew \in [Policies -> BOOLEAN]
  /\ handled \in [Policies -> Nat]
JobType ==
  /\ job \in Jobs /\ (job.step \in Steps => job.p \in Matches[job.e[1]])
  /\ job.step \in Steps \cup {"status"} => job.e[2] <= event[job.e[1]].version
LimitType ==
  /\ processedEvents \in [Versions -> 0..now]
  /\ objectCooldowns \in [Policies \X Keys -> 0..(now + ObjectCooldown)]
  /\ cooldownTracking \in [Policies \X Keys -> Nat]
  /\ \A b \in Policies \X Keys : cooldownTracking[b] <= now + CooldownMinutes[b[1]]
  /\ DOMAIN rateLimitTracking = Policies \X Keys
  /\ passedAt \in [Policies \X Workloads -> 0..now]
  /\ cooledAt \in [Policies \X Workloads -> 0..now]
SentType == sent \in [Versions -> [marked : 0..now, process : 0..starts]]

TInv == ClockType /\ EventType /\ PolicyType /\ JobType /\ LimitType /\ SentType

LEMMA TypeParts == TInv => TypeOK
BY DEF TInv, ClockType, EventType, PolicyType, JobType, LimitType, SentType, TypeOK

LEMMA TypeInit == Init => TInv
<1> SUFFICES ASSUME Init PROVE TInv
  OBVIOUS
<1>1. job \in Jobs /\ job.step \notin Steps \cup {"status"}
  BY JobSets DEF Init, Steps
<1>2. JobType
  BY <1>1 DEF JobType
<1>3. ClockType
  BY ConstantsOK DEF Init, ClockType
<1>4. EventType
  BY DEF Init, EventType
<1>5. SentType
  BY DEF Init, Never, SentType
<1>6. \A b \in Policies \X Keys : CooldownMinutes[b[1]] \in Nat
  BY ConstantsOK
<1>7. LimitType
  BY <1>6, ConstantsOK DEF Init, NoTimes, NoPasses, LimitType
<1>8. PolicyType
  BY DEF Init, PolicyType
<1>9. QED
  BY <1>2, <1>3, <1>4, <1>5, <1>7, <1>8 DEF TInv

\* Each part holds on when its variables are left alone, and while time goes on.
LEMMA ClockKept ==
  ASSUME ClockType, UNCHANGED <<now, process, occurrences>>
  PROVE  ClockType'
BY DEF ClockType, process

LEMMA EventKept ==
  ASSUME EventType, UNCHANGED <<now, cluster>>,
         queue' \subseteq {e \in Events : event[e].version > 0}
  PROVE  EventType'
BY DEF EventType, cluster

LEMMA PolicyKept ==
  ASSUME PolicyType, UNCHANGED <<status, handled, fresh, seenNew>>
  PROVE  PolicyType'
BY DEF PolicyType

LEMMA JobKept ==
  ASSUME JobType, UNCHANGED <<job, event>>
  PROVE  JobType'
BY DEF JobType

LEMMA LimitKept ==
  ASSUME LimitType, UNCHANGED <<now, processedEvents, limits, passedAt, cooledAt>>
  PROVE  LimitType'
BY DEF LimitType, limits

LEMMA SentKept ==
  ASSUME SentType, UNCHANGED <<now, process, sent>>
  PROVE  SentType'
BY DEF SentType, process

\* The jobs a step may leave behind.
LEMMA IdleJob ==
  ASSUME job' = Idle
  PROVE  JobType'
<1>1. job' \in Jobs /\ job'.step \notin Steps \cup {"status"}
  BY JobSets DEF Steps
<1>2. QED
  BY <1>1 DEF JobType

LEMMA SteppedJob ==
  ASSUME JobType, event' = event, job.step \in Steps,
         NEW s \in Steps, NEW f \in SUBSET {"cooldown", "limit"},
         job' = [job EXCEPT !.step = s, !.found = f]
  PROVE  /\ JobType' /\ job \in EventJobs /\ job' \in EventJobs
         /\ job'.e = job.e /\ job'.p = job.p /\ job'.step = s /\ job'.found = f
<1>1. job \in EventJobs
  BY JobFields DEF JobType
<1>2. /\ job' \in EventJobs /\ job'.e = job.e /\ job'.p = job.p
      /\ job'.step = s /\ job'.found = f
  BY <1>1 DEF EventJobs
<1>3. QED
  BY <1>1, <1>2, JobSets DEF JobType

LEMMA NotedJob ==
  ASSUME job \in EventJobs, NEW l \in Lookups, NEW use \in {"cooldown", "limit"}
  PROVE  Noting(l, use) \in SUBSET {"cooldown", "limit"}
BY DEF Noting, EventJobs

\* A step that leaves what was found as it is.
LEMMA MovedJob ==
  ASSUME JobType, event' = event, job.step \in Steps, NEW s \in Steps,
         job' = [job EXCEPT !.step = s]
  PROVE  /\ JobType' /\ job \in EventJobs /\ job' \in EventJobs
         /\ job'.e = job.e /\ job'.p = job.p /\ job'.step = s /\ job'.found = job.found
<1>1. job \in EventJobs
  BY JobFields DEF JobType
<1>2. /\ job' \in EventJobs /\ job'.e = job.e /\ job'.p = job.p
      /\ job'.step = s /\ job'.found = job.found
  BY <1>1 DEF EventJobs
<1>3. QED
  BY <1>1, <1>2, JobSets DEF JobType

LEMMA ReportJob ==
  ASSUME JobType, event' = event, job.step \in Steps, NEW fails \in BOOLEAN, Report(fails)
  PROVE  JobType'
<1>1. job \in EventJobs
  BY JobFields DEF JobType
<1>2. 0 \in 0..(MaxAttempts - 1)
  BY ConstantsOK
<1>3. job' \in StatusJobs /\ job'.step = "status" /\ job'.e = job.e
  BY <1>1, <1>2 DEF Report, EventJobs, StatusJobs
<1>4. QED
  BY <1>3, JobSets DEF JobType, Steps

LEMMA RetriedJob ==
  ASSUME JobType, event' = event, job.step = "status", job.tries + 1 < MaxAttempts,
         job' = [job EXCEPT !.tries = @ + 1]
  PROVE  JobType'
<1>1. job \in StatusJobs
  BY JobFields DEF JobType
<1>2. job.tries \in 0..(MaxAttempts - 1) /\ MaxAttempts \in Nat
  BY <1>1, ConstantsOK DEF StatusJobs
<1>3. job.tries + 1 \in 0..(MaxAttempts - 1)
  BY <1>2
<1>4. job' \in StatusJobs /\ job'.step = "status" /\ job'.e = job.e
  BY <1>1, <1>3 DEF StatusJobs
<1>5. QED
  BY <1>4, JobSets DEF JobType, Steps

\* An event whose reconcile ends has occurred, so it may be queued again.
LEMMA FinishTypes ==
  ASSUME TInv, job.step \in Steps \cup {"status"}, NEW again \in BOOLEAN, Finish(again)
  PROVE  JobType' /\ queue' \subseteq {e \in Events : event[e].version > 0}
<1>1. job.e \in Versions
  BY JobFields DEF TInv, JobType, EventJobs, StatusJobs
<1>2. job.e[1] \in Events /\ job.e[2] \in 1..MaxOccurrences /\ event[job.e[1]].version \in Nat
  BY <1>1, ConstantsOK DEF Versions, TInv, EventType, ClockType
<1>3. event[job.e[1]].version > 0
  BY <1>2, ConstantsOK DEF TInv, JobType
<1>4. QED
  BY <1>2, <1>3, IdleJob DEF Finish, TInv, EventType
-----------------------------------------------------------------------------
\* Time passes: every bound that mentions it grows.
LEMMA TickTypes ==
  ASSUME TInv, Tick
  PROVE  TInv'
<1>1. /\ now \in Nat /\ now' = now + 1 /\ now < MaxTime
      /\ UNCHANGED <<process, cluster, api, queue, job, processedEvents, limits, history>>
  BY ConstantsOK DEF Tick, TInv, ClockType
<1>2. now' \in 1..MaxTime /\ 0..now \subseteq 0..now'
      /\ 0..(now + ObjectCooldown) \subseteq 0..(now' + ObjectCooldown)
  BY <1>1, ConstantsOK
<1>3. ClockType'
  BY <1>1, <1>2 DEF TInv, ClockType, cluster, process
<1>4. EventType'
  BY <1>1, <1>2 DEF TInv, EventType, cluster
<1>5. ASSUME NEW b \in Policies \X Keys
      PROVE  cooldownTracking[b] <= now' + CooldownMinutes[b[1]]
  BY <1>1, ConstantsOK DEF TInv, LimitType
<1>6. LimitType'
  BY <1>1, <1>2, <1>5 DEF TInv, LimitType, limits, history
<1>7. SentType'
  BY <1>1, <1>2 DEF TInv, SentType, process, history
<1>8. PolicyType' /\ JobType'
  BY <1>1, PolicyKept, JobKept DEF TInv, api, history, cluster
<1>9. QED
  BY <1>3, <1>4, <1>6, <1>7, <1>8 DEF TInv

LEMMA OccurTypes ==
  ASSUME TInv, NEW e \in Events, Occur(e)
  PROVE  TInv'
<1> DEFINE new == [version |-> event[e].version + 1, time |-> now]
<1>1. /\ occurrences < MaxOccurrences /\ occurrences' = occurrences + 1
      /\ event' = [event EXCEPT ![e] = new] /\ queue' = queue \cup {e}
      /\ UNCHANGED <<now, process, api, job, processedEvents, limits, history>>
  BY DEF Occur
<1>2. occurrences \in Nat /\ now \in Nat /\ occurrences' \in 0..MaxOccurrences
  BY <1>1, ConstantsOK DEF TInv, ClockType
<1>3. \A f \in Events : event[f] \in [version : 0..occurrences, time : 0..now]
  BY DEF TInv, EventType
<1>4. event[e].version \in 0..occurrences /\ new \in [version : 0..occurrences', time : 0..now]
      /\ new.version = event[e].version + 1
  BY <1>1, <1>2, <1>3
<1> HIDE DEF new
<1>5. ASSUME NEW f \in Events
      PROVE  /\ event'[f] \in [version : 0..occurrences', time : 0..now]
             /\ event[f].version <= event'[f].version
             /\ f \in queue' => event'[f].version > 0
  <2>1. CASE f = e
    BY <1>1, <1>2, <1>4, <2>1 DEF TInv, EventType
  <2>2. CASE f # e
    <3>1. event'[f] = event[f] /\ (f \in queue' => f \in queue)
      BY <1>1, <2>2 DEF TInv, EventType
    <3>2. event[f] \in [version : 0..occurrences', time : 0..now]
      BY <1>1, <1>2, <1>3
    <3>3. QED
      BY <3>1, <3>2, <1>2 DEF TInv, EventType
  <2>3. QED
    BY <2>1, <2>2
<1>6. event' \in [Events -> [version : 0..occurrences', time : 0..now]]
  BY <1>1, <1>5 DEF TInv, EventType
<1>7. EventType'
  BY <1>1, <1>5, <1>6 DEF TInv, EventType
<1>8. ClockType'
  BY <1>1, <1>2 DEF TInv, ClockType, process
<1>9. JobType'
  <2>1. ASSUME job.step \in Steps \cup {"status"}
        PROVE  job.e[2] <= event'[job.e[1]].version
    <3>1. job.e \in Versions
      BY <2>1, JobFields DEF TInv, JobType, EventJobs, StatusJobs
    <3>2. job.e[1] \in Events /\ job.e[2] \in Nat
      BY <3>1, ConstantsOK DEF Versions
    <3>3. event[job.e[1]].version \in Nat /\ event'[job.e[1]].version \in Nat
      BY <3>2, <1>2, <1>3, <1>5
    <3>4. QED
      BY <2>1, <3>2, <3>3, <1>5 DEF TInv, JobType
  <2>2. QED
    BY <1>1, <2>1 DEF TInv, JobType
<1>10. PolicyType' /\ LimitType' /\ SentType'
  BY <1>1, PolicyKept, LimitKept, SentKept DEF TInv, api, history
<1>11. QED
  BY <1>7, <1>8, <1>9, <1>10 DEF TInv

LEMMA ClusterTypes ==
  ASSUME TInv, Cluster
  PROVE  TInv'
<1>1. CASE \E e \in Events : Occur(e)
  BY <1>1, OccurTypes
<1>3. CASE \E p \in Policies : Edit(p) \/ CacheFollows(p)
  <2>1. PICK p \in Policies : Edit(p) \/ CacheFollows(p)
    BY <1>3
  <2>2. \A q \in Policies : status[q].new \in BOOLEAN
    BY DEF TInv, PolicyType
  <2>3. fresh' \in [Policies -> BOOLEAN] /\ seenNew' \in [Policies -> BOOLEAN]
    BY <2>1, <2>2 DEF Edit, CacheFollows, TInv, PolicyType
  <2>4. PolicyType'
    BY <2>1, <2>3 DEF Edit, CacheFollows, TInv, PolicyType, history
  <2>5. ClockType' /\ EventType' /\ JobType' /\ LimitType' /\ SentType'
    BY <2>1, ClockKept, EventKept, JobKept, LimitKept, SentKept
    DEF Edit, CacheFollows, TInv, EventType, cluster, history
  <2>6. QED
    BY <2>4, <2>5 DEF TInv
<1>4. QED
  BY <1>1, <1>3 DEF Cluster

LEMMA StandByTypes ==
  ASSUME TInv, StandBy
  PROVE  TInv'
<1>1. now \in 0..now
  BY ConstantsOK DEF TInv, ClockType
<1>2. ClockType'
  BY <1>1 DEF StandBy, TInv, ClockType, cluster
<1>3. SentType'
  BY DEF StandBy, TInv, SentType, history
<1>4. EventType' /\ PolicyType' /\ JobType' /\ LimitType'
  BY EventKept, PolicyKept, JobKept, LimitKept
  DEF StandBy, TInv, EventType, cluster, api, history
<1>5. QED
  BY <1>2, <1>3, <1>4 DEF TInv

LEMMA LeadTypes ==
  ASSUME TInv, Lead
  PROVE  TInv'
<1>1. now \in 1..MaxTime /\ now \in Nat /\ starts \in Nat /\ MaxStarts \in Nat
  BY ConstantsOK DEF TInv, ClockType
<1>2. starts' \in 1..MaxStarts /\ 0..starts \subseteq 0..starts'
  BY <1>1 DEF Lead, TInv, ClockType
<1>3. ClockType'
  BY <1>1, <1>2 DEF Lead, TInv, ClockType, cluster
<1>4. EventType'
  BY <1>1 DEF Lead, TInv, EventType, cluster
<1>5. \A q \in Policies : status[q].new \in BOOLEAN
  BY DEF TInv, PolicyType
<1>6. PolicyType'
  BY <1>5 DEF Lead, TInv, PolicyType
<1>7. JobType'
  BY IdleJob DEF Lead
<1>8. \A b \in Policies \X Keys : CooldownMinutes[b[1]] \in Nat
  BY ConstantsOK
<1>9. LimitType'
  BY <1>1, <1>8, ConstantsOK DEF Lead, NoTimes, NoPasses, LimitType
<1>10. SentType'
  BY <1>1, <1>2 DEF Lead, TInv, SentType
<1>11. QED
  BY <1>3, <1>4, <1>6, <1>7, <1>9, <1>10 DEF TInv
-----------------------------------------------------------------------------
LEMMA TakeTypes ==
  ASSUME TInv, NEW e \in Events, Ignore(e) \/ \E p \in Policies : Take(e, p)
  PROVE  TInv'
<1>1. /\ e \in queue /\ queue' = queue \ {e}
      /\ UNCHANGED <<now, process, cluster, api, processedEvents, limits, history>>
  BY DEF Ignore, Take
<1>2. JobType'
  <2>1. CASE Ignore(e)
    BY <2>1, <1>1, JobKept DEF Ignore, TInv, cluster
  <2>2. CASE \E p \in Policies : Take(e, p)
    <3>1. PICK p \in Policies : p \in Matches[e] /\ job' = [step |-> "cooldown", e |-> Current(e), p |-> p, found |-> {}]
      BY <2>2 DEF Take
    <3>2. Current(e) \in Versions /\ Current(e)[1] = e /\ Current(e)[2] = event[e].version
      BY <1>1, CurrentType, TypeParts DEF Current
    <3>3. job' \in EventJobs /\ job'.step = "cooldown" /\ job'.e = Current(e) /\ job'.p = p
      BY <3>1, <3>2 DEF EventJobs, Steps
    <3>4. event[e].version \in Nat /\ event' = event
      BY <1>1, ConstantsOK DEF TInv, EventType, ClockType, cluster
    <3>5. QED
      BY <3>1, <3>2, <3>3, <3>4, JobSets DEF JobType
  <2>3. QED
    BY <2>1, <2>2
<1>3. EventType'
  BY <1>1 DEF TInv, EventType, cluster
<1>4. ClockType' /\ PolicyType' /\ LimitType' /\ SentType'
  BY <1>1, ClockKept, PolicyKept, LimitKept, SentKept DEF TInv, cluster, api, history
<1>5. QED
  BY <1>2, <1>3, <1>4 DEF TInv

LEMMA LimitedTypes ==
  ASSUME TInv, NEW l \in Lookups, isObjectInCooldown(l) \/ Limited(l)
  PROVE  TInv'
<1>1. /\ job.step \in Steps
      /\ UNCHANGED <<now, process, cluster, api, queue, processedEvents, limits, history>>
  BY DEF isObjectInCooldown, Limited, Steps
<1>2. job \in EventJobs
  BY <1>1, JobFields DEF TInv, JobType
<1>3. JobType'
  <2>1. CASE isObjectInCooldown(l)
    <3>1. \E s \in Steps : job' = [job EXCEPT !.step = s, !.found = Noting(l, "cooldown")]
      BY <2>1 DEF isObjectInCooldown, Steps
    <3>2. QED
      BY <1>1, <1>2, <3>1, NotedJob, SteppedJob DEF TInv, cluster
  <2>2. CASE Limited(l)
    <3>1. "limited" \in Steps /\ job' = [job EXCEPT !.step = "limited"]
      BY <2>2 DEF Limited, Steps
    <3>2. QED
      BY <1>1, <3>1, MovedJob DEF TInv, cluster
  <2>3. QED
    BY <2>1, <2>2
<1>4. ClockType' /\ EventType' /\ PolicyType' /\ LimitType' /\ SentType'
  BY <1>1, ClockKept, EventKept, PolicyKept, LimitKept, SentKept
  DEF TInv, EventType, cluster, api, history
<1>5. QED
  BY <1>3, <1>4 DEF TInv

\* What Pass does to the job.
LEMMA PassJob ==
  ASSUME TInv, NEW l \in Lookups, Pass(l)
  PROVE  /\ job \in EventJobs /\ JobType' /\ job'.e = job.e /\ job'.p = job.p /\ job'.step = "mark"
         /\ job'.found = Noting(l, "limit")
<1>1. job.step = "limit" /\ job.step \in Steps /\ "mark" \in Steps /\ event' = event
      /\ job' = [job EXCEPT !.step = "mark", !.found = Noting(l, "limit")]
  BY DEF Pass, cluster, Steps
<1>2. job \in EventJobs
  BY <1>1, JobFields DEF TInv, JobType
<1>3. QED
  BY <1>1, <1>2, NotedJob, SteppedJob DEF TInv

\* The history is kept by workload, and only of what was done with the owner's key.
LEMMA StampType ==
  ASSUME TInv, job \in EventJobs, NEW l \in Lookups,
         NEW at \in [Policies \X Workloads -> 0..now]
  PROVE  /\ Stamp(at, l) \in [Policies \X Workloads -> 0..now]
         /\ \A p \in Policies, w \in Workloads :
              Stamp(at, l)[<<p, w>>] = IF l = "owner" /\ p = job.p /\ w = Workload(ObjectOf[job.e[1]])
                                       THEN now ELSE at[<<p, w>>]
<1>1. Workload(ObjectOf[job.e[1]]) \in Workloads /\ job.p \in Policies /\ now \in 0..now
  BY BucketType, ConstantsOK DEF EventJobs, TInv, ClockType
<1> DEFINE w0 == Workload(ObjectOf[job.e[1]])
<1> HIDE DEF w0
<1>2. CASE l = "owner"
  <2>1. Stamp(at, l) = [at EXCEPT ![<<job.p, w0>>] = now]
    BY <1>2 DEF Stamp, w0
  <2>2. QED
    BY <1>1, <1>2, <2>1 DEF w0
<1>3. CASE l # "owner"
  BY <1>3 DEF Stamp
<1>4. QED
  BY <1>2, <1>3

\* Pass stamps the key that is looked up, and the workload.
LEMMA PassStamps ==
  ASSUME TInv, NEW l \in Lookups, Pass(l)
  PROVE  /\ UNCHANGED <<now, process, cluster, api, queue, processedEvents,
                        objectCooldowns, sent, cooledAt, handled>>
         /\ passedAt' = Stamp(passedAt, l)
         /\ \/ /\ EventsPerMinute[job.p] > 0 /\ CooldownMinutes[job.p] > 0
               /\ cooldownTracking' = [cooldownTracking EXCEPT ![Bucket(l)] = now + CooldownMinutes[job.p]]
            \/ /\ ~(EventsPerMinute[job.p] > 0 /\ CooldownMinutes[job.p] > 0)
               /\ cooldownTracking' = cooldownTracking
         /\ DOMAIN rateLimitTracking' = DOMAIN rateLimitTracking
BY DEF Pass

LEMMA PassTypes ==
  ASSUME TInv, NEW l \in Lookups, Pass(l)
  PROVE  TInv'
<1> DEFINE b == Bucket(l)
<1>0. job \in EventJobs
  BY PassJob
<1>1. b \in Policies \X Keys /\ b[1] = job.p /\ job.p \in Policies
  BY <1>0, BucketType DEF EventJobs
<1>2. /\ UNCHANGED <<now, process, cluster, api, queue, processedEvents,
                     objectCooldowns, sent, cooledAt, handled>>
      /\ passedAt' = Stamp(passedAt, l)
      /\ \/ cooldownTracking' = [cooldownTracking EXCEPT ![b] = now + CooldownMinutes[job.p]]
         \/ cooldownTracking' = cooldownTracking
      /\ DOMAIN rateLimitTracking' = DOMAIN rateLimitTracking
  BY PassStamps
<1> HIDE DEF b
<1>3. now \in Nat /\ now \in 0..now /\ CooldownMinutes[job.p] \in Nat
  BY <1>1, ConstantsOK DEF TInv, ClockType
<1>4. cooldownTracking' \in [Policies \X Keys -> Nat]
  BY <1>1, <1>2, <1>3 DEF TInv, LimitType
<1>5. ASSUME NEW c \in Policies \X Keys
      PROVE  cooldownTracking'[c] <= now + CooldownMinutes[c[1]]
  <2>1. cooldownTracking[c] <= now + CooldownMinutes[c[1]]
    BY DEF TInv, LimitType
  <2>2. CASE cooldownTracking'[c] = cooldownTracking[c]
    BY <2>1, <2>2
  <2>3. CASE c = b /\ cooldownTracking'[c] = now + CooldownMinutes[job.p]
    BY <2>3, <1>1, <1>3
  <2>4. QED
    BY <1>2, <2>2, <2>3 DEF TInv, LimitType
<1>6. passedAt' \in [Policies \X Workloads -> 0..now]
  BY <1>0, <1>2, StampType DEF TInv, LimitType
<1>7. LimitType'
  BY <1>2, <1>4, <1>5, <1>6 DEF TInv, LimitType
<1>8. ClockType' /\ EventType' /\ PolicyType' /\ JobType' /\ SentType'
  BY <1>2, PassJob, ClockKept, EventKept, PolicyKept, SentKept DEF TInv, EventType, cluster, api
<1>9. QED
  BY <1>7, <1>8 DEF TInv

LEMMA MarkTypes ==
  ASSUME TInv, NEW l \in Lookups, Mark(l)
  PROVE  /\ TInv' /\ job \in EventJobs /\ job'.e = job.e /\ job'.p = job.p /\ job'.step = "send"
         /\ job'.found = {} /\ Bucket(l) \in Policies \X Keys
<1>1. /\ job.step = "mark" /\ job.step \in Steps /\ "send" \in Steps
      /\ job' = [job EXCEPT !.step = "send", !.found = {}]
      /\ processedEvents' = [processedEvents EXCEPT ![job.e] = now]
      /\ objectCooldowns' = [objectCooldowns EXCEPT ![Bucket(l)] = now + ObjectCooldown]
      /\ handled' = [handled EXCEPT ![job.p] = @ + 1]
      /\ cooledAt' = Stamp(cooledAt, l)
      /\ UNCHANGED <<now, process, cluster, api, queue, cooldownTracking,
                     rateLimitTracking, sent, passedAt>>
  BY DEF Mark, Steps
<1>2. job \in EventJobs
  BY <1>1, JobFields DEF TInv, JobType
<1>3. JobType' /\ job'.e = job.e /\ job'.p = job.p /\ job'.step = "send" /\ job'.found = {}
  <2>1. {} \in SUBSET {"cooldown", "limit"}
    OBVIOUS
  <2>2. QED
    BY <1>1, <2>1, SteppedJob DEF TInv, cluster
<1>4. Bucket(l) \in Policies \X Keys
  BY <1>2, BucketType
<1>5. now \in 0..now /\ now + ObjectCooldown \in 0..(now + ObjectCooldown)
  BY ConstantsOK DEF TInv, ClockType
<1>6. job.p \in Policies /\ handled[job.p] \in Nat
  BY <1>2 DEF EventJobs, TInv, PolicyType
<1>7. handled' \in [Policies -> Nat]
  BY <1>1, <1>6 DEF TInv, PolicyType
<1>8. PolicyType'
  BY <1>1, <1>7 DEF TInv, PolicyType, api
<1>9. processedEvents' \in [Versions -> 0..now]
  BY <1>1, <1>5 DEF TInv, LimitType
<1>10. objectCooldowns' \in [Policies \X Keys -> 0..(now + ObjectCooldown)]
  BY <1>1, <1>4, <1>5 DEF TInv, LimitType
<1>11. cooledAt' \in [Policies \X Workloads -> 0..now]
  BY <1>1, <1>2, StampType DEF TInv, LimitType
<1>12. LimitType'
  BY <1>1, <1>9, <1>10, <1>11 DEF TInv, LimitType
<1>13. ClockType' /\ EventType' /\ SentType'
  BY <1>1, ClockKept, EventKept, SentKept DEF TInv, EventType, cluster
<1>14. QED
  BY <1>2, <1>3, <1>4, <1>8, <1>12, <1>13 DEF TInv

LEMMA SendTypes ==
  ASSUME TInv, Send
  PROVE  TInv' /\ job \in EventJobs /\ job'.e = job.e /\ job'.p = job.p /\ job'.step = "answer"
<1> DEFINE record == [marked |-> processedEvents[job.e], process |-> starts]
<1>1. /\ job.step = "send" /\ job' = [job EXCEPT !.step = "answer"]
      /\ sent' = [sent EXCEPT ![job.e] = record]
      /\ UNCHANGED <<now, process, cluster, api, queue, processedEvents, limits,
                     passedAt, cooledAt, handled>>
  BY DEF Send
<1>2. job \in EventJobs
  BY <1>1, JobFields DEF TInv, JobType, Steps
<1>3. JobType' /\ job'.e = job.e /\ job'.p = job.p /\ job'.step = "answer"
  BY <1>1, MovedJob DEF TInv, Steps, cluster
<1>4. record \in [marked : 0..now, process : 0..starts]
  BY <1>2, ConstantsOK DEF EventJobs, TInv, LimitType, ClockType
<1> HIDE DEF record
<1>5. SentType'
  BY <1>1, <1>4 DEF TInv, SentType, process
<1>6. ClockType' /\ EventType' /\ PolicyType' /\ LimitType'
  BY <1>1, ClockKept, EventKept, PolicyKept, LimitKept DEF TInv, EventType, cluster, api
<1>7. QED
  BY <1>2, <1>3, <1>5, <1>6 DEF TInv

LEMMA ReportTypes ==
  ASSUME TInv, NoRequest \/ \E fails \in BOOLEAN : Answer(fails)
  PROVE  TInv'
<1>1. /\ job.step \in Steps /\ \E fails \in BOOLEAN : Report(fails)
      /\ UNCHANGED <<now, process, cluster, api, queue, processedEvents, limits, history>>
  BY DEF NoRequest, Answer, Steps
<1>2. JobType'
  BY <1>1, ReportJob DEF TInv, cluster
<1>3. ClockType' /\ EventType' /\ PolicyType' /\ LimitType' /\ SentType'
  BY <1>1, ClockKept, EventKept, PolicyKept, LimitKept, SentKept
  DEF TInv, EventType, cluster, api, history
<1>4. QED
  BY <1>2, <1>3 DEF TInv

\* The steps that end a reconcile, or leave it to the next attempt of the status update,
\* and touch only the policy.
LEMMA EndTypes ==
  ASSUME TInv, JobType', PolicyType', queue' \subseteq {e \in Events : event[e].version > 0},
         UNCHANGED <<now, process, cluster, processedEvents, limits, sent, passedAt, cooledAt>>
  PROVE  TInv'
<1>1. ClockType' /\ EventType' /\ LimitType' /\ SentType'
  BY ClockKept, EventKept, LimitKept, SentKept DEF TInv, cluster
<1>2. QED
  BY <1>1 DEF TInv

LEMMA CountTypes ==
  ASSUME TInv, NEW p \in Policies, Count(p), fresh' = [fresh EXCEPT ![p] = FALSE],
         UNCHANGED <<seenNew, handled>>
  PROVE  PolicyType'
<1> DEFINE new == [new |-> FALSE, total |-> status[p].total + 1]
<1>1. status' = [status EXCEPT ![p] = new] /\ new \in [new : BOOLEAN, total : Nat] /\ ~new.new
  BY DEF Count, TInv, PolicyType
<1> HIDE DEF new
<1>2. QED
  BY <1>1 DEF TInv, PolicyType

LEMMA StatusTypes ==
  ASSUME TInv, StatusWritten \/ StatusFails \/ StatusConflict
  PROVE  TInv'
<1>1. /\ job.step = "status" /\ UNCHANGED <<seenNew, handled>>
      /\ UNCHANGED <<now, process, cluster, processedEvents, limits, sent, passedAt, cooledAt>>
  BY DEF StatusWritten, StatusFails, StatusConflict, api, history
<1>2. job.p \in Policies /\ job.fails \in BOOLEAN
  BY <1>1, JobFields DEF TInv, JobType, StatusJobs
<1>3. PolicyType'
  <2>1. CASE UNCHANGED <<status, fresh>>
    BY <2>1, <1>1, PolicyKept DEF TInv
  <2>2. CASE Count(job.p) /\ fresh' = [fresh EXCEPT ![job.p] = FALSE]
    BY <2>2, <1>1, <1>2, CountTypes
  <2>3. QED
    BY <2>1, <2>2 DEF StatusWritten, StatusFails, StatusConflict, api
<1>4. CASE \E again \in BOOLEAN : Finish(again)
  BY <1>1, <1>3, <1>4, FinishTypes, EndTypes
<1>5. CASE /\ job.tries + 1 < MaxAttempts /\ job' = [job EXCEPT !.tries = @ + 1]
           /\ queue' = queue
  <2>1. JobType'
    BY <1>1, <1>5, RetriedJob DEF TInv, cluster
  <2>2. QED
    BY <1>1, <1>3, <1>5, <2>1, EndTypes DEF TInv, EventType
<1>6. QED
  BY <1>2, <1>4, <1>5 DEF StatusWritten, StatusFails, StatusConflict

LEMMA EventDoneTypes ==
  ASSUME TInv, ReportLimited \/ NoToken
  PROVE  TInv'
<1>1. /\ job.step \in Steps /\ \E again \in BOOLEAN : Finish(again)
      /\ fresh' \in {fresh, [fresh EXCEPT ![job.p] = FALSE]} /\ UNCHANGED <<status, seenNew>>
      /\ UNCHANGED <<now, process, cluster, processedEvents, limits, history>>
  BY DEF ReportLimited, NoToken, Steps, api
<1>2. PolicyType'
  BY <1>1 DEF TInv, PolicyType, history
<1>3. QED
  BY <1>1, <1>2, FinishTypes, EndTypes DEF history

LEMMA EventTypesKept ==
  ASSUME TInv, ReconcileEvent
  PROVE  TInv'
<1>1. CASE \E e \in Events : Ignore(e) \/ \E p \in Policies : Take(e, p)
  BY <1>1, TakeTypes
<1>2. CASE \E l \in Lookups : isObjectInCooldown(l) \/ Limited(l)
  BY <1>2, LimitedTypes
<1>3. CASE \E l \in Lookups : Pass(l)
  BY <1>3, PassTypes
<1>4. CASE ReportLimited \/ NoToken
  BY <1>4, EventDoneTypes
<1>5. CASE \E l \in Lookups : Mark(l)
  BY <1>5, MarkTypes
<1>6. CASE Send
  BY <1>6, SendTypes
<1>7. CASE NoRequest \/ \E fails \in BOOLEAN : Answer(fails)
  BY <1>7, ReportTypes
<1>8. CASE StatusWritten \/ StatusFails \/ StatusConflict
  BY <1>8, StatusTypes
<1>9. QED
  BY <1>1, <1>2, <1>3, <1>4, <1>5, <1>6, <1>7, <1>8 DEF ReconcileEvent

\* Forgetting old marks and cooldowns leaves them in their ranges.
LEMMA CleanupTypes ==
  ASSUME TInv, Cleanup,
         UNCHANGED <<now, cooldownTracking, rateLimitTracking, passedAt, cooledAt>>
  PROVE  LimitType'
<1>1. now \in Nat /\ 0 \in 0..now /\ 0 \in 0..(now + ObjectCooldown)
  BY ConstantsOK DEF TInv, ClockType
<1>2. processedEvents' \in [Versions -> 0..now]
  BY <1>1 DEF Cleanup, TInv, LimitType
<1>3. objectCooldowns' \in [Policies \X Keys -> 0..(now + ObjectCooldown)]
  BY <1>1 DEF Cleanup, TInv, LimitType
<1>4. QED
  BY <1>2, <1>3 DEF TInv, LimitType

LEMMA PolicyTypesKept ==
  ASSUME TInv, PolicyReconciled
  PROVE  TInv'
<1>1. CASE \E p \in Policies : ReconcilePolicy(p)
  <2>1. /\ Cleanup
        /\ UNCHANGED <<now, process, cluster, api, queue, job, cooldownTracking,
                       rateLimitTracking, history>>
    BY <1>1 DEF ReconcilePolicy
  <2>2. LimitType'
    BY <2>1, CleanupTypes DEF history
  <2>3. ClockType' /\ EventType' /\ PolicyType' /\ JobType' /\ SentType'
    BY <2>1, ClockKept, EventKept, PolicyKept, JobKept, SentKept
    DEF TInv, EventType, cluster, api, history
  <2>4. QED
    BY <2>2, <2>3 DEF TInv
<1>2. CASE InitializeFails \/ \E p \in Policies : ReconcileNewPolicy(p)
  <2>1. /\ job' = Idle \/ \E p \in Policies : job' = [step |-> "init", p |-> p]
        /\ UNCHANGED <<now, process, cluster, api, queue, processedEvents, limits, history>>
    BY <1>2 DEF InitializeFails, ReconcileNewPolicy
  <2>2. JobType'
    <3>1. ASSUME NEW p \in Policies, job' = [step |-> "init", p |-> p]
          PROVE  JobType'
      <4>1. job' \in Jobs /\ job'.step = "init"
        BY <3>1, JobSets
      <4>2. QED
        BY <4>1 DEF JobType, Steps
    <3>2. QED
      BY <2>1, <3>1, IdleJob
  <2>3. PolicyType' /\ queue' \subseteq {e \in Events : event[e].version > 0}
    BY <2>1, PolicyKept DEF TInv, EventType, api, history
  <2>4. QED
    BY <2>1, <2>2, <2>3, EndTypes DEF history
<1>3. CASE initializePolicyStatus
  <2>1. /\ job.step = "init" /\ job' = Idle /\ Cleanup
        /\ status' = [status EXCEPT ![job.p] = [new |-> FALSE, total |-> 0]]
        /\ fresh' = [fresh EXCEPT ![job.p] = FALSE]
        /\ UNCHANGED <<now, process, cluster, seenNew, queue, cooldownTracking,
                       rateLimitTracking, history>>
    BY <1>3 DEF initializePolicyStatus
  <2>2. PolicyType'
    <3> DEFINE zero == [new |-> FALSE, total |-> 0]
    <3>1. zero \in [new : BOOLEAN, total : Nat] /\ zero.total = 0
      OBVIOUS
    <3>2. status' = [status EXCEPT ![job.p] = zero]
      BY <2>1
    <3> HIDE DEF zero
    <3>3. QED
      BY <2>1, <3>1, <3>2 DEF TInv, PolicyType, history
  <2>3. LimitType'
    BY <2>1, CleanupTypes DEF history
  <2>4. ClockType' /\ EventType' /\ JobType' /\ SentType'
    BY <2>1, ClockKept, EventKept, IdleJob, SentKept DEF TInv, EventType, cluster, history
  <2>5. QED
    BY <2>2, <2>3, <2>4 DEF TInv
<1>4. QED
  BY <1>1, <1>2, <1>3 DEF PolicyReconciled

LEMMA TypeNext == TInv /\ [Next]_vars => TInv'
<1> SUFFICES ASSUME TInv, [Next]_vars PROVE TInv'
  OBVIOUS
<1>1. CASE UNCHANGED vars
  <2>1. ClockType' /\ EventType' /\ PolicyType' /\ JobType' /\ LimitType' /\ SentType'
    BY <1>1, ClockKept, EventKept, PolicyKept, JobKept, LimitKept, SentKept
    DEF TInv, EventType, vars, cluster, api, history
  <2>2. QED
    BY <2>1 DEF TInv
<1>2. QED
  BY <1>1, TickTypes, StandByTypes, LeadTypes, ClusterTypes, EventTypesKept, PolicyTypesKept DEF Next

LEMMA TypesHold == Spec => []TInv
BY TypeInit, TypeNext, PTL DEF Spec

\* Marks, cooldowns, jobs and counters stay in their ranges: no mark and no request lies
\* in the future, no cooldown reaches further than its length, and every event that is
\* queued, also again after an error, is one that has occurred.
THEOREM TypeCorrect == Spec => []TypeOK
BY TypesHold, TypeParts, PTL
-----------------------------------------------------------------------------
(* The counters of a policy's status.                                       *)

\* Reconciles between the mark and the end of the status update, which owe a count.
Owing(p) == job.step \in {"send", "answer", "status"} /\ job.p = p

\* The inductive invariant: what is counted and what is still owed were marked.
IInv ==
  /\ DOMAIN status = Policies /\ DOMAIN handled = Policies
  /\ \A p \in Policies :
       /\ status[p].total \in Nat /\ handled[p] \in Nat
       /\ status[p].total <= handled[p]
       /\ Owing(p) => status[p].total < handled[p]

LEMMA InvInit == Init => IInv
BY DEF Init, IInv, Owing, Idle

-----------------------------------------------------------------------------
(* One lemma per way in which a step may touch the counters.                *)

\* Steps that leave the counters alone and do not start to owe.
LEMMA QuietStepKeeps ==
  ASSUME IInv, UNCHANGED <<status, handled>>,
         \A p \in Policies : Owing(p)' => Owing(p)
  PROVE  IInv'
BY DEF IInv

\* Marking an event is what starts to owe.
LEMMA MarkKeeps ==
  ASSUME IInv, NEW l \in Lookups, Mark(l)
  PROVE  IInv'
<1>1. /\ handled' = [handled EXCEPT ![job.p] = @ + 1] /\ status' = status
      /\ job' = [job EXCEPT !.step = "send", !.found = {}]
  BY DEF Mark, api
<1>2. job'.p = job.p
  BY <1>1
<1>3. DOMAIN status' = Policies /\ DOMAIN handled' = Policies
  BY <1>1 DEF IInv
<1>4. ASSUME NEW p \in Policies
      PROVE  /\ status'[p].total \in Nat /\ handled'[p] \in Nat
             /\ status'[p].total <= handled'[p]
             /\ Owing(p)' => status'[p].total < handled'[p]
  <2>1. CASE p = job.p
    BY <1>1, <2>1 DEF IInv
  <2>2. CASE p # job.p
    BY <1>1, <1>2, <2>2 DEF IInv, Owing
  <2>3. QED
    BY <2>1, <2>2
<1>5. QED
  BY <1>3, <1>4 DEF IInv

\* Counting one ends the debt.
LEMMA CountKeeps ==
  ASSUME IInv, job.step = "status", Count(job.p), handled' = handled, job' = Idle
  PROVE  IInv'
<1>1. status' = [status EXCEPT ![job.p] = [new |-> FALSE, total |-> @.total + 1]]
  BY DEF Count
<1>2. \A p \in Policies : ~Owing(p)'
  BY DEF Owing, Idle
<1>3. DOMAIN status' = Policies /\ DOMAIN handled' = Policies
  BY <1>1 DEF IInv
<1>4. ASSUME NEW p \in Policies
      PROVE  /\ status'[p].total \in Nat /\ handled'[p] \in Nat
             /\ status'[p].total <= handled'[p]
  <2>1. CASE p = job.p
    <3>1. status[p].total < handled[p] /\ status[p].total \in Nat /\ handled[p] \in Nat
      BY <2>1 DEF IInv, Owing
    <3>2. status'[p].total = status[p].total + 1
      BY <1>1, <2>1 DEF IInv
    <3>3. QED
      BY <3>1, <3>2
  <2>2. CASE p # job.p
    BY <1>1, <2>2 DEF IInv
  <2>3. QED
    BY <2>1, <2>2
<1>5. QED
  BY <1>2, <1>3, <1>4 DEF IInv

\* A status that is initialised starts at zero.
LEMMA InitializeKeeps ==
  ASSUME IInv, initializePolicyStatus
  PROVE  IInv'
<1>1. /\ status' = [status EXCEPT ![job.p] = [new |-> FALSE, total |-> 0]]
      /\ handled' = handled /\ job' = Idle
  BY DEF initializePolicyStatus, history
<1>2. \A p \in Policies : ~Owing(p)'
  BY <1>1 DEF Owing, Idle
<1>3. ASSUME NEW p \in Policies
      PROVE  status'[p].total \in Nat /\ status'[p].total <= handled[p]
  <2>1. CASE p = job.p
    BY <1>1, <2>1 DEF IInv
  <2>2. CASE p # job.p
    BY <1>1, <2>2 DEF IInv
  <2>3. QED
    BY <2>1, <2>2
<1>4. QED
  BY <1>1, <1>2, <1>3 DEF IInv
-----------------------------------------------------------------------------
LEMMA InvNext == TInv /\ IInv /\ [Next]_vars => IInv'
<1> SUFFICES ASSUME TInv, IInv, [Next]_vars PROVE IInv'
  OBVIOUS
<1>1. CASE Tick
  <2>1. UNCHANGED <<status, handled, job>>
    BY <1>1 DEF Tick, api, history
  <2>2. QED
    BY <2>1, QuietStepKeeps DEF Owing
<1>2. CASE StandBy \/ Lead
  <2>1. UNCHANGED <<status, handled>> /\ job' \in {job, Idle}
    BY <1>2 DEF StandBy, Lead, api, history
  <2>2. QED
    BY <2>1, QuietStepKeeps DEF Owing, Idle
<1>3. CASE Cluster
  <2>1. UNCHANGED <<status, handled, job>>
    BY <1>3 DEF Cluster, Occur, Edit, CacheFollows, api, history
  <2>2. QED
    BY <2>1, QuietStepKeeps DEF Owing
<1>4. CASE ReconcileEvent
  <2>1. CASE \E e \in Events : Ignore(e) \/ \E p \in Policies : Take(e, p)
    <3>1. UNCHANGED <<status, handled>> /\ (job' = job \/ job'.step = "cooldown")
      BY <2>1 DEF Ignore, Take, api, history
    <3>2. QED
      BY <3>1, QuietStepKeeps DEF Owing
  <2>2. CASE \E l \in Lookups : isObjectInCooldown(l) \/ Limited(l) \/ Pass(l)
    <3>1. UNCHANGED <<status, handled>> /\ job.step \in {"cooldown", "limit"}
      BY <2>2 DEF isObjectInCooldown, Limited, Pass, api, history
    <3>2. job \in EventJobs
      BY <3>1, JobFields DEF TInv, JobType, Steps
    <3>3. job'.step \in {"limited", "limit", "mark"}
      BY <2>2, <3>2 DEF isObjectInCooldown, Limited, Pass, EventJobs
    <3>4. QED
      BY <3>1, <3>3, QuietStepKeeps DEF Owing
  <2>4. CASE ReportLimited \/ NoToken
    <3>1. UNCHANGED <<status, handled>> /\ job' = Idle
      BY <2>4 DEF ReportLimited, NoToken, Finish, api, history
    <3>2. QED
      BY <3>1, QuietStepKeeps DEF Owing, Idle
  <2>5. CASE \E l \in Lookups : Mark(l)
    BY <2>5, MarkKeeps
  <2>6. CASE Send
    <3>1. /\ UNCHANGED <<status, handled>> /\ job.step = "send"
          /\ job' = [job EXCEPT !.step = "answer"]
      BY <2>6 DEF Send, api
    <3>2. job'.p = job.p
      BY <3>1
    <3>3. QED
      BY <3>1, <3>2, QuietStepKeeps DEF Owing
  <2>7. CASE NoRequest \/ \E fails \in BOOLEAN : Answer(fails)
    <3>1. UNCHANGED <<status, handled>> /\ job.step \in {"send", "answer"} /\ job'.p = job.p
      BY <2>7 DEF NoRequest, Answer, Report, api, history
    <3>2. QED
      BY <3>1, QuietStepKeeps DEF Owing
  <2>8. CASE StatusWritten
    BY <2>8, CountKeeps DEF StatusWritten, Finish, history
  <2>9. CASE StatusFails
    <3>1. job.step = "status" /\ handled' = handled /\ job' = Idle
      BY <2>9 DEF StatusFails, Finish, history
    <3>2. CASE Count(job.p)
      BY <3>1, <3>2, CountKeeps
    <3>3. CASE status' = status
      BY <3>1, <3>3, QuietStepKeeps DEF Owing, Idle
    <3>4. QED
      BY <2>9, <3>2, <3>3 DEF StatusFails
  <2>10. CASE StatusConflict
    <3>1. UNCHANGED <<status, handled>> /\ job.step = "status"
      BY <2>10 DEF StatusConflict, api, history
    <3>2. job' = Idle \/ job' = [job EXCEPT !.tries = @ + 1]
      BY <2>10 DEF StatusConflict, Finish
    <3>3. CASE job' = Idle
      BY <3>1, <3>3, QuietStepKeeps DEF Owing, Idle
    <3>4. CASE job' = [job EXCEPT !.tries = @ + 1]
      <4>1. job'.p = job.p
        BY <3>4
      <4>2. QED
        BY <3>1, <4>1, QuietStepKeeps DEF Owing
    <3>5. QED
      BY <3>2, <3>3, <3>4
  <2>11. QED
    BY <1>4, <2>1, <2>2, <2>4, <2>5, <2>6, <2>7, <2>8, <2>9, <2>10 DEF ReconcileEvent
<1>5. CASE PolicyReconciled
  <2>1. CASE initializePolicyStatus
    BY <2>1, InitializeKeeps
  <2>2. CASE InitializeFails \/ \E p \in Policies : ReconcilePolicy(p) \/ ReconcileNewPolicy(p)
    <3>1. UNCHANGED <<status, handled>> /\ (job' \in {job, Idle} \/ job'.step = "init")
      BY <2>2 DEF InitializeFails, ReconcilePolicy, ReconcileNewPolicy, api, history
    <3>2. QED
      BY <3>1, QuietStepKeeps DEF Owing, Idle
  <2>3. QED
    BY <1>5, <2>1, <2>2 DEF PolicyReconciled
<1>6. CASE UNCHANGED vars
  <2>1. UNCHANGED <<status, handled, job>>
    BY <1>6 DEF vars, api, history
  <2>2. QED
    BY <2>1, QuietStepKeeps DEF Owing
<1>7. QED
  BY <1>1, <1>2, <1>3, <1>4, <1>5, <1>6 DEF Next

\* No event is counted twice in a policy's status, however often status updates
\* conflict, fail after they were done, or are cut off by a crash.
THEOREM CountsAreHonest == Spec => []CountersHonest
<1>1. IInv => CountersHonest
  BY DEF IInv, CountersHonest
<1>2. QED
  BY <1>1, InvInit, InvNext, TypesHold, PTL DEF Spec
-----------------------------------------------------------------------------
(* No early repeat.                                                         *)

Unsent == {"cooldown", "limit", "limited", "mark", "send"}

\* The inductive invariant about a version that was sent: it was marked no earlier than
\* the event happened; for the process that sent it, it is still marked or old; and if it
\* is being reconciled again, it is old, or was sent while this process stood by.
Repeatable(x) ==
  /\ x[2] <= event[x[1]].version
  /\ event[x[1]].version = x[2] => event[x[1]].time <= sent[x].marked
  /\ sent[x].process = starts =>
       \/ now > sent[x].marked + ProcessedAge
       \/ processedEvents[x] > 0 /\ sent[x].marked <= processedEvents[x]
  /\ job.step \in Unsent /\ job.e = x =>
       IF sent[x].process = starts THEN now > sent[x].marked + ProcessedAge
       ELSE sent[x].marked > startupTime

\* A mark is no earlier than the event.
Marked(x) ==
  processedEvents[x] > 0 =>
    /\ x[2] <= event[x[1]].version
    /\ event[x[1]].version = x[2] => event[x[1]].time <= processedEvents[x]

RInv ==
  /\ \A x \in Versions : Marked(x) /\ (sent[x] # Never => Repeatable(x))
  /\ job.step = "send" => processedEvents[job.e] > 0

LEMMA RepeatInit == Init => RInv
<1> SUFFICES ASSUME Init PROVE RInv
  OBVIOUS
<1>1. \A x \in Versions : sent[x] = Never
  BY DEF Init
<1>2. job.step # "send"
  BY JobSets DEF Init
<1>3. \A x \in Versions : processedEvents[x] = 0
  BY DEF Init
<1>4. QED
  BY <1>1, <1>2, <1>3 DEF RInv, Marked

\* What the types say of one version.
LEMMA VersionTypes ==
  ASSUME TInv, NEW x \in Versions
  PROVE  /\ x[1] \in Events /\ x[2] \in Nat /\ event[x[1]].version \in Nat
         /\ event[x[1]].time \in 0..now /\ now \in Nat /\ starts \in Nat /\ startupTime \in Nat
         /\ sent[x].marked \in Nat /\ sent[x].process \in 0..starts
         /\ processedEvents[x] \in 0..now /\ ProcessedAge \in Nat
<1>1. x[1] \in Events /\ x[2] \in Nat
  BY ConstantsOK DEF Versions
<1>2. now \in Nat /\ starts \in Nat /\ startupTime \in Nat /\ occurrences \in Nat
  BY ConstantsOK DEF TInv, ClockType
<1>3. event[x[1]].version \in Nat /\ event[x[1]].time \in 0..now
  BY <1>1, <1>2 DEF TInv, EventType
<1>4. sent[x].marked \in Nat /\ sent[x].process \in 0..starts
  BY <1>2 DEF TInv, SentType
<1>5. QED
  BY <1>1, <1>2, <1>3, <1>4, ConstantsOK DEF TInv, LimitType

\* Steps that neither send nor take, mark or forget an event, time going on or not.
LEMMA RepeatKept ==
  ASSUME TInv, RInv, now' \in Nat, now' >= now,
         UNCHANGED <<process, event, sent, processedEvents>>,
         job'.step \in Unsent => job.step \in Unsent /\ job'.e = job.e,
         job'.step = "send" => job.step = "send"
  PROVE  RInv'
<1>1. ASSUME NEW x \in Versions, sent[x] # Never
      PROVE  Repeatable(x)'
  <2>1. Repeatable(x)
    BY <1>1 DEF RInv
  <2>2. now > sent[x].marked + ProcessedAge => now' > sent[x].marked + ProcessedAge
    BY VersionTypes
  <2>3. QED
    BY <2>1, <2>2 DEF Repeatable, process
<1>2. job'.step = "send" => processedEvents[job'.e] > 0
  BY DEF RInv, Unsent
<1>3. QED
  BY <1>1, <1>2 DEF RInv, Marked

\* An event that recurs has a later version than every one that was marked or sent.
LEMMA OccurRepeats ==
  ASSUME TInv, RInv, NEW e \in Events, Occur(e)
  PROVE  RInv'
<1>1. /\ event' = [event EXCEPT ![e] = [version |-> @.version + 1, time |-> now]]
      /\ UNCHANGED <<now, process, job, processedEvents, sent>>
  BY DEF Occur, history
<1>2. ASSUME NEW x \in Versions
      PROVE  /\ x[2] <= event[x[1]].version =>
                  x[2] <= event'[x[1]].version /\ (event'[x[1]].version = x[2] => event'[x[1]] = event[x[1]])
  <2>1. CASE x[1] # e
    BY <2>1, <1>1 DEF TInv, EventType
  <2>2. CASE x[1] = e
    <3>1. event'[x[1]].version = event[x[1]].version + 1
      BY <2>2, <1>1, VersionTypes DEF TInv, EventType
    <3>2. QED
      BY <3>1, VersionTypes
  <2>3. QED
    BY <2>1, <2>2
<1>3. ASSUME NEW x \in Versions, sent[x] # Never
      PROVE  Repeatable(x)'
  <2>1. Repeatable(x)
    BY <1>3 DEF RInv
  <2>2. QED
    BY <1>1, <1>2, <2>1 DEF Repeatable, process
<1>4. ASSUME NEW x \in Versions
      PROVE  Marked(x)'
  <2>1. Marked(x)
    BY DEF RInv
  <2>2. QED
    BY <1>1, <1>2, <2>1 DEF Marked
<1>5. QED
  BY <1>1, <1>3, <1>4 DEF RInv

\* A new process is not the one that sent a version, and has marked none.
LEMMA LeadRepeats ==
  ASSUME TInv, RInv, Lead
  PROVE  RInv'
<1>1. /\ starts' = starts + 1 /\ job' = Idle /\ processedEvents' = [x \in Versions |-> 0]
      /\ UNCHANGED <<now, event, sent>>
  BY DEF Lead, cluster
<1>2. job'.step \notin Unsent
  BY <1>1, JobSets DEF Unsent
<1>3. ASSUME NEW x \in Versions, sent[x] # Never
      PROVE  Repeatable(x)'
  <2>1. Repeatable(x)
    BY <1>3 DEF RInv
  <2>2. sent[x].process # starts + 1
    BY VersionTypes
  <2>3. QED
    BY <1>1, <1>2, <2>1, <2>2 DEF Repeatable
<1>4. \A x \in Versions : processedEvents'[x] = 0
  BY <1>1
<1>5. QED
  BY <1>1, <1>2, <1>3, <1>4 DEF RInv, Unsent, Marked

\* What is taken is neither historical nor marked.
LEMMA TakeRepeats ==
  ASSUME TInv, RInv, NEW e \in Events, NEW p \in Policies, Take(e, p)
  PROVE  RInv'
<1>1. /\ e \in queue /\ ~Historical(e) /\ processedEvents[Current(e)] = 0
      /\ job' = [step |-> "cooldown", e |-> Current(e), p |-> p, found |-> {}]
      /\ UNCHANGED <<now, process, event, processedEvents, sent>>
  BY DEF Take, cluster, history
<1>2. ASSUME NEW x \in Versions, sent[x] # Never
      PROVE  Repeatable(x)'
  <2>1. Repeatable(x)
    BY <1>2 DEF RInv
  <2>2. ASSUME job'.e = x
        PROVE  IF sent[x].process = starts THEN now > sent[x].marked + ProcessedAge
               ELSE sent[x].marked > startupTime
    <3>1. x[1] = e /\ event[x[1]].version = x[2] /\ event[x[1]].time > startupTime
          /\ processedEvents[x] = 0
      BY <1>1, <2>2, VersionTypes DEF Current, Historical
    <3>2. QED
      BY <2>1, <3>1, VersionTypes DEF Repeatable
  <2>3. QED
    BY <1>1, <2>1, <2>2 DEF Repeatable, process
<1>3. job'.step # "send"
  BY <1>1
<1>4. QED
  BY <1>1, <1>2, <1>3 DEF RInv, Marked

LEMMA MarkRepeats ==
  ASSUME TInv, RInv, NEW l \in Lookups, Mark(l)
  PROVE  RInv'
<1>1. /\ job.step = "mark" /\ job \in EventJobs /\ job'.e = job.e /\ job'.step = "send"
      /\ processedEvents' = [processedEvents EXCEPT ![job.e] = now]
      /\ UNCHANGED <<now, process, event, sent>>
  BY MarkTypes DEF Mark, cluster
<1>2. job.e \in Versions /\ now \in Nat /\ now > 0
  BY <1>1 DEF EventJobs, TInv, ClockType
<1>3. ASSUME NEW x \in Versions, sent[x] # Never
      PROVE  Repeatable(x)'
  <2>1. Repeatable(x)
    BY <1>3 DEF RInv
  <2>2. job.e # x => processedEvents'[x] = processedEvents[x]
    BY <1>1, <1>2 DEF TInv, LimitType
  <2>3. job.e = x => IF sent[x].process = starts THEN now > sent[x].marked + ProcessedAge
                     ELSE sent[x].marked > startupTime
    BY <1>1, <2>1 DEF Repeatable, Unsent
  <2>4. QED
    BY <1>1, <2>1, <2>2, <2>3 DEF Repeatable, Unsent, process
<1>4. processedEvents'[job.e] = now
  BY <1>1, <1>2 DEF TInv, LimitType
<1>5. job.e[2] <= event[job.e[1]].version
  BY <1>1 DEF TInv, JobType, Steps
<1>6. ASSUME NEW x \in Versions
      PROVE  Marked(x)'
  <2>1. CASE x = job.e
    BY <1>1, <1>4, <1>5, <2>1, VersionTypes DEF Marked
  <2>2. CASE x # job.e
    <3>1. Marked(x) /\ processedEvents'[x] = processedEvents[x]
      BY <1>1, <2>2 DEF RInv, TInv, LimitType
    <3>2. QED
      BY <1>1, <3>1 DEF Marked
  <2>3. QED
    BY <2>1, <2>2
<1>7. QED
  BY <1>1, <1>2, <1>3, <1>4, <1>6 DEF RInv

LEMMA SendRepeats ==
  ASSUME TInv, RInv, Send
  PROVE  RInv'
<1> DEFINE record == [marked |-> processedEvents[job.e], process |-> starts]
<1>1. /\ job.step = "send" /\ job \in EventJobs /\ job'.step = "answer"
      /\ sent' = [sent EXCEPT ![job.e] = record]
      /\ UNCHANGED <<now, process, event, processedEvents>>
  BY SendTypes DEF Send, cluster
<1>2. record.marked = processedEvents[job.e] /\ record.process = starts
  OBVIOUS
<1> HIDE DEF record
<1>3. job.e \in Versions /\ Marked(job.e) /\ processedEvents[job.e] > 0
  BY <1>1 DEF EventJobs, RInv
<1>4. job'.step \notin Unsent /\ job'.step # "send"
  BY <1>1 DEF Unsent
<1>5. ASSUME NEW x \in Versions, sent'[x] # Never
      PROVE  Repeatable(x)'
  <2>1. CASE x = job.e
    <3>1. sent'[x].marked = processedEvents[x] /\ sent'[x].process = starts
      BY <1>1, <1>2, <2>1 DEF TInv, SentType
    <3>2. QED
      BY <1>1, <1>3, <1>4, <2>1, <3>1, VersionTypes DEF Repeatable, Marked, process
  <2>2. CASE x # job.e
    <3>1. sent'[x] = sent[x]
      BY <1>1, <2>2 DEF TInv, SentType
    <3>2. Repeatable(x)
      BY <1>5, <3>1 DEF RInv
    <3>3. QED
      BY <1>1, <1>4, <3>1, <3>2 DEF Repeatable, process
  <2>3. QED
    BY <2>1, <2>2
<1>6. QED
  BY <1>1, <1>4, <1>5 DEF RInv, Marked

\* A mark is forgotten only when it is old; nothing is being reconciled meanwhile.
LEMMA CleanupRepeats ==
  ASSUME TInv, RInv, Cleanup, job'.step \notin Unsent,
         UNCHANGED <<now, process, event, sent>>
  PROVE  RInv'
<1>1. ASSUME NEW x \in Versions, sent[x] # Never
      PROVE  Repeatable(x)'
  <2>1. Repeatable(x)
    BY <1>1 DEF RInv
  <2>2. \/ processedEvents'[x] = processedEvents[x]
        \/ processedEvents[x] + ProcessedAge < now
    BY DEF Cleanup
  <2>3. QED
    BY <2>1, <2>2, VersionTypes DEF Repeatable, process
<1>2. ASSUME NEW x \in Versions
      PROVE  Marked(x)'
  <2>1. Marked(x) /\ processedEvents'[x] \in {processedEvents[x], 0}
    BY DEF Cleanup, RInv
  <2>2. QED
    BY <2>1 DEF Marked
<1>3. QED
  BY <1>1, <1>2 DEF RInv, Unsent

\* The process that stands by takes nothing yet.
LEMMA StandByRepeats ==
  ASSUME TInv, RInv, now' = now, UNCHANGED <<starts, startupTime, event, sent, processedEvents, job>>
  PROVE  RInv'
BY DEF RInv, Repeatable, Marked

LEMMA RepeatNext == TInv /\ RInv /\ [Next]_vars => RInv'
<1> SUFFICES ASSUME TInv, RInv, [Next]_vars PROVE RInv'
  OBVIOUS
<1> USE DEF cluster, history
<1>0. now \in Nat /\ now <= now /\ Idle.step \notin Unsent /\ Idle.step # "send"
  BY JobSets, ConstantsOK DEF Unsent, TInv, ClockType
<1>1. CASE Tick
  <2>1. now' \in Nat /\ now' >= now
    BY <1>0, <1>1 DEF Tick
  <2>2. QED
    BY <1>1, <2>1, RepeatKept DEF Tick
<1>2. CASE StandBy \/ Lead
  <2>1. CASE StandBy
    BY <1>0, <2>1, StandByRepeats DEF StandBy
  <2>2. QED
    BY <1>2, <2>1, LeadRepeats
<1>3. CASE Cluster
  <2>1. CASE \E e \in Events : Occur(e)
    BY <2>1, OccurRepeats
  <2>3. CASE \E p \in Policies : Edit(p) \/ CacheFollows(p)
    BY <1>0, <2>3, RepeatKept DEF Edit, CacheFollows
  <2>4. QED
    BY <1>3, <2>1, <2>3 DEF Cluster
<1>4. CASE ReconcileEvent
  <2>1. CASE \E e \in Events : Ignore(e)
    BY <1>0, <2>1, RepeatKept DEF Ignore
  <2>2. CASE \E e \in Events, p \in Policies : Take(e, p)
    BY <2>2, TakeRepeats
  <2>3. CASE \E l \in Lookups : isObjectInCooldown(l) \/ Limited(l) \/ Pass(l)
    <3>1. /\ job.step \in {"cooldown", "limit"}
          /\ UNCHANGED <<now, process, event, sent, processedEvents>>
      BY <2>3 DEF isObjectInCooldown, Limited, Pass
    <3>2. job \in EventJobs
      BY <3>1, JobFields DEF TInv, JobType, Steps
    <3>3. job'.e = job.e /\ job'.step # "send"
      BY <2>3, <3>2 DEF isObjectInCooldown, Limited, Pass, EventJobs
    <3>4. QED
      BY <1>0, <3>1, <3>3, RepeatKept DEF Unsent
  <2>5. CASE ReportLimited \/ NoToken
    <3>1. job' = Idle /\ UNCHANGED <<now, process, event, sent, processedEvents>>
      BY <2>5 DEF ReportLimited, NoToken, Finish
    <3>2. QED
      BY <1>0, <3>1, RepeatKept
  <2>6. CASE \E l \in Lookups : Mark(l)
    BY <2>6, MarkRepeats
  <2>7. CASE Send
    BY <2>7, SendRepeats
  <2>8. CASE NoRequest \/ \E fails \in BOOLEAN : Answer(fails)
    <3>1. job'.step = "status" /\ UNCHANGED <<now, process, event, sent, processedEvents>>
      BY <2>8 DEF NoRequest, Answer, Report
    <3>2. QED
      BY <1>0, <3>1, RepeatKept DEF Unsent
  <2>9. CASE StatusWritten \/ StatusFails \/ StatusConflict
    <3>1. /\ job.step = "status" /\ (job' = Idle \/ job' = [job EXCEPT !.tries = @ + 1])
          /\ UNCHANGED <<now, process, event, sent, processedEvents>>
      BY <2>9 DEF StatusWritten, StatusFails, StatusConflict, Finish
    <3>2. job \in StatusJobs
      BY <3>1, JobFields DEF TInv, JobType
    <3>3. job' = Idle \/ job'.step = "status"
      BY <3>1, <3>2 DEF StatusJobs
    <3>4. QED
      BY <1>0, <3>1, <3>3, RepeatKept DEF Unsent
  <2>10. QED
    BY <1>4, <2>1, <2>2, <2>3, <2>5, <2>6, <2>7, <2>8, <2>9 DEF ReconcileEvent
<1>5. CASE PolicyReconciled
  <2>1. CASE \E p \in Policies : ReconcilePolicy(p)
    <3>1. job' = Idle /\ Cleanup /\ UNCHANGED <<now, process, event, sent>>
      BY <2>1 DEF ReconcilePolicy
    <3>2. QED
      BY <1>0, <3>1, CleanupRepeats
  <2>2. CASE \E p \in Policies : ReconcileNewPolicy(p)
    BY <1>0, <2>2, RepeatKept DEF ReconcileNewPolicy, Unsent
  <2>3. CASE InitializeFails
    <3>1. job' = Idle /\ UNCHANGED <<now, process, event, sent, processedEvents>>
      BY <2>3 DEF InitializeFails
    <3>2. QED
      BY <1>0, <3>1, RepeatKept
  <2>4. CASE initializePolicyStatus
    <3>1. job' = Idle /\ Cleanup /\ UNCHANGED <<now, process, event, sent>>
      BY <2>4 DEF initializePolicyStatus
    <3>2. QED
      BY <1>0, <3>1, CleanupRepeats
  <2>5. QED
    BY <1>5, <2>1, <2>2, <2>3, <2>4 DEF PolicyReconciled
<1>6. CASE UNCHANGED vars
  BY <1>0, <1>6, RepeatKept DEF vars
<1>7. QED
  BY <1>1, <1>2, <1>3, <1>4, <1>5, <1>6 DEF Next

\* Whatever is requeued, forgotten, or found again by a new process: an event version
\* that was sent is sent again only by the process that sent it, when its mark had become
\* old before the event was taken up again, or by a process that was already standing by,
\* with a startupTime of its own, when the leader before it marked and sent the version.
THEOREM SentOnce == Spec => NoEarlyRepeat
<1> DEFINE Excused ==
      \/ sent[job.e].process = starts /\ now > sent[job.e].marked + ProcessedAge
      \/ sent[job.e].process < starts /\ sent[job.e].marked > startupTime
<1>1. ASSUME TInv, RInv, Sends, sent[job.e] # Never
      PROVE  Excused
  <2>1. job.step = "send" /\ job.e \in Versions
    BY <1>1, JobFields DEF Sends, TInv, JobType, Steps, EventJobs
  <2>2. Repeatable(job.e)
    BY <1>1, <2>1 DEF RInv
  <2>3. sent[job.e].process \in 0..starts /\ starts \in Nat
    BY <1>1, <2>1, VersionTypes
  <2>4. QED
    BY <2>1, <2>2, <2>3 DEF Repeatable, Unsent
<1>2. TInv /\ RInv /\ [Next]_vars => [Sends /\ sent[job.e] # Never => Excused]_vars
  BY <1>1
<1>3. Spec => []RInv
  BY RepeatInit, RepeatNext, TypesHold, PTL DEF Spec
<1>4. QED
  BY <1>2, <1>3, TypesHold, PTL DEF Spec, NoEarlyRepeat
-----------------------------------------------------------------------------
(* Cooldowns between the events of a workload.                              *)

Handled == Workload(ObjectOf[job.e[1]])

\* The inductive invariant about a workload: as long as its key was looked up, a cooldown
\* reaches as far as the event that set it says, or is over; and a reconcile has checked
\* its object cooldown if it says so.
Cooling(p, w) ==
  /\ passedAt[<<p, w>>] > 0 /\ EventsPerMinute[p] > 0 /\ CooldownMinutes[p] > 0 =>
       cooldownTracking[<<p, w>>] >= passedAt[<<p, w>>] + CooldownMinutes[p]
  /\ cooledAt[<<p, w>>] > 0 =>
       \/ objectCooldowns[<<p, w>>] >= cooledAt[<<p, w>>] + ObjectCooldown
       \/ now >= cooledAt[<<p, w>>] + ObjectCooldown

Checked ==
  /\ job.step = "cooldown" => job.found = {}
  /\ job.step = "limit" =>
       /\ "limit" \notin job.found
       /\ "cooldown" \in job.found => now >= objectCooldowns[<<job.p, Handled>>]

CInv == (\A p \in Policies, w \in Workloads : Cooling(p, w)) /\ Checked

LEMMA CoolingInit == Init => CInv
<1> SUFFICES ASSUME Init PROVE CInv
  OBVIOUS
<1>1. \A p \in Policies, w \in Workloads : passedAt[<<p, w>>] = 0 /\ cooledAt[<<p, w>>] = 0
  BY DEF Init, NoPasses
<1>2. job.step \notin {"cooldown", "limit"}
  BY JobSets DEF Init
<1>3. QED
  BY <1>1, <1>2 DEF CInv, Cooling, Checked

\* What the types say of one workload.
LEMMA WorkloadTypes ==
  ASSUME TInv, NEW p \in Policies, NEW w \in Workloads
  PROVE  /\ <<p, w>> \in Policies \X Keys /\ now \in Nat
         /\ objectCooldowns[<<p, w>>] \in Nat /\ cooldownTracking[<<p, w>>] \in Nat
         /\ passedAt[<<p, w>>] \in 0..now /\ cooledAt[<<p, w>>] \in 0..now
         /\ ObjectCooldown \in Nat /\ CooldownMinutes[p] \in Nat /\ EventsPerMinute[p] \in Nat
<1>1. w \in Keys
  BY DEF Workloads, Workload, Keys, Lookups
<1>2. now \in Nat
  BY DEF TInv, ClockType
<1>3. QED
  BY <1>1, <1>2, ConstantsOK DEF TInv, LimitType

\* The workload of the event that is reconciled; its owner's key is that workload's.
LEMMA HandledWorkload ==
  ASSUME TInv, job.step \in Steps
  PROVE  /\ job \in EventJobs /\ job.p \in Policies /\ Handled \in Workloads
         /\ Bucket("owner") = <<job.p, Handled>>
<1>1. job \in EventJobs
  BY JobFields DEF TInv, JobType
<1>2. Handled \in Workloads
  BY <1>1, BucketType DEF Handled, Lookups
<1>3. QED
  BY <1>1, <1>2 DEF EventJobs, Bucket, Workload, Handled

\* Steps that leave the limits alone and check nothing, time going on or not.
LEMMA CoolingKept ==
  ASSUME TInv, CInv, now' \in Nat, now' >= now,
         UNCHANGED <<objectCooldowns, cooldownTracking, passedAt, cooledAt>>,
         \/ job' = job
         \/ job'.step \notin {"cooldown", "limit"}
         \/ job'.step = "cooldown" /\ job'.found = {}
  PROVE  CInv'
<1>1. ASSUME NEW p \in Policies, NEW w \in Workloads
      PROVE  Cooling(p, w)'
  <2>1. Cooling(p, w)
    BY DEF CInv
  <2>2. now >= cooledAt[<<p, w>>] + ObjectCooldown => now' >= cooledAt[<<p, w>>] + ObjectCooldown
    BY WorkloadTypes
  <2>3. QED
    BY <2>1, <2>2 DEF Cooling
<1>2. CASE job' = job
  <2>1. ASSUME job.step = "limit", "cooldown" \in job.found
        PROVE  now' >= objectCooldowns[<<job.p, Handled>>]
    <3>1. job.p \in Policies /\ Handled \in Workloads
      BY <2>1, HandledWorkload DEF Steps
    <3>2. now >= objectCooldowns[<<job.p, Handled>>]
      BY <2>1 DEF CInv, Checked
    <3>3. QED
      BY <3>1, <3>2, WorkloadTypes
  <2>2. Handled' = Handled
    BY <1>2 DEF Handled
  <2>3. QED
    BY <1>1, <1>2, <2>1, <2>2 DEF CInv, Checked
<1>3. CASE job'.step \notin {"cooldown", "limit"}
  BY <1>1, <1>3 DEF CInv, Checked
<1>4. CASE job'.step = "cooldown" /\ job'.found = {}
  BY <1>1, <1>4 DEF CInv, Checked
<1>5. QED
  BY <1>2, <1>3, <1>4

\* The check of the object cooldown counts when the owner was found.
LEMMA CheckCools ==
  ASSUME TInv, CInv, NEW l \in Lookups, isObjectInCooldown(l)
  PROVE  CInv'
<1> DEFINE s == IF now < objectCooldowns[Bucket(l)] THEN "limited" ELSE "limit"
<1>1. /\ job.step = "cooldown" /\ job.step \in Steps
      /\ job' = [job EXCEPT !.step = s, !.found = Noting(l, "cooldown")]
      /\ UNCHANGED <<now, event, objectCooldowns, cooldownTracking, passedAt, cooledAt>>
  BY DEF isObjectInCooldown, cluster, limits, history, Steps
<1>2. /\ job \in EventJobs /\ job.p \in Policies /\ Handled \in Workloads
      /\ Bucket("owner") = <<job.p, Handled>>
  BY <1>1, HandledWorkload
<1>3. job'.e = job.e /\ job'.p = job.p /\ job'.step = s /\ job'.found = Noting(l, "cooldown")
  BY <1>1, <1>2 DEF EventJobs
<1>4. Handled' = Handled
  BY <1>3 DEF Handled
<1>5. job.found = {}
  BY <1>1 DEF CInv, Checked
<1>6. "limit" \notin job'.found /\ ("cooldown" \in job'.found => l = "owner")
  BY <1>3, <1>5 DEF Noting
<1>7. ASSUME job'.step = "limit", "cooldown" \in job'.found
      PROVE  now >= objectCooldowns[<<job.p, Handled>>]
  <2>1. ~(now < objectCooldowns[<<job.p, Handled>>])
    BY <1>2, <1>3, <1>6, <1>7
  <2>2. QED
    BY <1>2, <2>1, WorkloadTypes
<1>8. \A p \in Policies, w \in Workloads : Cooling(p, w)'
  BY <1>1 DEF CInv, Cooling
<1>9. Checked'
  BY <1>1, <1>3, <1>4, <1>6, <1>7 DEF Checked
<1>10. QED
  BY <1>8, <1>9 DEF CInv

\* The cooldown that Pass sets reaches from now, no less than from any stamp.
LEMMA PassCools ==
  ASSUME TInv, CInv, NEW l \in Lookups, Pass(l)
  PROVE  CInv'
<1> DEFINE b == Bucket(l)
<1>1. /\ UNCHANGED <<now, objectCooldowns, cooledAt>> /\ passedAt' = Stamp(passedAt, l)
      /\ \/ /\ EventsPerMinute[job.p] > 0 /\ CooldownMinutes[job.p] > 0
            /\ cooldownTracking' = [cooldownTracking EXCEPT ![b] = now + CooldownMinutes[job.p]]
         \/ /\ ~(EventsPerMinute[job.p] > 0 /\ CooldownMinutes[job.p] > 0)
            /\ cooldownTracking' = cooldownTracking
  BY PassStamps
<1>2. /\ job \in EventJobs /\ b \in Policies \X Keys /\ b[1] = job.p
      /\ Bucket("owner") = <<job.p, Handled>> /\ job'.step = "mark"
  BY PassJob, BucketType, HandledWorkload DEF Pass, Steps
<1>3. ASSUME NEW p \in Policies, NEW w \in Workloads
      PROVE  Cooling(p, w)'
  <2>1. Cooling(p, w)
    BY DEF CInv
  <2>2. passedAt'[<<p, w>>] = IF l = "owner" /\ p = job.p /\ w = Handled
                              THEN now ELSE passedAt[<<p, w>>]
    BY <1>1, <1>2, StampType DEF Handled, TInv, LimitType
  <2>3. l = "owner" /\ p = job.p /\ w = Handled => <<p, w>> = b
    BY <1>2
  <2> HIDE DEF b
  <2>4. CASE <<p, w>> = b
    <3>1. p = job.p
      BY <1>2, <2>4
    <3>2. EventsPerMinute[p] > 0 /\ CooldownMinutes[p] > 0 =>
            cooldownTracking'[<<p, w>>] = now + CooldownMinutes[p]
      BY <1>1, <1>2, <2>4, <3>1 DEF TInv, LimitType
    <3>3. EventsPerMinute[p] > 0 /\ CooldownMinutes[p] > 0 =>
            cooldownTracking'[<<p, w>>] >= passedAt'[<<p, w>>] + CooldownMinutes[p]
      BY <2>2, <3>2, WorkloadTypes
    <3>4. QED
      BY <1>1, <2>1, <3>3 DEF Cooling
  <2>5. CASE <<p, w>> # b
    <3>1. cooldownTracking'[<<p, w>>] = cooldownTracking[<<p, w>>]
      BY <1>1, <2>5, WorkloadTypes DEF TInv, LimitType
    <3>2. QED
      BY <1>1, <2>1, <2>2, <2>3, <2>5, <3>1 DEF Cooling
  <2>6. QED
    BY <2>4, <2>5
<1>4. QED
  BY <1>2, <1>3 DEF CInv, Checked

LEMMA MarkCools ==
  ASSUME TInv, CInv, NEW l \in Lookups, Mark(l)
  PROVE  CInv'
<1> DEFINE b == Bucket(l)
<1>1. /\ job.step = "mark" /\ UNCHANGED <<now, cooldownTracking, passedAt>>
      /\ objectCooldowns' = [objectCooldowns EXCEPT ![b] = now + ObjectCooldown]
      /\ cooledAt' = Stamp(cooledAt, l)
  BY DEF Mark
<1>2. /\ job \in EventJobs /\ b \in Policies \X Keys /\ b[1] = job.p
      /\ Bucket("owner") = <<job.p, Handled>> /\ job'.step = "send"
  BY <1>1, MarkTypes, BucketType, HandledWorkload DEF Steps
<1>3. ASSUME NEW p \in Policies, NEW w \in Workloads
      PROVE  Cooling(p, w)'
  <2>1. Cooling(p, w)
    BY DEF CInv
  <2>2. cooledAt'[<<p, w>>] = IF l = "owner" /\ p = job.p /\ w = Handled
                              THEN now ELSE cooledAt[<<p, w>>]
    BY <1>1, <1>2, StampType DEF Handled, TInv, LimitType
  <2>3. l = "owner" /\ p = job.p /\ w = Handled => <<p, w>> = b
    BY <1>2
  <2> HIDE DEF b
  <2>4. CASE <<p, w>> = b
    <3>1. objectCooldowns'[<<p, w>>] = now + ObjectCooldown
      BY <1>1, <1>2, <2>4 DEF TInv, LimitType
    <3>2. objectCooldowns'[<<p, w>>] >= cooledAt'[<<p, w>>] + ObjectCooldown
      BY <2>2, <3>1, WorkloadTypes
    <3>3. QED
      BY <1>1, <2>1, <3>2 DEF Cooling
  <2>5. CASE <<p, w>> # b
    <3>1. objectCooldowns'[<<p, w>>] = objectCooldowns[<<p, w>>]
      BY <1>1, <2>5, WorkloadTypes DEF TInv, LimitType
    <3>2. QED
      BY <1>1, <2>1, <2>2, <2>3, <2>5, <3>1 DEF Cooling
  <2>6. QED
    BY <2>4, <2>5
<1>4. QED
  BY <1>2, <1>3 DEF CInv, Checked

\* Only cooldowns that are over are forgotten.
LEMMA CleanupCools ==
  ASSUME TInv, CInv, Cleanup, job'.step \notin {"cooldown", "limit"},
         UNCHANGED <<now, cooldownTracking, passedAt, cooledAt>>
  PROVE  CInv'
<1>1. ASSUME NEW p \in Policies, NEW w \in Workloads
      PROVE  Cooling(p, w)'
  <2>1. Cooling(p, w)
    BY DEF CInv
  <2>2. \/ objectCooldowns'[<<p, w>>] = objectCooldowns[<<p, w>>]
        \/ objectCooldowns[<<p, w>>] < now
    BY WorkloadTypes DEF Cleanup
  <2>3. objectCooldowns[<<p, w>>] < now =>
          \/ ~(objectCooldowns[<<p, w>>] >= cooledAt[<<p, w>>] + ObjectCooldown)
          \/ now >= cooledAt[<<p, w>>] + ObjectCooldown
    BY WorkloadTypes
  <2>4. QED
    BY <2>1, <2>2, <2>3 DEF Cooling
<1>2. QED
  BY <1>1 DEF CInv, Checked

LEMMA CoolingNext == TInv /\ CInv /\ [Next]_vars => CInv'
<1> SUFFICES ASSUME TInv, CInv, [Next]_vars PROVE CInv'
  OBVIOUS
<1> USE DEF cluster, history, limits
<1>0. now \in Nat /\ now <= now /\ Idle.step \notin {"cooldown", "limit"}
  BY JobSets, ConstantsOK DEF TInv, ClockType
<1>1. CASE Tick
  <2>1. now' \in Nat /\ now' >= now
    BY <1>0, <1>1 DEF Tick
  <2>2. QED
    BY <1>1, <2>1, CoolingKept DEF Tick
<1>2. CASE StandBy
  BY <1>0, <1>2, CoolingKept DEF StandBy
<1>3. CASE Lead
  <2>1. job'.step \notin {"cooldown", "limit"} /\ passedAt' = NoPasses /\ cooledAt' = NoPasses
    BY <1>0, <1>3 DEF Lead
  <2>2. \A p \in Policies, w \in Workloads : passedAt'[<<p, w>>] = 0 /\ cooledAt'[<<p, w>>] = 0
    BY <2>1 DEF NoPasses
  <2>3. QED
    BY <2>1, <2>2 DEF CInv, Cooling, Checked
<1>4. CASE Cluster
  BY <1>0, <1>4, CoolingKept DEF Cluster, Occur, Edit, CacheFollows
<1>5. CASE ReconcileEvent
  <2>1. CASE \E e \in Events : Ignore(e)
    BY <1>0, <2>1, CoolingKept DEF Ignore
  <2>2. CASE \E e \in Events, p \in Policies : Take(e, p)
    <3>1. /\ job'.step = "cooldown" /\ job'.found = {}
          /\ UNCHANGED <<now, objectCooldowns, cooldownTracking, passedAt, cooledAt>>
      BY <2>2 DEF Take
    <3>2. QED
      BY <1>0, <3>1, CoolingKept
  <2>3. CASE \E l \in Lookups : isObjectInCooldown(l)
    BY <2>3, CheckCools
  <2>4. CASE \E l \in Lookups : Limited(l)
    <3>1. /\ job.step = "limit" /\ job' = [job EXCEPT !.step = "limited"]
          /\ UNCHANGED <<now, event, objectCooldowns, cooldownTracking, passedAt, cooledAt>>
      BY <2>4 DEF Limited
    <3>2. job'.step = "limited"
      BY <3>1, MovedJob DEF TInv, Steps
    <3>3. QED
      BY <1>0, <3>1, <3>2, CoolingKept
  <2>5. CASE \E l \in Lookups : Pass(l)
    BY <2>5, PassCools
  <2>6. CASE \E l \in Lookups : Mark(l)
    BY <2>6, MarkCools
  <2>7. CASE Send
    <3>1. job'.step = "answer"
      BY <2>7, SendTypes
    <3>2. QED
      BY <1>0, <2>7, <3>1, CoolingKept DEF Send
  <2>8. CASE \/ ReportLimited \/ NoToken \/ NoRequest \/ \E fails \in BOOLEAN : Answer(fails)
    <3>1. /\ job' = Idle \/ job'.step = "status"
          /\ UNCHANGED <<now, objectCooldowns, cooldownTracking, passedAt, cooledAt>>
      BY <2>8 DEF ReportLimited, NoToken, NoRequest, Answer, Report, Finish
    <3>2. QED
      BY <1>0, <3>1, CoolingKept
  <2>9. CASE StatusWritten \/ StatusFails \/ StatusConflict
    <3>1. /\ job.step = "status" /\ (job' = Idle \/ job' = [job EXCEPT !.tries = @ + 1])
          /\ UNCHANGED <<now, objectCooldowns, cooldownTracking, passedAt, cooledAt>>
      BY <2>9 DEF StatusWritten, StatusFails, StatusConflict, Finish
    <3>2. job \in StatusJobs
      BY <3>1, JobFields DEF TInv, JobType
    <3>3. job'.step \notin {"cooldown", "limit"}
      BY <1>0, <3>1, <3>2 DEF StatusJobs
    <3>4. QED
      BY <1>0, <3>1, <3>3, CoolingKept
  <2>10. QED
    BY <1>5, <2>1, <2>2, <2>3, <2>4, <2>5, <2>6, <2>7, <2>8, <2>9 DEF ReconcileEvent
<1>6. CASE PolicyReconciled
  <2>1. CASE initializePolicyStatus \/ \E p \in Policies : ReconcilePolicy(p)
    <3>1. /\ job' = Idle /\ Cleanup
          /\ UNCHANGED <<now, cooldownTracking, passedAt, cooledAt>>
      BY <2>1 DEF ReconcilePolicy, initializePolicyStatus
    <3>2. QED
      BY <1>0, <3>1, CleanupCools
  <2>2. CASE InitializeFails \/ \E p \in Policies : ReconcileNewPolicy(p)
    <3>1. /\ job'.step \notin {"cooldown", "limit"}
          /\ UNCHANGED <<now, objectCooldowns, cooldownTracking, passedAt, cooledAt>>
      BY <1>0, <2>2 DEF ReconcileNewPolicy, InitializeFails
    <3>2. QED
      BY <1>0, <3>1, CoolingKept
  <2>3. QED
    BY <1>6, <2>1, <2>2 DEF PolicyReconciled
<1>7. CASE UNCHANGED vars
  BY <1>0, <1>7, CoolingKept DEF vars
<1>8. QED
  BY <1>1, <1>2, <1>3, <1>4, <1>5, <1>6, <1>7 DEF Next

\* What Spaced says of one step.
Apart ==
  job.step = "limit" /\ job'.step = "mark" =>
    LET b == <<job.p, Workload(ObjectOf[job.e[1]])>> IN
    /\ "limit" \in job'.found /\ EventsPerMinute[job.p] > 0 /\ passedAt[b] > 0
         => now >= passedAt[b] + CooldownMinutes[job.p]
    /\ "cooldown" \in job'.found /\ cooledAt[b] > 0
         => now >= cooledAt[b] + ObjectCooldown

\* Only Pass leads from the limits to the mark.
LEMMA OnlyPass ==
  ASSUME TInv, [Next]_vars, job.step = "limit", job'.step = "mark"
  PROVE  \E l \in Lookups : Pass(l)
<1>1. job \in EventJobs
  BY JobFields DEF TInv, JobType, Steps
<1>2. job' # Idle /\ job # Idle /\ job' # job
  BY JobSets
<1>3. CASE Tick \/ StandBy \/ Lead \/ Cluster \/ PolicyReconciled \/ UNCHANGED vars
  BY <1>2, <1>3 DEF Tick, StandBy, Lead, Cluster, Occur, Edit, CacheFollows, PolicyReconciled,
     ReconcilePolicy, ReconcileNewPolicy, initializePolicyStatus, InitializeFails, vars
<1>4. CASE ReconcileEvent
  <2>1. CASE \E l \in Lookups : Limited(l)
    BY <1>1, <2>1 DEF Limited, EventJobs
  <2>2. CASE ~\E l \in Lookups : Limited(l)
    BY <1>2, <1>4, <2>2 DEF ReconcileEvent, Ignore, Take, isObjectInCooldown, ReportLimited, Mark,
       NoToken, NoRequest, Send, Answer, StatusWritten, StatusFails, StatusConflict
  <2>3. QED
    BY <2>1, <2>2
<1>5. QED
  BY <1>3, <1>4 DEF Next

LEMMA StepApart == TInv /\ CInv /\ [Next]_vars => Apart
<1> SUFFICES ASSUME TInv, CInv, [Next]_vars, job.step = "limit", job'.step = "mark"
             PROVE  Apart
  BY DEF Apart
<1> DEFINE p == job.p
           w == Handled
<1>1. PICK l \in Lookups : Pass(l)
  BY OnlyPass
<1>2. p \in Policies /\ w \in Workloads /\ Bucket("owner") = <<p, w>>
  BY HandledWorkload DEF Steps
<1>3. job'.found = Noting(l, "limit") /\ "limit" \notin job.found
  BY <1>1, PassJob DEF CInv, Checked
<1>4. Cooling(p, w)
  BY <1>2 DEF CInv
<1>5. ASSUME "limit" \in job'.found, EventsPerMinute[p] > 0, passedAt[<<p, w>>] > 0
      PROVE  now >= passedAt[<<p, w>>] + CooldownMinutes[p]
  <2>1. l = "owner"
    BY <1>3, <1>5 DEF Noting
  <2>2. ~(now < cooldownTracking[<<p, w>>])
    BY <1>1, <1>2, <1>5, <2>1, WorkloadTypes DEF Pass, RateLimited
  <2> HIDE DEF p, w
  <2>3. CASE CooldownMinutes[p] = 0
    BY <1>2, <2>3, WorkloadTypes
  <2>4. CASE CooldownMinutes[p] > 0
    BY <1>2, <1>4, <1>5, <2>2, <2>4, WorkloadTypes DEF Cooling
  <2>5. CooldownMinutes[p] \in Nat
    BY <1>2, WorkloadTypes
  <2>6. QED
    BY <2>3, <2>4, <2>5
<1>6. ASSUME "cooldown" \in job'.found, cooledAt[<<p, w>>] > 0
      PROVE  now >= cooledAt[<<p, w>>] + ObjectCooldown
  <2>1. "cooldown" \in job.found
    BY <1>3, <1>6 DEF Noting
  <2>2. now >= objectCooldowns[<<p, w>>]
    BY <2>1 DEF CInv, Checked
  <2> HIDE DEF p, w
  <2>3. QED
    BY <1>2, <1>4, <1>6, <2>2, WorkloadTypes DEF Cooling
<1>7. QED
  BY <1>5, <1>6 DEF Apart, Handled

\* Whatever happens between two events of one workload, its Pods gone or the caches behind:
\* while the process lives, the second passes a policy's limits only after each cooldown
\* that the first had set, if the owner was found when it was set and when it was checked.
THEOREM WorkloadsCool == Spec => Spaced
<1>1. TInv /\ CInv /\ [Next]_vars => [Apart]_vars
  BY StepApart
<1>2. Spec => []CInv
  BY CoolingInit, CoolingNext, TypesHold, PTL DEF Spec
<1>3. Spec => [][Apart]_vars
  BY <1>1, <1>2, TypesHold, PTL DEF Spec
<1>4. QED
  BY <1>3 DEF Apart, Spaced
=============================================================================
