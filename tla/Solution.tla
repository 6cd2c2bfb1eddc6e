------------------------------ MODULE Solution ------------------------------
(***************************************************************************)
(* The Solution reconciler: it makes a Solution an owner of the resources  *)
(* its spec names, one after the other from the copy it has read, then     *)
(* counts them and writes the status, with up to MaxAttempts readings when *)
(* the write conflicts.  Beside it the cluster changes, and the garbage    *)
(* collector deletes a resource whose owners are all gone.                 *)
(***************************************************************************)
EXTENDS Naturals, FiniteSets

CONSTANTS
  Solutions,        \* of one namespace
  Resources,
  Foreign,          \* resources in other namespaces
  MaxAttempts,
  MaxEvents         \* bound on changes of the cluster and exits

ASSUME ConstantsOK ==
  /\ Foreign \subseteq Resources /\ IsFiniteSet(Resources)
  /\ MaxAttempts \in Nat \ {0} /\ MaxEvents \in Nat

VARIABLES
  solution,
  resource,         \* owners are pairs of a name and an incarnation, for the UID
  queued, delayed,  \* solutions with a request, and with one that waits
  job,              \* the reconcile under way
  current,          \* nobody wrote the solution since the job read it for its status
  events,
  named             \* what the specs of the incarnation that exists have named

queue == <<queued, delayed>>
vars  == <<solution, resource, queue, job, current, events, named>>

Idle      == [step |-> "idle"]
NoStatus  == [observed |-> 0, total |-> 0, ready |-> 0, failed |-> 0, state |-> ""]
States    == {"", "deployed", "degraded", "pending"}
Statuses  == [observed : Nat, total : Nat, ready : Nat, failed : Nat, state : States]
UIDs      == Solutions \X Nat

\* A solution that runs under this UID.
Live(o)   == solution[o[1]].there /\ solution[o[1]].uid = o[2]

Jobs ==
  [step : {"idle"}]
    \cup [step : {"own"}, solution : Solutions, uid : Nat, todo : SUBSET Resources]
    \cup [step : {"read"}, solution : Solutions, attempt : 1..MaxAttempts]
    \cup [step : {"check"}, solution : Solutions, attempt : 1..MaxAttempts, gen : Nat,
          total : Nat, todo : SUBSET Resources, ready : Nat, failed : Nat]

TypeOK ==
  /\ solution \in [Solutions -> [there : BOOLEAN, uid : Nat, spec : SUBSET Resources,
                                 gen : Nat, status : Statuses]]
  /\ resource \in [Resources -> [there : BOOLEAN, healthy : BOOLEAN, owners : SUBSET UIDs]]
  /\ queued \subseteq Solutions /\ delayed \subseteq Solutions
  /\ job \in Jobs /\ current \in BOOLEAN
  /\ events \in 0..MaxEvents
  /\ named \in [Solutions -> SUBSET Resources]
  /\ \A r \in Resources : ~resource[r].there => resource[r].owners = {}

NewSolution(spec, uid) ==
  [there |-> TRUE, uid |-> uid, spec |-> spec, gen |-> 1, status |-> NoStatus]
Fresh   == [there |-> TRUE, healthy |-> TRUE, owners |-> {}]
Missing == [there |-> FALSE, healthy |-> FALSE, owners |-> {}]
Specs   == SUBSET Resources \ {{}}

Init ==
  /\ \E specs \in [Solutions -> Specs] :
       /\ solution = [s \in Solutions |-> NewSolution(specs[s], 1)]
       /\ named = specs
  /\ resource \in [Resources -> {Fresh, Missing}]
  /\ queued = Solutions /\ delayed = {}
  /\ job = Idle /\ current = TRUE
  /\ events = 0
-----------------------------------------------------------------------------
(* The cluster.                                                             *)

Event == events < MaxEvents /\ events' = events + 1

\* A write of a solution by somebody else.  Every change is an event for the controller.
Write(s, new) ==
  /\ solution' = [solution EXCEPT ![s] = new]
  /\ queued' = queued \cup {s} /\ current' = FALSE

Edit(s, spec) ==
  /\ Event
  /\ solution[s].there /\ spec # solution[s].spec
  /\ Write(s, [solution[s] EXCEPT !.spec = spec, !.gen = @ + 1])
  /\ named' = [named EXCEPT ![s] = @ \cup spec]
  /\ UNCHANGED <<resource, delayed, job>>

Delete(s) ==
  /\ Event
  /\ solution[s].there
  /\ Write(s, [solution[s] EXCEPT !.there = FALSE])
  /\ UNCHANGED <<resource, delayed, job, named>>

Create(s, spec) ==
  /\ Event
  /\ ~solution[s].there
  /\ Write(s, NewSolution(spec, solution[s].uid + 1))
  /\ named' = [named EXCEPT ![s] = spec]
  /\ UNCHANGED <<resource, delayed, job>>

\* A resource is created or deleted, or its health changes.  The controller does not watch
\* resources.
ChangeResource(r) ==
  /\ Event
  /\ \E new \in {Fresh, Missing, [resource[r] EXCEPT !.healthy = ~@]} :
       /\ new.there # resource[r].there \/ (new.there /\ new.owners = resource[r].owners)
       /\ new # resource[r]
       /\ resource' = [resource EXCEPT ![r] = new]
  /\ UNCHANGED <<solution, queue, job, current, named>>

\* The process exits and a new one lists the solutions.
Exit ==
  /\ Event
  /\ job # Idle \/ delayed # {}
  /\ job' = Idle /\ queued' = {s \in Solutions : solution[s].there} /\ delayed' = {}
  /\ UNCHANGED <<solution, resource, current, named>>

Fire(s) ==
  /\ s \in delayed
  /\ delayed' = delayed \ {s} /\ queued' = queued \cup {s}
  /\ UNCHANGED <<solution, resource, job, current, events, named>>

\* The garbage collector looks for an owner in the namespace of the resource.
Absent(r, o) == r \in Foreign \/ ~Live(o)

Collect(r) ==
  /\ resource[r].owners # {} /\ \A o \in resource[r].owners : Absent(r, o)
  /\ resource' = [resource EXCEPT ![r] = Missing]
  /\ UNCHANGED <<solution, queue, job, current, events, named>>

Prune(r) ==
  /\ \E o \in resource[r].owners : ~Absent(r, o)
  /\ \E o \in resource[r].owners : Absent(r, o)
  /\ resource' = [resource EXCEPT ![r].owners = {o \in @ : ~Absent(r, o)}]
  /\ UNCHANGED <<solution, queue, job, current, events, named>>
-----------------------------------------------------------------------------
(* Reconcile.  A copy from an outdated cache differs from one read earlier   *)
(* only in that its first write conflicts.                                   *)

Take(s) == job = Idle /\ s \in queued

ReconcileGone(s) ==
  /\ Take(s)
  /\ ~solution[s].there
  /\ queued' = queued \ {s}
  /\ UNCHANGED <<solution, resource, delayed, job, current, events, named>>

\* The event of this write is the next request.  Nothing has been checked yet.
initializeSolutionStatus(s) ==
  /\ Take(s)
  /\ solution[s].there /\ solution[s].status.observed = 0
  /\ solution' = [solution EXCEPT ![s].status =
       [observed |-> solution[s].gen, total |-> Cardinality(solution[s].spec),
        ready |-> 0, failed |-> 0, state |-> "deployed"]]
  /\ UNCHANGED <<resource, queue, job, current, events, named>>

BeginOwnership(s) ==
  /\ Take(s)
  /\ solution[s].there /\ solution[s].status.observed # 0
  /\ job' = [step |-> "own", solution |-> s, uid |-> solution[s].uid,
             todo |-> solution[s].spec]
  /\ queued' = queued \ {s}
  /\ UNCHANGED <<solution, resource, delayed, current, events, named>>

Passed(r) == job' = [job EXCEPT !.todo = @ \ {r}]

\* A bug: the owner is looked up again by name.
ensureOwnerReferenceByName(r) ==
  /\ job.step = "own" /\ r \in job.todo
  /\ resource[r].there
  /\ resource' = [resource EXCEPT ![r].owners =
                    @ \cup {<<job.solution, solution[job.solution].uid>>}]
  /\ Passed(r)
  /\ UNCHANGED <<solution, queue, current, events, named>>

\* A bug: the resource is written without a look whether it is there.
ensureOwnerReferenceUnread(r) ==
  /\ job.step = "own" /\ r \in job.todo
  /\ resource' = [resource EXCEPT ![r].owners = @ \cup {<<job.solution, job.uid>>}]
  /\ Passed(r)
  /\ UNCHANGED <<solution, queue, current, events, named>>

\* The reference is added unless it is there.  It stays when the spec drops the resource.
ensureOwnerReference(r) ==
  /\ job.step = "own" /\ r \in job.todo
  /\ resource[r].there
  /\ resource' = [resource EXCEPT ![r].owners = @ \cup {<<job.solution, job.uid>>}]
  /\ Passed(r)
  /\ UNCHANGED <<solution, queue, current, events, named>>

\* Not found, forbidden, a conflict or a failure: the loop goes on.
SkipOwnership(r) ==
  /\ job.step = "own" /\ r \in job.todo
  /\ Passed(r)
  /\ UNCHANGED <<solution, resource, queue, current, events, named>>

EndOwnership ==
  /\ job.step = "own" /\ job.todo = {}
  /\ job' = [step |-> "read", solution |-> job.solution, attempt |-> 1]
  /\ UNCHANGED <<solution, resource, queue, current, events, named>>
-----------------------------------------------------------------------------
(* updateSolutionStatus.                                                    *)

\* After the last attempt the error makes controller-runtime queue the request again.
NextAttempt ==
  IF job.attempt < MaxAttempts
    THEN /\ job' = [step |-> "read", solution |-> job.solution, attempt |-> job.attempt + 1]
         /\ UNCHANGED queued
    ELSE job' = Idle /\ queued' = queued \cup {job.solution}

ReadFresh ==
  /\ job.step = "read" /\ solution[job.solution].there
  /\ LET s == solution[job.solution]
     IN  job' = [step |-> "check", solution |-> job.solution, attempt |-> job.attempt,
                 gen |-> s.gen, total |-> Cardinality(s.spec), todo |-> s.spec,
                 ready |-> 0, failed |-> 0]
  /\ current' = TRUE
  /\ UNCHANGED <<solution, resource, queue, events, named>>

ReadFails ==
  /\ job.step = "read"
  /\ NextAttempt
  /\ UNCHANGED <<solution, resource, delayed, current, events, named>>

Healthy(r) == resource[r].there /\ resource[r].healthy

CheckResource(r) ==
  /\ job.step = "check" /\ r \in job.todo
  /\ IF Healthy(r)
       THEN job' = [job EXCEPT !.todo = @ \ {r}, !.ready = @ + 1]
       ELSE job' = [job EXCEPT !.todo = @ \ {r}, !.failed = @ + 1]
  /\ UNCHANGED <<solution, resource, queue, current, events, named>>

\* Any other error than not found: neither ready nor failed.
CheckFails(r) ==
  /\ job.step = "check" /\ r \in job.todo
  /\ Passed(r)
  /\ UNCHANGED <<solution, resource, queue, current, events, named>>

StateOf(total, ready, failed) ==
  CASE failed > 0 -> "degraded"
    [] failed = 0 /\ ready = total -> "deployed"
    [] OTHER -> "pending"

Counted ==
  [observed |-> job.gen, total |-> job.total, ready |-> job.ready, failed |-> job.failed,
   state |-> StateOf(job.total, job.ready, job.failed)]

Checked == job.step = "check" /\ job.todo = {}
Put     == solution' = [solution EXCEPT ![job.solution].status = Counted]

\* A bug: the status is patched, which does not conflict.
WriteStatusByPatch ==
  /\ Checked /\ solution[job.solution].there
  /\ Put
  /\ job' = Idle
  /\ queued' = queued \cup {job.solution}
  /\ delayed' = delayed \cup {job.solution}
  /\ UNCHANGED <<resource, current, events, named>>

\* The write is an event unless nothing changed, the time of the condition included.
WriteStatus ==
  /\ Checked /\ current
  /\ Put
  /\ job' = Idle
  /\ queued' \in {queued, queued \cup {job.solution}}
  /\ solution' # solution => job.solution \in queued'
  /\ delayed' = delayed \cup {job.solution}
  /\ UNCHANGED <<resource, current, events, named>>

\* A bug: a conflict ends the reconcile without another attempt or request.
WriteConflictsQuietly ==
  /\ Checked /\ solution[job.solution].there
  /\ job' = Idle
  /\ UNCHANGED <<solution, resource, queue, current, events, named>>

WriteConflicts ==
  /\ Checked /\ solution[job.solution].there
  /\ NextAttempt
  /\ UNCHANGED <<solution, resource, delayed, current, events, named>>

\* Another error, also when the solution is gone, after which the write may have been done.
WriteFails ==
  /\ Checked
  /\ (current /\ Put) \/ UNCHANGED solution
  /\ job' = Idle
  /\ queued' = queued \cup {job.solution}
  /\ UNCHANGED <<resource, delayed, current, events, named>>
-----------------------------------------------------------------------------
Cluster ==
  \/ \E s \in Solutions : Delete(s) \/ \E spec \in Specs : Edit(s, spec) \/ Create(s, spec)
  \/ \E r \in Resources : ChangeResource(r)
  \/ Exit

GarbageCollector == \E r \in Resources : Collect(r) \/ Prune(r)

ensureResourceOwnership ==
  \/ \E r \in Resources : ensureOwnerReference(r) \/ SkipOwnership(r)
  \/ EndOwnership

updateSolutionStatus ==
  \/ ReadFresh \/ ReadFails
  \/ \E r \in Resources : CheckResource(r) \/ CheckFails(r)
  \/ WriteStatus \/ WriteConflicts \/ WriteFails

Start(s) == ReconcileGone(s) \/ initializeSolutionStatus(s) \/ BeginOwnership(s)

Next ==
  \/ Cluster \/ GarbageCollector
  \/ \E s \in Solutions : Fire(s) \/ Start(s)
  \/ ensureResourceOwnership \/ updateSolutionStatus

Safety == Init /\ [][Next]_vars

\* The queue serves every request in its turn.
Spec ==
  /\ Safety
  /\ WF_vars(GarbageCollector)
  /\ WF_vars(ensureResourceOwnership \/ updateSolutionStatus)
  /\ \A s \in Solutions : WF_vars(Fire(s)) /\ SF_vars(Start(s))

\* What the code cannot force: from some time on only writes that conflict fail, and
\* every resource can be read, and written unless it is missing.
ApiAnswers ==
  <>[][/\ ~ReadFails \/ ~solution[job.solution].there
       /\ ~WriteFails \/ ~current
       /\ ~WriteConflicts \/ ~current
       /\ \A r \in Resources : SkipOwnership(r) => ~resource[r].there
       /\ \A r \in Resources : ~CheckFails(r)]_vars
-----------------------------------------------------------------------------
(* Correctness.                                                             *)

\* What the status says of a generation was counted over the spec of that generation:
\* a write that conflicts takes up the new spec.
StatusIsOfItsSpec ==
  \A s \in Solutions :
    LET status == solution[s].status
    IN  solution[s].there /\ status.observed = solution[s].gen =>
          /\ status.total = Cardinality(solution[s].spec)
          /\ status.ready + status.failed <= status.total
          /\ status.state = "deployed" => status.failed = 0

\* A resource is owned only by solutions that named it: through edits, and through a
\* deletion and a recreation while the reconcile is under way.
OwnersNamedIt ==
  \A r \in Resources : \A o \in resource[r].owners :
    Live(o) => r \in named[o[1]]

\* Once the cluster rests, every status tells what there is, every resource that a
\* solution names is owned by it, and nothing that only solutions that are gone own
\* remains.
Settled ==
  /\ \A s \in {s \in Solutions : solution[s].there} :
       LET spec == solution[s].spec
           ready == Cardinality({r \in spec : Healthy(r)})
           total == Cardinality(spec)
       IN  /\ solution[s].status = [observed |-> solution[s].gen, total |-> total,
                                    ready |-> ready, failed |-> total - ready,
                                    state |-> StateOf(total, ready, total - ready)]
           /\ \A r \in spec \ Foreign :
                resource[r].there => <<s, solution[s].uid>> \in resource[r].owners
  /\ \A r \in Resources \ Foreign : \A o \in resource[r].owners : Live(o)

Settles == ApiAnswers => <>[]Settled
=============================================================================
