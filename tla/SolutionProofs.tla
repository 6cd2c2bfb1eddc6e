--------------------------- MODULE SolutionProofs ---------------------------
(***************************************************************************)
(* The types of the Solution controller, the status that is of the spec it *)
(* names, and the owners that named what they own, for all solutions,      *)
(* resources and numbers of attempts.                                      *)
(***************************************************************************)
EXTENDS Solution, FiniteSetTheorems, TLAPS

SolutionType == [there : BOOLEAN, uid : Nat, spec : SUBSET Resources, gen : Nat,
                 status : Statuses]
ResourceType == [there : BOOLEAN, healthy : BOOLEAN, owners : SUBSET UIDs]

LEMMA Countable ==
  ASSUME NEW S \in SUBSET Resources
  PROVE  IsFiniteSet(S) /\ Cardinality(S) \in Nat
BY ConstantsOK, FS_Subset, FS_CardinalityType

LEMMA NewTyped ==
  ASSUME NEW spec \in SUBSET Resources, NEW uid \in Nat
  PROVE  NewSolution(spec, uid) \in SolutionType
BY DEF NewSolution, SolutionType, NoStatus, Statuses, States

LEMMA TypeInit == Init => TypeOK
<1> SUFFICES ASSUME Init PROVE TypeOK
  OBVIOUS
<1>1. PICK specs \in [Solutions -> Specs] :
        /\ solution = [s \in Solutions |-> NewSolution(specs[s], 1)]
        /\ named = specs
  BY DEF Init
<1>2. \A s \in Solutions : specs[s] \in SUBSET Resources
  BY DEF Specs
<1>3. solution \in [Solutions -> SolutionType]
  BY <1>1, <1>2, NewTyped
<1>4. named \in [Solutions -> SUBSET Resources]
  BY <1>1, <1>2
<1>5. Fresh \in ResourceType /\ Missing \in ResourceType
  BY DEF Fresh, Missing, ResourceType
<1>6. /\ resource \in [Resources -> ResourceType]
      /\ \A r \in Resources : ~resource[r].there => resource[r].owners = {}
  <2>1. resource \in [Resources -> {Fresh, Missing}]
    BY DEF Init
  <2>2. \A r \in Resources : resource[r] = Fresh \/ resource[r] = Missing
    BY <2>1
  <2>3. Fresh.owners = {} /\ Missing.owners = {}
    BY DEF Fresh, Missing
  <2>4. QED
    BY <1>5, <2>1, <2>2, <2>3
<1>7. job \in Jobs
  BY DEF Init, Idle, Jobs
<1>8. QED
  BY <1>3, <1>4, <1>6, <1>7, ConstantsOK DEF Init, TypeOK, SolutionType, ResourceType
-----------------------------------------------------------------------------
(* Types.                                                                   *)

LEMMA EventTyped ==
  ASSUME events \in 0..MaxEvents, Event
  PROVE  events' \in 0..MaxEvents
BY ConstantsOK DEF Event

LEMMA EditTyped ==
  ASSUME NEW x \in SolutionType, NEW spec \in SUBSET Resources,
         NEW y, y = [x EXCEPT !.spec = spec, !.gen = @ + 1]
  PROVE  y \in SolutionType
<1>1. y = [there |-> x.there, uid |-> x.uid, spec |-> spec, gen |-> x.gen + 1,
           status |-> x.status]
  BY DEF SolutionType
<1>2. QED
  BY <1>1 DEF SolutionType

LEMMA WriteTyped ==
  ASSUME TypeOK, NEW s \in Solutions, NEW new \in SolutionType, Write(s, new)
  PROVE  /\ solution' \in [Solutions -> SolutionType]
         /\ queued' \subseteq Solutions /\ current' \in BOOLEAN
BY DEF TypeOK, Write, SolutionType

\* The status of a solution is written.
LEMMA StatusTyped ==
  ASSUME TypeOK, NEW s \in Solutions, NEW status \in Statuses,
         solution' = [solution EXCEPT ![s].status = status]
  PROVE  solution' \in [Solutions -> SolutionType]
BY DEF TypeOK, SolutionType

LEMMA ClusterTypes ==
  ASSUME TypeOK, Cluster
  PROVE  TypeOK'
<1> USE ConstantsOK DEF TypeOK
<1>1. ASSUME NEW s \in Solutions, Delete(s) PROVE TypeOK'
  <2>1. [solution[s] EXCEPT !.there = FALSE] \in SolutionType
    BY DEF SolutionType
  <2>2. QED
    BY <1>1, <2>1, WriteTyped, EventTyped DEF Delete, SolutionType
<1>2. ASSUME NEW s \in Solutions, NEW spec \in Specs, Edit(s, spec) PROVE TypeOK'
  <2>1. spec \in SUBSET Resources
    BY DEF Specs
  <2>2. [solution[s] EXCEPT !.spec = spec, !.gen = @ + 1] \in SolutionType
    BY <2>1, EditTyped DEF SolutionType
  <2>3. named' \in [Solutions -> SUBSET Resources]
    BY <1>2, <2>1 DEF Edit
  <2>4. QED
    BY <1>2, <2>2, <2>3, WriteTyped, EventTyped DEF Edit, SolutionType
<1>3. ASSUME NEW s \in Solutions, NEW spec \in Specs, Create(s, spec) PROVE TypeOK'
  <2>1. NewSolution(spec, solution[s].uid + 1) \in SolutionType
    BY NewTyped DEF Specs
  <2>2. QED
    BY <1>3, <2>1, WriteTyped, EventTyped DEF Create, Specs, SolutionType
<1>4. ASSUME NEW r \in Resources, ChangeResource(r) PROVE TypeOK'
  <2>1. PICK new \in {Fresh, Missing, [resource[r] EXCEPT !.healthy = ~@]} :
          /\ new.there # resource[r].there \/ (new.there /\ new.owners = resource[r].owners)
          /\ resource' = [resource EXCEPT ![r] = new]
    BY <1>4 DEF ChangeResource
  <2>2. [resource[r] EXCEPT !.healthy = ~@] \in ResourceType
    BY DEF ResourceType
  <2>3. new \in ResourceType
    <3>1. Fresh \in ResourceType /\ Missing \in ResourceType
      BY DEF Fresh, Missing, ResourceType
    <3>2. QED
      BY <2>1, <2>2, <3>1
  <2>4. CASE new \in {Fresh, Missing}
    <3>1. ~new.there => new.owners = {}
      BY <2>4 DEF Fresh, Missing
    <3>2. QED
      BY <1>4, <2>1, <2>3, <3>1, EventTyped DEF ChangeResource, queue, ResourceType
  <2>5. CASE new = [resource[r] EXCEPT !.healthy = ~@]
    <3>1. new.there = resource[r].there /\ new.owners = resource[r].owners
      BY <2>5
    <3>2. QED
      BY <1>4, <2>1, <2>3, <3>1, EventTyped DEF ChangeResource, queue, ResourceType
  <2>6. QED
    BY <2>4, <2>5
<1>5. CASE Exit
  BY <1>5, EventTyped DEF Exit, Idle, Jobs
<1>6. QED
  BY <1>1, <1>2, <1>3, <1>4, <1>5 DEF Cluster

LEMMA CollectorTypes ==
  ASSUME TypeOK, GarbageCollector
  PROVE  TypeOK'
<1>1. ASSUME NEW r \in Resources, Collect(r) PROVE TypeOK'
  BY <1>1 DEF TypeOK, Collect, Missing, queue
<1>2. ASSUME NEW r \in Resources, Prune(r) PROVE TypeOK'
  BY <1>2 DEF TypeOK, Prune, queue
<1>3. QED
  BY <1>1, <1>2 DEF GarbageCollector

LEMMA StartTypes ==
  ASSUME TypeOK, NEW s \in Solutions, Fire(s) \/ Start(s)
  PROVE  TypeOK'
<1>1. CASE Fire(s)
  BY <1>1 DEF TypeOK, Fire
<1>2. CASE ReconcileGone(s)
  BY <1>2 DEF TypeOK, ReconcileGone, Take
<1>3. CASE initializeSolutionStatus(s)
  <2>1. Cardinality(solution[s].spec) \in Nat
    BY Countable DEF TypeOK
  <2>2. [observed |-> solution[s].gen, total |-> Cardinality(solution[s].spec),
         ready |-> 0, failed |-> 0, state |-> "deployed"] \in Statuses
    BY <2>1 DEF TypeOK, Statuses, States
  <2>3. solution' \in [Solutions -> SolutionType]
    BY <1>3, <2>2, StatusTyped DEF initializeSolutionStatus
  <2>4. QED
    BY <1>3, <2>3 DEF TypeOK, initializeSolutionStatus, queue, SolutionType
<1>4. CASE BeginOwnership(s)
  BY <1>4 DEF TypeOK, BeginOwnership, Take, Jobs
<1>5. QED
  BY <1>1, <1>2, <1>3, <1>4 DEF Start

LEMMA OwnershipTypes ==
  ASSUME TypeOK, ensureResourceOwnership
  PROVE  TypeOK'
<1>1. ASSUME NEW r \in Resources, ensureOwnerReference(r) PROVE TypeOK'
  <2>1. job \in [step : {"own"}, solution : Solutions, uid : Nat, todo : SUBSET Resources]
    BY <1>1 DEF TypeOK, Jobs, ensureOwnerReference
  <2>2. <<job.solution, job.uid>> \in UIDs
    BY <2>1 DEF UIDs
  <2>3. job' \in Jobs
    BY <1>1, <2>1 DEF ensureOwnerReference, Passed, Jobs
  <2>4. QED
    BY <1>1, <2>2, <2>3 DEF TypeOK, ensureOwnerReference, queue
<1>2. ASSUME NEW r \in Resources, SkipOwnership(r) PROVE TypeOK'
  BY <1>2 DEF TypeOK, SkipOwnership, Passed, Jobs, queue
<1>3. CASE EndOwnership
  BY <1>3, ConstantsOK DEF TypeOK, EndOwnership, Jobs, queue
<1>4. QED
  BY <1>1, <1>2, <1>3 DEF ensureResourceOwnership

CheckJobs ==
  [step : {"check"}, solution : Solutions, attempt : 1..MaxAttempts, gen : Nat,
   total : Nat, todo : SUBSET Resources, ready : Nat, failed : Nat]

\* A resource is counted as ready, or as failed.
LEMMA CheckTyped ==
  ASSUME NEW j \in CheckJobs, NEW r, NEW k,
         \/ k = [j EXCEPT !.todo = @ \ {r}, !.ready = @ + 1]
         \/ k = [j EXCEPT !.todo = @ \ {r}, !.failed = @ + 1]
  PROVE  k \in CheckJobs
<1>1. CASE k = [j EXCEPT !.todo = @ \ {r}, !.ready = @ + 1]
  <2>1. k = [step |-> j.step, solution |-> j.solution, attempt |-> j.attempt,
             gen |-> j.gen, total |-> j.total, todo |-> j.todo \ {r},
             ready |-> j.ready + 1, failed |-> j.failed]
    BY <1>1 DEF CheckJobs
  <2>2. QED
    BY <2>1 DEF CheckJobs
<1>2. CASE k = [j EXCEPT !.todo = @ \ {r}, !.failed = @ + 1]
  <2>1. k = [step |-> j.step, solution |-> j.solution, attempt |-> j.attempt,
             gen |-> j.gen, total |-> j.total, todo |-> j.todo \ {r},
             ready |-> j.ready, failed |-> j.failed + 1]
    BY <1>2 DEF CheckJobs
  <2>2. QED
    BY <2>1 DEF CheckJobs
<1>3. QED
  BY <1>1, <1>2

LEMMA NextAttemptTypes ==
  ASSUME TypeOK, job.step \in {"read", "check"}, NextAttempt
  PROVE  job' \in Jobs /\ queued' \subseteq Solutions
BY ConstantsOK DEF TypeOK, NextAttempt, Jobs, Idle

LEMMA CountedTyped ==
  ASSUME TypeOK, job.step = "check"
  PROVE  Counted \in Statuses /\ job.solution \in Solutions
BY DEF TypeOK, Jobs, Counted, Statuses, States, StateOf

LEMMA UpdateTypes ==
  ASSUME TypeOK, updateSolutionStatus
  PROVE  TypeOK'
<1>1. CASE ReadFresh
  <2>1. job.solution \in Solutions /\ job.attempt \in 1..MaxAttempts
    BY <1>1 DEF TypeOK, Jobs, ReadFresh
  <2>2. Cardinality(solution[job.solution].spec) \in Nat
    BY <2>1, Countable DEF TypeOK
  <2>3. job' \in Jobs
    BY <1>1, <2>1, <2>2 DEF TypeOK, ReadFresh, Jobs
  <2>4. QED
    BY <1>1, <2>3 DEF TypeOK, ReadFresh, queue
<1>2. CASE ReadFails
  BY <1>2, NextAttemptTypes DEF TypeOK, ReadFails
<1>3. ASSUME NEW r \in Resources, CheckResource(r) PROVE TypeOK'
  <2>1. job \in [step : {"check"}, solution : Solutions, attempt : 1..MaxAttempts,
                 gen : Nat, total : Nat, todo : SUBSET Resources, ready : Nat,
                 failed : Nat]
    BY <1>3 DEF TypeOK, Jobs, CheckResource
  <2>2. job' \in CheckJobs
    BY <1>3, <2>1, CheckTyped DEF CheckResource, CheckJobs
  <2>3. CheckJobs \subseteq Jobs
    BY DEF CheckJobs, Jobs
  <2>4. job' \in Jobs
    BY <1>3, <2>2, <2>3 DEF CheckResource
  <2>5. QED
    BY <1>3, <2>4 DEF TypeOK, CheckResource, queue
<1>4. ASSUME NEW r \in Resources, CheckFails(r) PROVE TypeOK'
  BY <1>4 DEF TypeOK, CheckFails, Passed, Jobs, queue
<1>5. CASE WriteStatus
  <2>1. solution' \in [Solutions -> SolutionType] /\ job.solution \in Solutions
    BY <1>5, CountedTyped, StatusTyped DEF WriteStatus, Checked, Put
  <2>2. QED
    BY <1>5, <2>1 DEF TypeOK, WriteStatus, Jobs, Idle, SolutionType
<1>6. CASE WriteConflicts
  BY <1>6, NextAttemptTypes DEF TypeOK, WriteConflicts, Checked
<1>7. CASE WriteFails
  <2>1. job.solution \in Solutions
    BY <1>7, CountedTyped DEF WriteFails, Checked
  <2>2. Put => solution' \in [Solutions -> SolutionType]
    BY <1>7, CountedTyped, StatusTyped DEF WriteFails, Checked, Put
  <2>3. solution' \in [Solutions -> SolutionType]
    BY <1>7, <2>2 DEF TypeOK, WriteFails, SolutionType
  <2>4. QED
    BY <1>7, <2>1, <2>3 DEF TypeOK, WriteFails, Jobs, Idle, SolutionType
<1>8. QED
  BY <1>1, <1>2, <1>3, <1>4, <1>5, <1>6, <1>7 DEF updateSolutionStatus

LEMMA TypeStep ==
  ASSUME TypeOK, [Next]_vars
  PROVE  TypeOK'
<1>1. CASE UNCHANGED vars
  BY <1>1 DEF vars, queue, TypeOK
<1>2. QED
  BY <1>1, ClusterTypes, CollectorTypes, StartTypes, OwnershipTypes, UpdateTypes DEF Next

\* The type invariant of the Solution controller (solution_controller.go): the job under
\* way is of a kind the code has, and a resource that is missing has no owners.
THEOREM TypeCorrect == Safety => []TypeOK
BY TypeInit, TypeStep, PTL DEF Safety
-----------------------------------------------------------------------------
(* Owners.  An incarnation that is no more never lives again, so only what   *)
(* the spec of the living one has named matters.                            *)

Remembered ==
  /\ \A s \in Solutions : solution[s].there => solution[s].spec \subseteq named[s]
  /\ \A r \in Resources : \A o \in resource[r].owners : o[2] <= solution[o[1]].uid

OwnsWhatItNamed ==
  job.step = "own" =>
    /\ job.uid <= solution[job.solution].uid
    /\ Live(<<job.solution, job.uid>>) => job.todo \subseteq named[job.solution]

OwnersInv == OwnersNamedIt /\ Remembered /\ OwnsWhatItNamed

\* What a step may do to a solution: nothing that matters here, an end, an edit that is
\* remembered, or a new incarnation.
SolutionMoves(s) ==
  \/ /\ solution'[s].uid = solution[s].uid
     /\ solution'[s].there =>
          /\ solution[s].there
          /\ named[s] \subseteq named'[s]
          /\ solution[s].spec \subseteq named[s] => solution'[s].spec \subseteq named'[s]
  \/ /\ solution'[s].uid = solution[s].uid + 1
     /\ solution'[s].spec \subseteq named'[s]

OwnerMoves(r) ==
  resource'[r].owners \subseteq
    resource[r].owners \cup (IF job.step = "own" /\ r \in job.todo
                               THEN {<<job.solution, job.uid>>} ELSE {})

JobMoves ==
  job'.step = "own" =>
    \/ /\ job.step = "own" /\ job'.solution = job.solution /\ job'.uid = job.uid
       /\ job'.todo \subseteq job.todo
    \/ /\ UNCHANGED <<solution, named>>
       /\ job'.solution \in Solutions /\ solution[job'.solution].there
       /\ job'.uid = solution[job'.solution].uid
       /\ job'.todo = solution[job'.solution].spec

Moves ==
  /\ \A s \in Solutions : SolutionMoves(s)
  /\ \A r \in Resources : OwnerMoves(r)
  /\ JobMoves

\* The step leaves resources and ownership alone.
LEMMA SolutionMovesOnly ==
  ASSUME UNCHANGED <<resource, job>>, \A s \in Solutions : SolutionMoves(s)
  PROVE  Moves
BY DEF Moves, OwnerMoves, JobMoves

LEMMA ResourceMovesOnly ==
  ASSUME UNCHANGED <<solution, named>>, \A r \in Resources : OwnerMoves(r), JobMoves
  PROVE  Moves
BY DEF Moves, SolutionMoves

LEMMA ClusterMoves ==
  ASSUME TypeOK, Cluster
  PROVE  Moves
<1>1. ASSUME NEW s \in Solutions, Delete(s) PROVE Moves
  <2>1. ASSUME NEW t \in Solutions PROVE SolutionMoves(t)
    BY <1>1 DEF TypeOK, Delete, Write, SolutionMoves
  <2>2. QED
    BY <1>1, <2>1, SolutionMovesOnly DEF Delete
<1>2. ASSUME NEW s \in Solutions, NEW spec \in Specs, Edit(s, spec) PROVE Moves
  <2>1. solution' = [solution EXCEPT ![s] =
                       [solution[s] EXCEPT !.spec = spec, !.gen = @ + 1]]
    BY <1>2 DEF Edit, Write
  <2>2. PICK new \in SolutionType :
          /\ new = [solution[s] EXCEPT !.spec = spec, !.gen = @ + 1]
          /\ new.there = solution[s].there /\ new.uid = solution[s].uid
          /\ new.spec = spec
    <3>1. [solution[s] EXCEPT !.spec = spec, !.gen = @ + 1] \in SolutionType
      BY EditTyped DEF TypeOK, SolutionType, Specs
    <3>2. QED
      BY <3>1 DEF TypeOK
  <2>3. ASSUME NEW t \in Solutions PROVE SolutionMoves(t)
    BY <1>2, <2>1, <2>2 DEF TypeOK, Edit, SolutionMoves
  <2>4. QED
    BY <1>2, <2>3, SolutionMovesOnly DEF Edit
<1>3. ASSUME NEW s \in Solutions, NEW spec \in Specs, Create(s, spec) PROVE Moves
  <2>1. ASSUME NEW t \in Solutions PROVE SolutionMoves(t)
    BY <1>3 DEF TypeOK, Create, Write, NewSolution, SolutionMoves
  <2>2. QED
    BY <1>3, <2>1, SolutionMovesOnly DEF Create
<1>4. ASSUME NEW r \in Resources, ChangeResource(r) PROVE Moves
  <2>1. PICK new \in {Fresh, Missing, [resource[r] EXCEPT !.healthy = ~@]} :
          resource' = [resource EXCEPT ![r] = new]
    BY <1>4 DEF ChangeResource
  <2>2. new.owners \subseteq resource[r].owners
    BY <2>1 DEF TypeOK, Fresh, Missing
  <2>3. ASSUME NEW q \in Resources PROVE OwnerMoves(q)
    BY <2>1, <2>2 DEF TypeOK, OwnerMoves
  <2>4. QED
    BY <1>4, <2>3, ResourceMovesOnly DEF ChangeResource, JobMoves
<1>5. CASE Exit
  BY <1>5, ResourceMovesOnly DEF Exit, Idle, OwnerMoves, JobMoves
<1>6. QED
  BY <1>1, <1>2, <1>3, <1>4, <1>5 DEF Cluster

LEMMA CollectorMoves ==
  ASSUME TypeOK, GarbageCollector
  PROVE  Moves
<1>1. PICK r \in Resources : Collect(r) \/ Prune(r)
  BY DEF GarbageCollector
<1>2. ASSUME NEW q \in Resources PROVE OwnerMoves(q)
  BY <1>1 DEF TypeOK, Collect, Prune, Missing, OwnerMoves
<1>3. UNCHANGED <<solution, job, named>>
  BY <1>1 DEF Collect, Prune
<1>4. QED
  BY <1>2, <1>3, ResourceMovesOnly DEF JobMoves

LEMMA StartMoves ==
  ASSUME TypeOK, NEW s \in Solutions, Fire(s) \/ Start(s)
  PROVE  Moves
<1>1. CASE Fire(s) \/ ReconcileGone(s)
  BY <1>1, ResourceMovesOnly DEF Fire, ReconcileGone, OwnerMoves, JobMoves
<1>2. CASE initializeSolutionStatus(s)
  <2>1. ASSUME NEW t \in Solutions PROVE SolutionMoves(t)
    BY <1>2 DEF TypeOK, initializeSolutionStatus, SolutionMoves
  <2>2. QED
    BY <1>2, <2>1, SolutionMovesOnly DEF initializeSolutionStatus
<1>3. CASE BeginOwnership(s)
  BY <1>3, ResourceMovesOnly DEF BeginOwnership, OwnerMoves, JobMoves
<1>4. QED
  BY <1>1, <1>2, <1>3 DEF Start

LEMMA OwnershipMoves ==
  ASSUME TypeOK, ensureResourceOwnership
  PROVE  Moves
<1>1. ASSUME NEW r \in Resources, ensureOwnerReference(r) PROVE Moves
  <2>1. ASSUME NEW q \in Resources PROVE OwnerMoves(q)
    BY <1>1 DEF TypeOK, ensureOwnerReference, OwnerMoves
  <2>2. JobMoves
    BY <1>1 DEF TypeOK, Jobs, ensureOwnerReference, Passed, JobMoves
  <2>3. QED
    BY <1>1, <2>1, <2>2, ResourceMovesOnly DEF ensureOwnerReference
<1>2. ASSUME NEW r \in Resources, SkipOwnership(r) PROVE Moves
  <2>1. JobMoves
    BY <1>2 DEF TypeOK, Jobs, SkipOwnership, Passed, JobMoves
  <2>2. QED
    BY <1>2, <2>1, ResourceMovesOnly DEF SkipOwnership, OwnerMoves
<1>3. CASE EndOwnership
  BY <1>3, ResourceMovesOnly DEF EndOwnership, OwnerMoves, JobMoves
<1>4. QED
  BY <1>1, <1>2, <1>3 DEF ensureResourceOwnership

LEMMA UpdateMoves ==
  ASSUME TypeOK, updateSolutionStatus
  PROVE  Moves
<1>1. job.step \in {"read", "check"} /\ UNCHANGED <<resource, named>>
  BY DEF updateSolutionStatus, ReadFresh, ReadFails, CheckResource, CheckFails, WriteStatus,
         WriteConflicts, WriteFails, Checked
<1>2. JobMoves
  <2>1. CASE ReadFresh \/ ReadFails \/ WriteStatus \/ WriteConflicts \/ WriteFails
    BY <2>1 DEF ReadFresh, ReadFails, WriteStatus, WriteConflicts, WriteFails, NextAttempt,
                Idle, JobMoves
  <2>2. ASSUME NEW r \in Resources, CheckResource(r) \/ CheckFails(r) PROVE JobMoves
    <3>1. job \in CheckJobs
      BY <2>2 DEF TypeOK, Jobs, CheckJobs, CheckResource, CheckFails
    <3>2. job' \in CheckJobs
      BY <2>2, <3>1, CheckTyped DEF CheckResource, CheckFails, Passed, CheckJobs
    <3>3. QED
      BY <3>2 DEF CheckJobs, JobMoves
  <2>3. QED
    BY <2>1, <2>2 DEF updateSolutionStatus
<1>3. \A r \in Resources : OwnerMoves(r)
  BY <1>1 DEF OwnerMoves
<1>4. Put \/ UNCHANGED solution
  BY DEF updateSolutionStatus, ReadFresh, ReadFails, CheckResource, CheckFails, WriteStatus,
         WriteConflicts, WriteFails
<1>5. ASSUME NEW t \in Solutions PROVE SolutionMoves(t)
  BY <1>1, <1>4 DEF TypeOK, Put, SolutionMoves
<1>6. QED
  BY <1>2, <1>3, <1>5 DEF Moves

LEMMA OwnersStep ==
  ASSUME TypeOK, OwnersInv, [Next]_vars
  PROVE  OwnersInv'
<1>1. TypeOK'
  BY TypeStep
<1>2. Moves
  <2>1. CASE UNCHANGED vars
    BY <2>1, ResourceMovesOnly DEF vars, OwnerMoves, JobMoves
  <2>2. QED
    BY <2>1, ClusterMoves, CollectorMoves, StartMoves, OwnershipMoves, UpdateMoves DEF Next
<1>3. job.step = "own" =>
        job.solution \in Solutions /\ job.uid \in Nat /\ job.todo \subseteq Resources
  BY DEF TypeOK, Jobs
<1>4. \A s \in Solutions : solution[s].uid \in Nat
  BY DEF TypeOK
<1>5. \A r \in Resources : \A o \in resource[r].owners :
        o[1] \in Solutions /\ o[2] \in Nat
  BY DEF TypeOK, UIDs
<1>6. \* An owner that lives after the step lived before it, and nothing named is forgotten.
      ASSUME NEW s \in Solutions, NEW uid \in Nat, uid <= solution[s].uid
      PROVE  /\ uid <= solution'[s].uid
             /\ solution'[s].there /\ solution'[s].uid = uid =>
                  Live(<<s, uid>>) /\ named[s] \subseteq named'[s]
  <2>1. SolutionMoves(s)
    BY <1>2 DEF Moves
  <2>2. QED
    BY <1>4, <1>6, <2>1 DEF SolutionMoves, Live
<1>7. ASSUME NEW r \in Resources, NEW o \in resource'[r].owners
      PROVE  /\ o[2] <= solution'[o[1]].uid
             /\ solution'[o[1]].there /\ solution'[o[1]].uid = o[2] => r \in named'[o[1]]
  <2>1. CASE o \in resource[r].owners
    <3>1. o = <<o[1], o[2]>> /\ o[2] <= solution[o[1]].uid
      BY <2>1 DEF TypeOK, UIDs, OwnersInv, Remembered
    <3>2. Live(o) => r \in named[o[1]]
      BY <2>1 DEF OwnersInv, OwnersNamedIt
    <3>3. QED
      BY <1>5, <1>6, <2>1, <3>1, <3>2
  <2>2. CASE o \notin resource[r].owners
    <3>1. job.step = "own" /\ r \in job.todo /\ o = <<job.solution, job.uid>>
      BY <1>2, <2>2 DEF Moves, OwnerMoves
    <3>2. QED
      BY <1>3, <1>6, <3>1 DEF OwnersInv, OwnsWhatItNamed
  <2>3. QED
    BY <2>1, <2>2
<1>8. ASSUME NEW s \in Solutions, solution'[s].there
      PROVE  solution'[s].spec \subseteq named'[s]
  BY <1>2, <1>8 DEF Moves, SolutionMoves, OwnersInv, Remembered
<1>9. OwnsWhatItNamed'
  <2>1. SUFFICES ASSUME job'.step = "own"
                 PROVE  /\ job'.uid <= solution'[job'.solution].uid
                        /\ /\ solution'[job'.solution].there
                           /\ solution'[job'.solution].uid = job'.uid
                           => job'.todo \subseteq named'[job'.solution]
    BY DEF OwnsWhatItNamed, Live
  <2>2. CASE /\ job.step = "own" /\ job'.solution = job.solution /\ job'.uid = job.uid
             /\ job'.todo \subseteq job.todo
    BY <1>3, <1>6, <2>2 DEF OwnersInv, OwnsWhatItNamed
  <2>3. CASE /\ UNCHANGED <<solution, named>>
             /\ job'.solution \in Solutions /\ solution[job'.solution].there
             /\ job'.uid = solution[job'.solution].uid
             /\ job'.todo = solution[job'.solution].spec
    BY <1>4, <2>3 DEF OwnersInv, Remembered
  <2>4. QED
    BY <1>2, <2>1, <2>2, <2>3 DEF Moves, JobMoves
<1>10. QED
  BY <1>7, <1>8, <1>9 DEF OwnersInv, OwnersNamedIt, Remembered, Live

LEMMA OwnersInit == Init => OwnersInv
<1> SUFFICES ASSUME Init PROVE OwnersInv
  OBVIOUS
<1>1. \A r \in Resources : resource[r].owners = {}
  <2>1. \A r \in Resources : resource[r] = Fresh \/ resource[r] = Missing
    BY DEF Init
  <2>2. QED
    BY <2>1 DEF Fresh, Missing
<1>2. \A s \in Solutions : solution[s].spec \subseteq named[s]
  BY DEF Init, NewSolution
<1>3. QED
  BY <1>1, <1>2 DEF Init, Idle, OwnersInv, OwnersNamedIt, Remembered, OwnsWhatItNamed

\* A resource is owned only by solutions whose spec has named it, whatever happens to the
\* solution while ensureResourceOwnership goes through the copy it has read.
THEOREM OwnersNamedThem == Safety => []OwnersNamedIt
<1>1. Init => TypeOK /\ OwnersInv
  BY TypeInit, OwnersInit
<1>2. TypeOK /\ OwnersInv /\ [Next]_vars => TypeOK' /\ OwnersInv'
  BY TypeStep, OwnersStep
<1>3. OwnersInv => OwnersNamedIt
  BY DEF OwnersInv
<1>4. QED
  BY <1>1, <1>2, <1>3, PTL DEF Safety
-----------------------------------------------------------------------------
(* The status.                                                              *)

Agrees(status, spec) ==
  /\ status.total = Cardinality(spec)
  /\ status.ready + status.failed <= status.total
  /\ status.state = "deployed" => status.failed = 0

Ordered(s) == 1 <= solution[s].gen /\ solution[s].status.observed <= solution[s].gen

\* The count is of what the job has read, which is what there is as long as nobody wrote.
CountIsOf ==
  job.step = "check" =>
    /\ job.ready + job.failed + Cardinality(job.todo) <= job.total
    /\ current => /\ solution[job.solution].there
                  /\ job.gen = solution[job.solution].gen
                  /\ job.total = Cardinality(solution[job.solution].spec)

StatusInv ==
  /\ StatusIsOfItsSpec
  /\ \A s \in Solutions : Ordered(s)
  /\ CountIsOf

\* What a step may do to the status of a solution: leave it behind with an edit, reset it,
\* or write what was counted over the spec there is.
StatusMoves(s) ==
  \/ UNCHANGED solution[s]
  \/ /\ solution'[s].gen = solution[s].gen + 1 /\ solution'[s].status = solution[s].status
  \/ /\ ~solution'[s].there /\ solution'[s].gen = solution[s].gen
     /\ solution'[s].status = solution[s].status
  \/ /\ solution'[s].gen = 1 /\ solution'[s].status.observed = 0
  \/ /\ solution'[s].gen = solution[s].gen /\ solution'[s].spec = solution[s].spec
     /\ solution'[s].status.observed = solution[s].gen
     /\ Agrees(solution'[s].status, solution[s].spec)

CountMoves ==
  \/ job' = job /\ (current' = FALSE \/ UNCHANGED <<solution, current>>)
  \/ job'.step # "check"
  \/ CountIsOf'

LEMMA StatusStep ==
  ASSUME TypeOK, StatusInv, \A s \in Solutions : StatusMoves(s), CountMoves
  PROVE  StatusInv'
<1>1. ASSUME NEW s \in Solutions PROVE Ordered(s)'
  BY <1>1 DEF TypeOK, Statuses, StatusInv, Ordered, StatusMoves
<1>2. ASSUME NEW s \in Solutions,
             solution'[s].there, solution'[s].status.observed = solution'[s].gen
      PROVE  Agrees(solution'[s].status, solution'[s].spec)
  <2>1. StatusMoves(s) /\ Ordered(s) /\ solution[s].gen \in Nat
    BY DEF TypeOK, StatusInv
  <2>2. solution[s].there /\ solution[s].status.observed = solution[s].gen =>
          Agrees(solution[s].status, solution[s].spec)
    BY DEF StatusInv, StatusIsOfItsSpec, Agrees
  <2>3. solution[s].status.observed \in Nat
    BY DEF TypeOK, Statuses
  <2>4. QED
    BY <1>2, <2>1, <2>2, <2>3 DEF StatusMoves, Ordered
<1>3. CountIsOf'
  BY DEF CountMoves, StatusInv, CountIsOf
<1>4. QED
  BY <1>1, <1>2, <1>3 DEF StatusInv, StatusIsOfItsSpec, Agrees

LEMMA ClusterStatus ==
  ASSUME TypeOK, Cluster
  PROVE  CountMoves /\ \A s \in Solutions : StatusMoves(s)
<1>1. ASSUME NEW s \in Solutions, Delete(s)
      PROVE  CountMoves /\ \A t \in Solutions : StatusMoves(t)
  BY <1>1 DEF TypeOK, Delete, Write, StatusMoves, CountMoves
<1>2. ASSUME NEW s \in Solutions, NEW spec \in Specs, Edit(s, spec)
      PROVE  CountMoves /\ \A t \in Solutions : StatusMoves(t)
  <2>1. PICK new : /\ new = [solution[s] EXCEPT !.spec = spec, !.gen = @ + 1]
                   /\ solution' = [solution EXCEPT ![s] = new]
    BY <1>2 DEF Edit, Write
  <2>2. new.gen = solution[s].gen + 1 /\ new.status = solution[s].status
    BY <2>1 DEF TypeOK
  <2>3. ASSUME NEW t \in Solutions PROVE StatusMoves(t)
    BY <2>1, <2>2 DEF TypeOK, StatusMoves
  <2>4. QED
    BY <1>2, <2>3 DEF Edit, Write, CountMoves
<1>3. ASSUME NEW s \in Solutions, NEW spec \in Specs, Create(s, spec)
      PROVE  CountMoves /\ \A t \in Solutions : StatusMoves(t)
  BY <1>3 DEF TypeOK, Create, Write, NewSolution, NoStatus, StatusMoves, CountMoves
<1>4. ASSUME NEW r \in Resources, ChangeResource(r)
      PROVE  CountMoves /\ \A t \in Solutions : StatusMoves(t)
  BY <1>4 DEF ChangeResource, StatusMoves, CountMoves
<1>5. CASE Exit
  BY <1>5 DEF Exit, Idle, StatusMoves, CountMoves
<1>6. QED
  BY <1>1, <1>2, <1>3, <1>4, <1>5 DEF Cluster

LEMMA StartStatus ==
  ASSUME TypeOK, NEW s \in Solutions, Fire(s) \/ Start(s)
  PROVE  CountMoves /\ \A t \in Solutions : StatusMoves(t)
<1>1. CASE Fire(s) \/ ReconcileGone(s)
  BY <1>1 DEF Fire, ReconcileGone, StatusMoves, CountMoves
<1>2. CASE initializeSolutionStatus(s)
  <2>1. PICK status \in Statuses :
          /\ status.observed = solution[s].gen /\ Agrees(status, solution[s].spec)
          /\ solution' = [solution EXCEPT ![s].status = status]
    <3>1. Cardinality(solution[s].spec) \in Nat
      BY Countable DEF TypeOK
    <3> DEFINE new == [observed |-> solution[s].gen,
                       total |-> Cardinality(solution[s].spec),
                       ready |-> 0, failed |-> 0, state |-> "deployed"]
    <3>2. new \in Statuses /\ new.observed = solution[s].gen
      BY <3>1 DEF TypeOK, Statuses, States
    <3>3. Agrees(new, solution[s].spec)
      BY <3>1 DEF Agrees
    <3>4. solution' = [solution EXCEPT ![s].status = new]
      BY <1>2 DEF initializeSolutionStatus
    <3> HIDE DEF new
    <3>5. QED
      BY <3>2, <3>3, <3>4
  <2>2. ASSUME NEW t \in Solutions PROVE StatusMoves(t)
    BY <2>1 DEF TypeOK, StatusMoves
  <2>3. job'.step # "check"
    BY <1>2 DEF initializeSolutionStatus, Take, Idle
  <2>4. QED
    BY <2>2, <2>3 DEF CountMoves
<1>3. CASE BeginOwnership(s)
  BY <1>3 DEF BeginOwnership, StatusMoves, CountMoves
<1>4. QED
  BY <1>1, <1>2, <1>3 DEF Start

LEMMA OwnershipStatus ==
  ASSUME TypeOK, ensureResourceOwnership
  PROVE  CountMoves /\ \A t \in Solutions : StatusMoves(t)
<1>1. UNCHANGED solution /\ job.step = "own"
  BY DEF ensureResourceOwnership, ensureOwnerReference, SkipOwnership, EndOwnership
<1>2. job' = [step |-> "read", solution |-> job.solution, attempt |-> 1]
        \/ \E r : job' = [job EXCEPT !.todo = @ \ {r}]
  BY DEF ensureResourceOwnership, ensureOwnerReference, SkipOwnership, EndOwnership, Passed
<1>3. job'.step # "check"
  BY <1>1, <1>2 DEF TypeOK, Jobs
<1>4. QED
  BY <1>1, <1>3 DEF StatusMoves, CountMoves

\* The resources still to check become fewer by the one that is counted.
LEMMA Counting ==
  ASSUME TypeOK, CountIsOf, NEW r \in Resources, CheckResource(r) \/ CheckFails(r)
  PROVE  CountIsOf'
<1>1. job \in CheckJobs /\ r \in job.todo /\ UNCHANGED <<solution, current>>
  BY DEF TypeOK, Jobs, CheckJobs, CheckResource, CheckFails
<1>2. /\ Cardinality(job.todo) \in Nat /\ Cardinality(job.todo \ {r}) \in Nat
      /\ Cardinality(job.todo \ {r}) = Cardinality(job.todo) - 1
  BY <1>1, Countable, FS_RemoveElement DEF CheckJobs
<1>3. /\ job'.solution = job.solution /\ job'.gen = job.gen /\ job'.total = job.total
      /\ job'.todo = job.todo \ {r} /\ job'.step = "check"
      /\ \/ job'.ready = job.ready + 1 /\ job'.failed = job.failed
         \/ job'.ready = job.ready /\ job'.failed = job.failed + 1
         \/ job'.ready = job.ready /\ job'.failed = job.failed
  <2>1. CASE job' = [job EXCEPT !.todo = @ \ {r}, !.ready = @ + 1]
    BY <1>1, <2>1 DEF CheckJobs
  <2>2. CASE job' = [job EXCEPT !.todo = @ \ {r}, !.failed = @ + 1]
    BY <1>1, <2>2 DEF CheckJobs
  <2>3. CASE job' = [job EXCEPT !.todo = @ \ {r}]
    BY <1>1, <2>3 DEF CheckJobs
  <2>4. QED
    BY <2>1, <2>2, <2>3 DEF CheckResource, CheckFails, Passed
<1>4. job'.ready + job'.failed + Cardinality(job'.todo) <= job'.total
  BY <1>1, <1>2, <1>3 DEF CheckJobs, CountIsOf
<1>5. QED
  BY <1>1, <1>3, <1>4 DEF CheckJobs, CountIsOf

\* What is written was counted over the spec that is there.
LEMMA Writing ==
  ASSUME TypeOK, CountIsOf, Checked, current, Put
  PROVE  \A t \in Solutions : StatusMoves(t)
<1>1. job \in CheckJobs /\ Cardinality(job.todo) = 0
  BY FS_EmptySet DEF TypeOK, Jobs, CheckJobs, Checked
<1>2. /\ solution[job.solution].there /\ job.gen = solution[job.solution].gen
      /\ job.total = Cardinality(solution[job.solution].spec)
      /\ job.ready + job.failed <= job.total
  BY <1>1 DEF CheckJobs, CountIsOf, Checked
<1>3. /\ Counted.observed = job.gen /\ Agrees(Counted, solution[job.solution].spec)
  BY <1>1, <1>2 DEF CheckJobs, Counted, Agrees, StateOf
<1>4. job.solution \in Solutions
  BY <1>1 DEF CheckJobs
<1>5. ASSUME NEW t \in Solutions PROVE StatusMoves(t)
  BY <1>2, <1>3, <1>4 DEF TypeOK, Put, StatusMoves
<1>6. QED
  BY <1>5

LEMMA UpdateStatus ==
  ASSUME TypeOK, CountIsOf, updateSolutionStatus
  PROVE  CountMoves /\ \A t \in Solutions : StatusMoves(t)
<1>1. CASE ReadFresh
  <2>1. job.solution \in Solutions
    BY <1>1 DEF TypeOK, Jobs, ReadFresh
  <2>2. Cardinality(solution[job.solution].spec) \in Nat
    BY <2>1, Countable DEF TypeOK
  <2>3. CountIsOf'
    BY <1>1, <2>2 DEF ReadFresh, CountIsOf
  <2>4. QED
    BY <1>1, <2>3 DEF ReadFresh, StatusMoves, CountMoves
<1>2. CASE ReadFails
  BY <1>2 DEF ReadFails, NextAttempt, Idle, StatusMoves, CountMoves
<1>3. ASSUME NEW r \in Resources, CheckResource(r) \/ CheckFails(r)
      PROVE  CountMoves /\ \A t \in Solutions : StatusMoves(t)
  BY <1>3, Counting DEF CheckResource, CheckFails, StatusMoves, CountMoves
<1>4. CASE WriteStatus
  BY <1>4, Writing DEF WriteStatus, Idle, CountMoves
<1>5. CASE WriteConflicts
  BY <1>5 DEF WriteConflicts, NextAttempt, Idle, StatusMoves, CountMoves
<1>6. CASE WriteFails
  <2>1. job'.step # "check"
    BY <1>6 DEF WriteFails, Idle
  <2>2. CASE current /\ Put
    BY <1>6, <2>1, <2>2, Writing DEF WriteFails, CountMoves
  <2>3. CASE UNCHANGED solution
    BY <2>1, <2>3 DEF StatusMoves, CountMoves
  <2>4. QED
    BY <1>6, <2>2, <2>3 DEF WriteFails
<1>7. QED
  BY <1>1, <1>2, <1>3, <1>4, <1>5, <1>6 DEF updateSolutionStatus

LEMMA StatusInit == Init => StatusInv
<1> SUFFICES ASSUME Init PROVE StatusInv
  OBVIOUS
<1>1. \A s \in Solutions : solution[s].gen = 1 /\ solution[s].status.observed = 0
  <2>1. PICK specs : solution = [s \in Solutions |-> NewSolution(specs[s], 1)]
    BY DEF Init
  <2>2. QED
    BY <2>1 DEF NewSolution, NoStatus
<1>2. StatusIsOfItsSpec /\ \A s \in Solutions : Ordered(s)
  BY <1>1 DEF StatusIsOfItsSpec, Ordered
<1>3. CountIsOf
  BY DEF Init, Idle, CountIsOf
<1>4. QED
  BY <1>2, <1>3 DEF StatusInv

\* The status of a generation was counted over the spec of that generation: a write that
\* conflicts takes up the new spec (updateSolutionStatus, solution_controller.go).
THEOREM StatusMatchesItsSpec == Safety => []StatusIsOfItsSpec
<1>1. Init => TypeOK /\ StatusInv
  BY TypeInit, StatusInit
<1>2. TypeOK /\ StatusInv /\ [Next]_vars => TypeOK' /\ StatusInv'
  <2> SUFFICES ASSUME TypeOK, StatusInv, [Next]_vars PROVE TypeOK' /\ StatusInv'
    OBVIOUS
  <2>1. CountMoves /\ \A s \in Solutions : StatusMoves(s)
    <3>1. CASE GarbageCollector \/ UNCHANGED vars
      BY <3>1 DEF GarbageCollector, Collect, Prune, vars, StatusMoves, CountMoves
    <3>2. QED
      BY <3>1, ClusterStatus, StartStatus, OwnershipStatus, UpdateStatus DEF Next, StatusInv
  <2>2. QED
    BY <2>1, TypeStep, StatusStep
<1>3. StatusInv => StatusIsOfItsSpec
  BY DEF StatusInv
<1>4. QED
  BY <1>1, <1>2, <1>3, PTL DEF Safety
=============================================================================
