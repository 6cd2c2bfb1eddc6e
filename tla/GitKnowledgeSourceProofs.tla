---------------------- MODULE GitKnowledgeSourceProofs ----------------------
(***************************************************************************)
(* What a source that says it is synced promises, the cleanup of one that  *)
(* is gone, and the queue that forgets none, for all histories of the      *)
(* branch, specs, servers and numbers of events.                           *)
(***************************************************************************)
EXTENDS GitKnowledgeSource, SequenceTheorems, TLAPS

\* The record of a job is known from its step.
LEMMA JobFields ==
  ASSUME TypeOK
  PROVE  /\ (job = Idle) <=> (job.step = "idle")
         /\ job.step \in {"cleanup", "release"} =>
              /\ job \in [step : {"cleanup", "release"}, spec : Specs]
              /\ job # Idle
         /\ job.step = "clone" =>
              /\ job \in [step : {"clone"}, spec : Specs, gen : Nat, specChanged : BOOLEAN]
              /\ job # Idle
         /\ job.step = "ingest" =>
              /\ job \in [step : {"ingest"}, spec : Specs, gen : Nat, head : Commits,
                          files : SUBSET Files, todo : SUBSET Files, failed : SUBSET Files]
              /\ job # Idle
         /\ job.step = "status" =>
              /\ job \in [step : {"status"}, status : Statuses, again : BOOLEAN,
                          files : SUBSET Files, failed : SUBSET Files]
              /\ job # Idle
         /\ job.step \in {"idle", "cleanup", "release", "clone", "ingest", "status"}
<1>1. job \in Jobs
  BY DEF TypeOK
<1>2. CASE job \in [step : {"idle"}]
  BY <1>2 DEF Idle
<1>3. CASE job \in [step : {"cleanup", "release"}, spec : Specs]
  BY <1>3 DEF Idle
<1>4. CASE job \in [step : {"clone"}, spec : Specs, gen : Nat, specChanged : BOOLEAN]
  BY <1>4 DEF Idle
<1>5. CASE job \in [step : {"ingest"}, spec : Specs, gen : Nat, head : Commits,
                    files : SUBSET Files, todo : SUBSET Files, failed : SUBSET Files]
  BY <1>5 DEF Idle
<1>6. CASE job \in [step : {"status"}, status : Statuses, again : BOOLEAN,
                    files : SUBSET Files, failed : SUBSET Files]
  BY <1>6 DEF Idle
<1>7. QED
  BY <1>1, <1>2, <1>3, <1>4, <1>5, <1>6 DEF Jobs

LEMMA HeadType ==
  ASSUME TypeOK
  PROVE  headCommit \in Commits
<1>1. branch \in Seq(Commits) /\ branch # <<>>
  BY DEF TypeOK
<1>2. Len(branch) \in DOMAIN branch
  BY <1>1, EmptySeq, LenProperties
<1>3. QED
  BY <1>1, <1>2, ElementOfSeq DEF headCommit

Objects == [there : BOOLEAN, finalizer : BOOLEAN, deleting : BOOLEAN,
            spec : Specs, gen : Nat]

\* An object in deletion has the finalizer, or it would be gone.
TInv == TypeOK /\ (object.deleting => object.finalizer)

LEMMA TypeInit == Init => TInv
<1> SUFFICES ASSUME Init PROVE TInv
  OBVIOUS
<1>1. branch \in Seq(Commits) /\ branch # <<>>
  BY ConstantsOK DEF Init
<1>2. object \in Objects /\ ~object.deleting
  BY DEF Init, NewObject, Objects
<1>3. status \in Statuses /\ job \in Jobs
  BY DEF Init, NewStatus, Statuses, Jobs, Idle
<1>4. docs \in [Servers -> [Files -> Contents \cup {Absent}]]
  BY DEF Init, NoDocs
<1>5. events \in 0..MaxEvents
  BY ConstantsOK DEF Init
<1>6. QED
  BY <1>1, <1>2, <1>3, <1>4, <1>5 DEF Init, TInv, TypeOK, Objects

\* The two kinds of write to an object that has been there.
LEMMA SpecEdit ==
  ASSUME NEW o \in Objects, NEW s \in Specs, NEW y,
         y = [o EXCEPT !.spec = s, !.gen = o.gen + 1]
  PROVE  y \in Objects
<1>1. y = [there |-> o.there, finalizer |-> o.finalizer, deleting |-> o.deleting,
           spec |-> s, gen |-> o.gen + 1]
  BY DEF Objects
<1>2. QED
  BY <1>1 DEF Objects

LEMMA DeletionMark ==
  ASSUME NEW o \in Objects, NEW y,
         y = [o EXCEPT !.deleting = TRUE, !.gen = o.gen + 1]
  PROVE  y \in Objects
<1>1. y = [there |-> o.there, finalizer |-> o.finalizer, deleting |-> TRUE,
           spec |-> o.spec, gen |-> o.gen + 1]
  BY DEF Objects
<1>2. TRUE \in BOOLEAN /\ o.there \in BOOLEAN /\ o.finalizer \in BOOLEAN /\ o.spec \in Specs
     /\ o.gen + 1 \in Nat
  BY DEF Objects
<1>3. QED
  BY <1>1, <1>2 DEF Objects

LEMMA EnvironmentTypes ==
  ASSUME TInv, Environment \/ Fire
  PROVE  TInv'
<1> USE DEF queue, history
<1>0. Event => events' \in 0..MaxEvents
  BY ConstantsOK DEF TInv, TypeOK, Objects, Event
<1>1. ASSUME NEW c \in Commits, Push(c) PROVE TInv'
  <2>1. branch' \in Seq(Commits) /\ branch' # <<>>
    BY <1>1, AppendProperties DEF TInv, TypeOK, Objects, Push
  <2>2. QED
    BY <1>0, <1>1, <2>1 DEF TInv, TypeOK, Objects, Push
<1>2. CASE Rewind
  <2>1. PICK n \in 1..(Len(branch) - 1) : branch' = SubSeq(branch, 1, n)
    BY <1>2 DEF Rewind
  <2>2. branch \in Seq(Commits) /\ Len(branch) \in Nat
    BY LenProperties DEF TInv, TypeOK, Objects
  <2>3. n \in 1..Len(branch) /\ \A i \in 1..n : branch[i] \in Commits
    BY <2>2, LenProperties, ElementOfSeq
  <2>4. branch' \in Seq(Commits) /\ Len(branch') = n
    BY <2>1, <2>2, <2>3, SubSeqProperties
  <2>5. branch' # <<>>
    BY <2>3, <2>4, EmptySeq
  <2>6. QED
    BY <1>0, <1>2, <2>4, <2>5 DEF TInv, TypeOK, Objects, Rewind
<1>3. ASSUME NEW s \in Specs, Edit(s) PROVE TInv'
  <2>0. object \in Objects
    BY DEF TInv, TypeOK, Objects
  <2>1. /\ object' \in Objects
        /\ object'.there = object.there /\ object'.finalizer = object.finalizer
        /\ object'.deleting = object.deleting
    BY <1>3, <2>0, SpecEdit DEF Objects, Edit
  <2>2. QED
    BY <1>0, <1>3, <2>1 DEF TInv, TypeOK, Objects, Edit
<1>4. ASSUME NEW s \in Specs, Create(s) PROVE TInv'
  <2>1. object' \in Objects /\ ~object'.deleting
    BY <1>4 DEF Create, NewObject, Objects
  <2>2. status' \in Statuses
    BY <1>4 DEF Create, NewStatus, Statuses
  <2>3. job = Idle
    BY <1>4 DEF TInv, TypeOK, Objects, Create
  <2>4. QED
    BY <1>0, <1>4, <2>1, <2>2, <2>3 DEF TInv, TypeOK, Objects, Create
<1>5. CASE Delete
  <2>0. object \in Objects
    BY DEF TInv, TypeOK, Objects
  <2>1. /\ object' \in Objects
        /\ object'.finalizer = object.finalizer
        /\ object.finalizer => object'.there = object.there
        /\ object'.deleting => object'.finalizer
    BY <1>5, <2>0, DeletionMark DEF TInv, Objects, Delete
  <2>2. QED
    BY <1>0, <1>5, <2>1 DEF TInv, TypeOK, Objects, Delete
<1>6. CASE Exit
  <2>1. job' \in Jobs /\ job' = Idle
    BY <1>6 DEF Exit, Jobs, Idle
  <2>2. QED
    BY <1>0, <1>6, <2>1 DEF TInv, TypeOK, Objects, Exit
<1>7. CASE Fire
  BY <1>7 DEF TInv, TypeOK, Objects, Fire
<1>8. QED
  BY <1>1, <1>2, <1>3, <1>4, <1>5, <1>6, <1>7 DEF Environment

LEMMA BeginTypes ==
  ASSUME TInv, ReconcileGone \/ AddFinalizer \/ BeginCleanup \/ BeginSync
  PROVE  TInv'
<1> USE DEF queue, history
<1>1. CASE ReconcileGone
  BY <1>1 DEF TInv, TypeOK, Objects, ReconcileGone
<1>2. CASE AddFinalizer
  <2>1. /\ object' \in Objects
        /\ object'.there = object.there /\ object'.finalizer
    BY <1>2 DEF TInv, TypeOK, Objects, AddFinalizer
  <2>2. QED
    BY <1>2, <2>1 DEF TInv, TypeOK, Objects, AddFinalizer
<1>3. CASE BeginCleanup
  <2>1. job' \in Jobs
    BY <1>3 DEF TInv, TypeOK, Objects, BeginCleanup, Jobs
  <2>2. object.finalizer
    BY <1>3 DEF TInv, BeginCleanup
  <2>3. QED
    BY <1>3, <2>1, <2>2 DEF TInv, TypeOK, Objects, BeginCleanup
<1>4. CASE BeginSync
  <2>1. job' \in Jobs
    BY <1>4 DEF TInv, TypeOK, Objects, BeginSync, Jobs
  <2>2. QED
    BY <1>4, <2>1 DEF TInv, TypeOK, Objects, BeginSync
<1>5. QED
  BY <1>1, <1>2, <1>3, <1>4
-----------------------------------------------------------------------------
(* The steps of a sync, each by what it does to the job.                    *)

IngestJobs == [step : {"ingest"}, spec : Specs, gen : Nat, head : Commits,
               files : SUBSET Files, todo : SUBSET Files, failed : SUBSET Files]
StatusJobs == [step : {"status"}, status : Statuses, again : BOOLEAN,
               files : SUBSET Files, failed : SUBSET Files]

LEMMA FailedJob ==
  ASSUME NEW r \in IngestJobs, NEW f \in Files, NEW y,
         y = [r EXCEPT !.todo = r.todo \ {f}, !.failed = r.failed \cup {f}]
  PROVE  y = [step |-> "ingest", spec |-> r.spec, gen |-> r.gen, head |-> r.head,
              files |-> r.files, todo |-> r.todo \ {f}, failed |-> r.failed \cup {f}]
  BY DEF IngestJobs

\* A step of the ingest takes up one file, and the file fails, is skipped or is sent.
LEMMA IngestStep ==
  ASSUME TypeOK, NEW f \in Files, NotSent(f) \/ Skip(f) \/ IngestOk(f) \/ AnswersLost(f)
  PROVE  /\ job.step = "ingest" /\ job \in IngestJobs /\ f \in job.todo
         /\ job' \in IngestJobs
         /\ job'.step = "ingest" /\ job'.spec = job.spec /\ job'.gen = job.gen
         /\ job'.head = job.head /\ job'.files = job.files /\ job'.todo = job.todo \ {f}
         /\ \/ job'.failed = job.failed \cup {f}
            \/ /\ job'.failed = job.failed
               /\ Content(f) \in Oversize[job.spec] /\ UNCHANGED docs
            \/ /\ job'.failed = job.failed
               /\ docs' = [docs EXCEPT ![ServerOf[job.spec]][f] = Content(f)]
         /\ \/ UNCHANGED <<docs, ahead>>
            \/ /\ docs' = [docs EXCEPT ![ServerOf[job.spec]][f] = Content(f)]
               /\ ahead' = ahead \cup {f}
         /\ UNCHANGED <<branch, object, status, fresh, queue, events, failed, missed, kept>>
<1>1. job.step = "ingest" /\ job \in IngestJobs /\ f \in job.todo
  BY JobFields DEF NotSent, Skip, IngestOk, AnswersLost, IngestJobs
<1>2. Failed(f) => job' = [step |-> "ingest", spec |-> job.spec, gen |-> job.gen,
                           head |-> job.head, files |-> job.files,
                           todo |-> job.todo \ {f}, failed |-> job.failed \cup {f}]
  BY <1>1, FailedJob DEF Failed
<1>3. Done(f) => job' = [step |-> "ingest", spec |-> job.spec, gen |-> job.gen,
                         head |-> job.head, files |-> job.files,
                         todo |-> job.todo \ {f}, failed |-> job.failed]
  BY <1>1 DEF Done, IngestJobs
<1>4. Failed(f) =>
        /\ job' \in IngestJobs
        /\ job'.step = "ingest" /\ job'.spec = job.spec /\ job'.gen = job.gen
        /\ job'.head = job.head /\ job'.files = job.files /\ job'.todo = job.todo \ {f}
        /\ job'.failed = job.failed \cup {f}
  BY <1>1, <1>2 DEF IngestJobs
<1>5. Done(f) =>
        /\ job' \in IngestJobs
        /\ job'.step = "ingest" /\ job'.spec = job.spec /\ job'.gen = job.gen
        /\ job'.head = job.head /\ job'.files = job.files /\ job'.todo = job.todo \ {f}
        /\ job'.failed = job.failed
  BY <1>1, <1>3 DEF IngestJobs
<1>6. CASE NotSent(f)
  BY <1>1, <1>4, <1>6 DEF NotSent, history
<1>7. CASE Skip(f)
  BY <1>1, <1>5, <1>7 DEF Skip, history
<1>8. CASE IngestOk(f)
  BY <1>1, <1>5, <1>8 DEF IngestOk, Sent
<1>9. CASE AnswersLost(f)
  BY <1>1, <1>4, <1>9 DEF AnswersLost, Sent
<1>10. QED
  BY <1>6, <1>7, <1>8, <1>9

\* The files that a sync takes up, and why it may leave out the others.
LEMMA CloneStep ==
  ASSUME TypeOK, CloneIncremental \/ CloneFull
  PROVE  /\ job.step = "clone"
         /\ job' \in IngestJobs /\ job'.spec = job.spec /\ job'.gen = job.gen
         /\ job'.head = headCommit /\ job'.todo = job'.files /\ job'.failed = {}
         /\ job'.files \subseteq Matching[job.spec]
         /\ \/ /\ status.commit \in Commits /\ ~job.specChanged
               /\ \A f \in Matching[job.spec] \ job'.files :
                    TreeOf[status.commit][f] = TreeOf[headCommit][f]
            \/ \A f \in Matching[job.spec] \ job'.files : TreeOf[headCommit][f] = Absent
         /\ UNCHANGED <<branch, object, status, fresh, queue, docs, events, history>>
<1>1. job.step = "clone" /\ job.spec \in Specs /\ job.gen \in Nat
  BY JobFields DEF CloneIncremental, CloneFull
<1>2. Matching[job.spec] \subseteq Files
  BY <1>1, ConstantsOK
<1>3. ASSUME NEW files, StartIngest(files)
      PROVE  /\ job' \in IngestJobs /\ job'.spec = job.spec /\ job'.gen = job.gen
             /\ job'.head = headCommit /\ job'.todo = job'.files /\ job'.failed = {}
             /\ job'.files = files \cap Matching[job.spec]
  BY <1>1, <1>2, <1>3, HeadType DEF StartIngest, FilterFiles, IngestJobs
<1>4. CASE CloneIncremental
  <2>1. status.commit \in Commits
    BY <1>4 DEF CloneIncremental, TypeOK, Statuses
  <2>2. QED
    BY <1>1, <1>2, <1>3, <1>4, <2>1 DEF CloneIncremental, ChangedFiles
<1>5. CASE CloneFull
  BY <1>1, <1>2, <1>3, <1>5 DEF CloneFull, AllFiles
<1>6. QED
  BY <1>4, <1>5

\* What the sync asks the status to say.
LEMMA EndSyncStep ==
  ASSUME TypeOK, EndSync
  PROVE  /\ job.step = "ingest" /\ job \in IngestJobs /\ job.todo = {}
         /\ job' \in StatusJobs
         /\ job'.status.commit = job.head /\ job'.status.observed = job.gen
         /\ (job'.status.next => job.spec \in Timed)
         /\ job'.files = job.files /\ job'.failed = job.failed
         /\ job'.again \/ missed' \/ job.spec \notin Timed
         /\ missed' \in BOOLEAN
         /\ UNCHANGED <<branch, object, status, fresh, queue, docs, events,
                        failed, ahead, kept>>
<1>1. job.step = "ingest" /\ job \in IngestJobs /\ job.todo = {}
  BY JobFields DEF EndSync, IngestJobs
<1>2. PICK duration \in NextSyncDuration(job.spec), timedOut \in BOOLEAN :
        /\ missed' = (job.spec \in Timed /\ duration = "zero")
        /\ job' = [step |-> "status",
                   status |-> [commit |-> job.head, observed |-> job.gen,
                               synced |-> job.failed = {} /\ ~timedOut,
                               next |-> job.spec \in Timed],
                   again |-> duration = "positive", files |-> job.files,
                   failed |-> job.failed]
  BY DEF EndSync
<1>3. [commit |-> job.head, observed |-> job.gen, synced |-> job.failed = {} /\ ~timedOut,
       next |-> job.spec \in Timed] \in Statuses
  BY <1>1 DEF IngestJobs, Statuses
<1>4. job' \in StatusJobs
  BY <1>1, <1>2, <1>3 DEF IngestJobs, StatusJobs
<1>5. duration \in {"positive", "zero"}
  BY <1>2 DEF NextSyncDuration
<1>6. job'.again \/ missed' \/ job.spec \notin Timed
  BY <1>2, <1>5
<1>7. QED
  BY <1>1, <1>2, <1>4, <1>6 DEF EndSync

LEMMA SyncFailsStep ==
  ASSUME TypeOK, SyncFails
  PROVE  /\ job.step = "clone"
         /\ job' \in StatusJobs /\ job'.again
         /\ job'.status.commit = status.commit /\ job'.status.observed = status.observed
         /\ job'.files = {} /\ job'.failed = {}
         /\ UNCHANGED <<branch, object, status, fresh, queue, docs, events, history>>
<1>1. status \in Statuses
  BY DEF TypeOK
<1>2. ASSUME NEW v \in Statuses, NEW s
      PROVE  /\ [v EXCEPT !.next = @ /\ s \in Timed] \in Statuses
             /\ [v EXCEPT !.next = @ /\ s \in Timed].commit = v.commit
             /\ [v EXCEPT !.next = @ /\ s \in Timed].observed = v.observed
  BY DEF Statuses
<1>3. ASSUME NEW v \in Statuses
      PROVE  /\ [v EXCEPT !.synced = FALSE] \in Statuses
             /\ [v EXCEPT !.synced = FALSE].commit = v.commit
             /\ [v EXCEPT !.synced = FALSE].observed = v.observed
  BY DEF Statuses
<1>4. /\ Validated(job.spec) \in Statuses
      /\ Validated(job.spec).commit = status.commit
      /\ Validated(job.spec).observed = status.observed
  BY <1>1, <1>2 DEF Validated
<1>5. /\ [Validated(job.spec) EXCEPT !.synced = FALSE] \in Statuses
      /\ [Validated(job.spec) EXCEPT !.synced = FALSE].commit = status.commit
      /\ [Validated(job.spec) EXCEPT !.synced = FALSE].observed = status.observed
  BY <1>3, <1>4
<1> DEFINE w == [Validated(job.spec) EXCEPT !.synced = FALSE]
<1>6. job' = [step |-> "status", status |-> w, again |-> TRUE, files |-> {}, failed |-> {}]
  BY DEF SyncFails
<1>7. w \in Statuses /\ w.commit = status.commit /\ w.observed = status.observed
  BY <1>5
<1> HIDE DEF w
<1>8. /\ job' \in StatusJobs /\ job'.status = w /\ job'.again = TRUE
      /\ job'.files = {} /\ job'.failed = {}
  BY <1>6, <1>7 DEF StatusJobs
<1>9. /\ job.step = "clone"
      /\ UNCHANGED <<branch, object, status, fresh, queue, docs, events, history>>
  BY DEF SyncFails
<1>10. QED
  BY <1>7, <1>8, <1>9
-----------------------------------------------------------------------------
LEMMA SyncTypes ==
  ASSUME TInv,
         \/ SyncFails \/ CloneIncremental \/ CloneFull \/ EndSync
         \/ \E f \in Files : NotSent(f) \/ Skip(f) \/ IngestOk(f) \/ AnswersLost(f)
  PROVE  TInv'
<1> USE DEF queue, history, IngestJobs, StatusJobs
<1>1. IngestJobs \subseteq Jobs /\ StatusJobs \subseteq Jobs
  BY DEF Jobs
<1>2. job # Idle => object.there /\ object.finalizer
  BY DEF TInv, TypeOK
<1>3. job.step # "idle" => job # Idle
  BY DEF Idle
<1>4. CASE SyncFails
  BY <1>1, <1>2, <1>3, <1>4, SyncFailsStep DEF TInv, TypeOK
<1>5. CASE CloneIncremental \/ CloneFull
  BY <1>1, <1>2, <1>3, <1>5, CloneStep DEF TInv, TypeOK
<1>6. CASE EndSync
  BY <1>1, <1>2, <1>3, <1>6, EndSyncStep DEF TInv, TypeOK
<1>7. ASSUME NEW f \in Files, NotSent(f) \/ Skip(f) \/ IngestOk(f) \/ AnswersLost(f)
      PROVE  TInv'
  <2>0. /\ job.head \in Commits /\ job.spec \in Specs
        /\ \/ UNCHANGED <<docs, ahead>>
           \/ /\ docs' = [docs EXCEPT ![ServerOf[job.spec]][f] = Content(f)]
              /\ ahead' = ahead \cup {f}
    BY <1>7, IngestStep DEF TInv
  <2>1. Content(f) \in Contents \cup {Absent} /\ ServerOf[job.spec] \in Servers
    BY <2>0, ConstantsOK DEF Content
  <2>2. docs' \in [Servers -> [Files -> Contents \cup {Absent}]]
    <3>1. docs \in [Servers -> [Files -> Contents \cup {Absent}]]
      BY DEF TInv, TypeOK
    <3>2. QED
      BY <2>0, <2>1, <3>1
  <2>3. ahead' \subseteq Files
    BY <2>0 DEF TInv, TypeOK
  <2>4. job' \in Jobs /\ job # Idle
    BY <1>1, <1>3, <1>7, IngestStep DEF TInv
  <2>5. UNCHANGED <<branch, object, status, fresh, queue, events, failed, missed, kept>>
    BY <1>7, IngestStep DEF TInv
  <2>6. QED
    BY <1>2, <2>2, <2>3, <2>4, <2>5 DEF TInv, TypeOK
<1>8. QED
  BY <1>4, <1>5, <1>6, <1>7

LEMMA WriteTypes ==
  ASSUME TInv, WriteStatus \/ WriteStatusFails
  PROVE  TInv'
<1> USE DEF queue, history
<1>1. job.step = "status" /\ job \in StatusJobs
  BY JobFields DEF TInv, WriteStatus, WriteStatusFails, StatusJobs
<1>2. Record => status' \in Statuses /\ failed' \subseteq Files /\ ahead' \subseteq Files
  BY <1>1 DEF Record, TInv, TypeOK, StatusJobs
<1>3. status' \in Statuses /\ failed' \subseteq Files /\ ahead' \subseteq Files
  BY <1>2 DEF TInv, TypeOK, WriteStatus, WriteStatusFails
<1>4. job' = Idle /\ job' \in Jobs
  BY DEF WriteStatus, WriteStatusFails, Jobs, Idle
<1>5. delayed' \in BOOLEAN /\ queued' \in BOOLEAN
  BY DEF TInv, TypeOK, WriteStatus, WriteStatusFails
<1>6. UNCHANGED <<branch, object, fresh, docs, events, missed, kept>>
  BY DEF WriteStatus, WriteStatusFails
<1>7. QED
  BY <1>3, <1>4, <1>5, <1>6 DEF TInv, TypeOK

LEMMA DeletionTypes ==
  ASSUME TInv, CleanupOk \/ CleanupSkipped \/ RemoveFinalizer \/ RemoveFinalizerFails
  PROVE  TInv'
<1> USE DEF queue, history
<1>1. CASE CleanupOk \/ CleanupSkipped
  <2>1. job.step = "cleanup" /\ job # Idle
        /\ job \in [step : {"cleanup", "release"}, spec : Specs]
    BY <1>1, JobFields DEF TInv, CleanupOk, CleanupSkipped
  <2>2. job' \in [step : {"cleanup", "release"}, spec : Specs]
    BY <1>1, <2>1 DEF CleanupOk, CleanupSkipped, ToRelease
  <2>3. ServerOf[job.spec] \in Servers /\ NoDocs \in [Files -> Contents \cup {Absent}]
    BY <2>1, ConstantsOK DEF NoDocs
  <2>4. docs' \in [Servers -> [Files -> Contents \cup {Absent}]]
    BY <1>1, <2>3 DEF TInv, TypeOK, CleanupOk, CleanupSkipped, Cleaned
  <2>5. kept' \in BOOLEAN
    BY <1>1 DEF CleanupOk, CleanupSkipped
  <2>6. UNCHANGED <<branch, object, status, fresh, queue, events, failed, ahead, missed>>
    BY <1>1 DEF CleanupOk, CleanupSkipped
  <2>7. job' \in Jobs
    BY <2>2 DEF Jobs
  <2>8. QED
    BY <2>1, <2>4, <2>5, <2>6, <2>7 DEF TInv, TypeOK
<1>2. CASE RemoveFinalizer \/ RemoveFinalizerFails
  <2>1. job' = Idle /\ job' \in Jobs
    <3>1. job' = Idle
      BY <1>2 DEF RemoveFinalizer, RemoveFinalizerFails
    <3>2. QED
      BY <3>1 DEF Jobs, Idle
  <2>2. object' \in Objects /\ (object'.deleting => object'.finalizer)
    BY <1>2 DEF TInv, TypeOK, Objects, RemoveFinalizer, RemoveFinalizerFails
  <2>3. queued' \in BOOLEAN
    BY <1>2 DEF TInv, TypeOK, RemoveFinalizer, RemoveFinalizerFails
  <2>4. UNCHANGED <<branch, status, fresh, delayed, docs, events, history>>
    BY <1>2 DEF RemoveFinalizer, RemoveFinalizerFails
  <2>5. QED
    BY <2>1, <2>2, <2>3, <2>4 DEF TInv, TypeOK, Objects
<1>3. QED
  BY <1>1, <1>2

LEMMA TypeNext == TInv /\ [Next]_vars => TInv'
<1> SUFFICES ASSUME TInv, [Next]_vars PROVE TInv'
  OBVIOUS
<1>1. CASE UNCHANGED vars
  BY <1>1 DEF vars, queue, history, TInv, TypeOK
<1>2. CASE Environment \/ Fire
  BY <1>2, EnvironmentTypes
<1>3. CASE Reconcile
  BY <1>3, BeginTypes, SyncTypes, WriteTypes, DeletionTypes DEF Reconcile
<1>4. QED
  BY <1>1, <1>2, <1>3 DEF Next

\* TypeCorrect: the variables have their types, and there is no reconcile of a source
\* that is gone or has no finalizer.
THEOREM TypeCorrect == Safety => []TypeOK
<1>1. Safety => []TInv
  BY TypeInit, TypeNext, PTL DEF Safety
<1>2. TInv => TypeOK
  BY DEF TInv
<1>3. QED
  BY <1>1, <1>2, PTL
-----------------------------------------------------------------------------
(* What a reconcile knows of the object it works on.                        *)

\* A reconcile knows the object while nobody else writes it, and a write by others has
\* queued a request; a spec that is not seen as edited has the generation synced last.
Current ==
  /\ job.step \in {"cleanup", "release"} =>
       object.deleting /\ (fresh => object.spec = job.spec)
  /\ job.step \in {"clone", "ingest"} /\ fresh =>
       object.spec = job.spec /\ object.gen = job.gen /\ ~object.deleting
  /\ job.step = "clone" /\ ~job.specChanged => job.gen = status.observed
  /\ job.step = "status" /\ fresh =>
       ~object.deleting /\ job.status.observed <= object.gen
  /\ job.step # "idle" /\ ~fresh => queued
  /\ object.there => status.observed <= object.gen

CInv == TInv /\ Current

LEMMA CurrentInit == Init => Current
  BY DEF Init, Current, NewObject, NewStatus, Idle

LEMMA CurrentEnvironment ==
  ASSUME CInv, Environment \/ Fire
  PROVE  Current'
<1> USE DEF queue, history
<1>0. /\ TypeOK /\ object \in Objects /\ status \in Statuses /\ fresh \in BOOLEAN
      /\ queued \in BOOLEAN
      /\ job.step # "idle" => object.there /\ object.finalizer
      /\ job = Idle => job.step = "idle"
      /\ job.step = "status" => job \in StatusJobs
  BY JobFields DEF CInv, TInv, TypeOK, Objects, StatusJobs
<1> USE DEF CInv, Current
<1>1. ASSUME NEW c \in Commits, Push(c) PROVE Current'
  BY <1>1 DEF Push
<1>2. CASE Rewind
  BY <1>2 DEF Rewind
<1>3. ASSUME NEW s \in Specs, Edit(s) PROVE Current'
  BY <1>0, <1>3 DEF Edit, Objects, Statuses, StatusJobs
<1>4. ASSUME NEW s \in Specs, Create(s) PROVE Current'
  BY <1>0, <1>4 DEF Create, NewObject, NewStatus
<1>5. CASE Delete
  BY <1>0, <1>5 DEF Delete, Objects, Statuses, StatusJobs
<1>6. CASE Exit
  BY <1>0, <1>6 DEF Exit, Idle
<1>7. CASE Fire
  BY <1>7 DEF Fire
<1>8. QED
  BY <1>1, <1>2, <1>3, <1>4, <1>5, <1>6, <1>7 DEF Environment

LEMMA CurrentReconcile ==
  ASSUME CInv, Reconcile
  PROVE  Current'
<1> USE DEF queue, history
<1>0. /\ TypeOK /\ object \in Objects /\ status \in Statuses /\ fresh \in BOOLEAN
      /\ queued \in BOOLEAN
      /\ job.step # "idle" => object.there /\ object.finalizer
      /\ job = Idle => job.step = "idle"
      /\ job.step \in {"cleanup", "release"} =>
           job \in [step : {"cleanup", "release"}, spec : Specs]
      /\ job.step = "status" => job \in StatusJobs
  BY JobFields DEF CInv, TInv, TypeOK, Objects, StatusJobs
<1> USE DEF CInv, Current
<1>1. CASE ReconcileGone
  BY <1>0, <1>1 DEF ReconcileGone
<1>2. CASE AddFinalizer
  BY <1>0, <1>2 DEF AddFinalizer, Objects
<1>3. CASE BeginCleanup
  BY <1>0, <1>3 DEF BeginCleanup
<1>4. CASE BeginSync
  BY <1>0, <1>4 DEF BeginSync
<1>5. CASE SyncFails
  BY <1>0, <1>5, SyncFailsStep DEF StatusJobs
<1>6. CASE CloneIncremental \/ CloneFull
  BY <1>0, <1>6, CloneStep DEF IngestJobs
<1>7. ASSUME NEW f \in Files, NotSent(f) \/ Skip(f) \/ IngestOk(f) \/ AnswersLost(f)
      PROVE  Current'
  <2>1. /\ job.step = "ingest" /\ job'.step = "ingest" /\ job'.spec = job.spec
        /\ job'.gen = job.gen /\ UNCHANGED <<object, status, fresh, queued>>
    BY <1>0, <1>7, IngestStep
  <2>2. QED
    BY <2>1
<1>8. CASE EndSync
  BY <1>0, <1>8, EndSyncStep DEF StatusJobs, IngestJobs, Objects
<1>9. CASE WriteStatus \/ WriteStatusFails
  BY <1>0, <1>9 DEF WriteStatus, WriteStatusFails, Record, Idle
<1>10. CASE CleanupOk \/ CleanupSkipped
  <2>1. job' \in [step : {"release"}, spec : {job.spec}] /\ job.step = "cleanup"
    BY <1>0, <1>10 DEF CleanupOk, CleanupSkipped, ToRelease
  <2>2. UNCHANGED <<object, status, fresh, queued>>
    BY <1>10 DEF CleanupOk, CleanupSkipped
  <2>3. QED
    BY <1>0, <2>1, <2>2
<1>11. CASE RemoveFinalizer \/ RemoveFinalizerFails
  <2>1. job' = Idle /\ UNCHANGED status
    BY <1>11 DEF RemoveFinalizer, RemoveFinalizerFails
  <2>2. ~object'.there \/ UNCHANGED object
    BY <1>0, <1>11 DEF RemoveFinalizer, RemoveFinalizerFails, Objects
  <2>3. QED
    BY <2>1, <2>2 DEF Idle
<1>12. QED
  BY <1>1, <1>2, <1>3, <1>4, <1>5, <1>6, <1>7, <1>8, <1>9, <1>10, <1>11 DEF Reconcile

LEMMA CurrentNext == CInv /\ [Next]_vars => CInv'
<1> SUFFICES ASSUME CInv, [Next]_vars PROVE CInv'
  OBVIOUS
<1>1. TInv'
  BY TypeNext DEF CInv
<1>2. CASE UNCHANGED vars
  BY <1>1, <1>2 DEF CInv, Current, vars, queue
<1>3. QED
  BY <1>1, <1>2, CurrentEnvironment, CurrentReconcile DEF CInv, Next

LEMMA CurrentAlways == Safety => []CInv
<1>1. Init => CInv
  BY TypeInit, CurrentInit DEF CInv
<1>2. QED
  BY <1>1, CurrentNext, PTL DEF Safety
-----------------------------------------------------------------------------
(* A source that is gone.                                                   *)

\* What the cleanup has removed is not there again when the finalizer goes.
CleanInv ==
  /\ job.step = "release" /\ fresh /\ ~kept => docs[ServerOf[object.spec]] = NoDocs
  /\ GoneIsClean

LEMMA CleanInit == Init => CleanInv
  BY DEF Init, CleanInv, GoneIsClean, NewObject, Idle

LEMMA CleanEnvironment ==
  ASSUME CInv, CleanInv, Environment \/ Fire
  PROVE  CleanInv'
<1> USE DEF queue, history, CleanInv, GoneIsClean
<1>0. /\ object \in Objects /\ (job.step # "idle" => object.there /\ object.finalizer)
  BY JobFields DEF CInv, TInv, TypeOK, Objects
<1>1. ASSUME NEW c \in Commits, Push(c) PROVE CleanInv'
  BY <1>1 DEF Push, NoDocs
<1>2. CASE Rewind
  BY <1>2 DEF Rewind, NoDocs
<1>3. ASSUME NEW s \in Specs, Edit(s) PROVE CleanInv'
  BY <1>0, <1>3 DEF Edit, Objects, NoDocs
<1>4. ASSUME NEW s \in Specs, Create(s) PROVE CleanInv'
  BY <1>0, <1>4 DEF Create, NewObject, NoDocs
<1>5. CASE Delete
  BY <1>0, <1>5 DEF Delete, Objects, NoDocs
<1>6. CASE Exit
  BY <1>0, <1>6 DEF Exit, Idle, NoDocs
<1>7. CASE Fire
  BY <1>7 DEF Fire, NoDocs
<1>8. QED
  BY <1>1, <1>2, <1>3, <1>4, <1>5, <1>6, <1>7 DEF Environment

LEMMA CleanReconcile ==
  ASSUME CInv, CleanInv, Reconcile
  PROVE  CleanInv'
<1> USE DEF queue, history, CleanInv, GoneIsClean
<1>0. /\ TypeOK /\ object \in Objects
      /\ job.step # "idle" => object.there /\ object.finalizer
      /\ job = Idle => job.step = "idle"
      /\ job.step \in {"cleanup", "release"} =>
           job \in [step : {"cleanup", "release"}, spec : Specs]
  BY JobFields DEF CInv, TInv, TypeOK, Objects
<1>1. CASE ReconcileGone
  BY <1>1 DEF ReconcileGone, NoDocs
<1>2. CASE AddFinalizer
  BY <1>0, <1>2 DEF AddFinalizer, Objects, NoDocs
<1>3. CASE BeginCleanup \/ BeginSync
  BY <1>0, <1>3 DEF BeginCleanup, BeginSync, NoDocs
<1>4. CASE \/ SyncFails \/ CloneIncremental \/ CloneFull \/ EndSync
           \/ \E f \in Files : NotSent(f) \/ Skip(f) \/ IngestOk(f) \/ AnswersLost(f)
  <2>1. UNCHANGED object /\ job.step # "idle" /\ job'.step # "release"
    BY <1>0, <1>4, SyncFailsStep, CloneStep, EndSyncStep, IngestStep
       DEF IngestJobs, StatusJobs
  <2>2. QED
    BY <1>0, <2>1
<1>5. CASE WriteStatus \/ WriteStatusFails
  BY <1>0, <1>5 DEF WriteStatus, WriteStatusFails, Idle, NoDocs
<1>6. CASE CleanupOk \/ CleanupSkipped
  <2>1. UNCHANGED <<object, fresh>> /\ object.there
    BY <1>0, <1>6 DEF CleanupOk, CleanupSkipped
  <2>2. ASSUME fresh, ~kept' PROVE docs'[ServerOf[object.spec]] = NoDocs
    <3>1. CleanupOk
      BY <1>6, <2>2 DEF CleanupSkipped
    <3>2. object.spec = job.spec /\ object.spec \in Specs
      BY <1>0, <2>2, <3>1 DEF CInv, Current, CleanupOk, Objects
    <3>3. ServerOf[object.spec] \in Servers /\ DOMAIN docs = Servers
      BY <1>0, <3>2, ConstantsOK DEF TypeOK
    <3>4. QED
      BY <3>1, <3>2, <3>3 DEF CleanupOk, Cleaned
  <2>3. QED
    BY <2>1, <2>2 DEF NoDocs
<1>7. CASE RemoveFinalizer \/ RemoveFinalizerFails
  <2>0. job' = Idle /\ UNCHANGED <<docs, kept>> /\ job.step = "release"
    BY <1>7 DEF RemoveFinalizer, RemoveFinalizerFails
  <2>1. job'.step = "idle" /\ UNCHANGED <<docs, kept>> /\ object.there
    BY <1>0, <2>0 DEF Idle
  <2>2. CASE RemoveFinalizer
    BY <1>0, <2>1, <2>2 DEF RemoveFinalizer, Objects, NoDocs
  <2>3. CASE RemoveFinalizerFails
    BY <2>1, <2>3 DEF RemoveFinalizerFails
  <2>4. QED
    BY <1>7, <2>2, <2>3
<1>8. QED
  BY <1>1, <1>2, <1>3, <1>4, <1>5, <1>6, <1>7 DEF Reconcile

\* GoneMeansClean: when a source is gone, so are its documents at the server of its last
\* spec, unless the cleanup was skipped or failed, whatever edits, conflicts, lost
\* answers and exits come between the cleanup and the removal of the finalizer.
THEOREM GoneMeansClean == Safety => []GoneIsClean
<1>1. CInv /\ CleanInv /\ [Next]_vars => CleanInv'
  <2> SUFFICES ASSUME CInv, CleanInv, [Next]_vars PROVE CleanInv'
    OBVIOUS
  <2>1. CASE UNCHANGED vars
    BY <2>1 DEF vars, queue, history, CleanInv, GoneIsClean, NoDocs
  <2>2. QED
    BY <2>1, CleanEnvironment, CleanReconcile DEF Next
<1>2. CleanInv => GoneIsClean
  BY DEF CleanInv
<1>3. QED
  BY <1>1, <1>2, CleanInit, CurrentAlways, PTL DEF Safety
-----------------------------------------------------------------------------
(* The queue.                                                               *)

\* A result without a requeue is one that needs none, or has missed its time.
QueueInv ==
  /\ job.step = "status" /\ fresh /\ ~job.again =>
       \/ missed
       \/ /\ object.spec \notin Timed /\ ~job.status.next
          /\ job.status.observed = object.gen /\ job.status.commit # NoCommit
  /\ NotForgotten

LEMMA QueueInit == Init => QueueInv
  BY DEF Init, QueueInv, NotForgotten, Idle

LEMMA QueueEnvironment ==
  ASSUME CInv, QueueInv, Environment \/ Fire
  PROVE  QueueInv'
<1> USE DEF queue, history, QueueInv, NotForgotten, Claims
<1>0. /\ object \in Objects /\ (job.step # "idle" => object.there /\ object.finalizer)
      /\ (job = Idle) <=> (job.step = "idle")
  BY JobFields DEF CInv, TInv, TypeOK, Objects
<1>1. ASSUME NEW c \in Commits, Push(c) PROVE QueueInv'
  BY <1>1 DEF Push, Idle
<1>2. CASE Rewind
  BY <1>2 DEF Rewind, Idle
<1>3. ASSUME NEW s \in Specs, Edit(s) PROVE QueueInv'
  <2>1. fresh' = FALSE /\ queued' = TRUE
    BY <1>3 DEF Edit
  <2>2. QED
    BY <2>1
<1>4. ASSUME NEW s \in Specs, Create(s) PROVE QueueInv'
  <2>1. fresh' = FALSE /\ queued' = TRUE
    BY <1>4 DEF Create
  <2>2. QED
    BY <2>1
<1>5. CASE Delete
  <2>1. fresh' = FALSE /\ queued' = TRUE
    BY <1>5 DEF Delete
  <2>2. QED
    BY <2>1
<1>6. CASE Exit
  BY <1>0, <1>6 DEF Exit, Idle
<1>7. CASE Fire
  BY <1>7 DEF Fire, Idle
<1>8. QED
  BY <1>1, <1>2, <1>3, <1>4, <1>5, <1>6, <1>7 DEF Environment

LEMMA QueueReconcile ==
  ASSUME CInv, QueueInv, Reconcile
  PROVE  QueueInv'
<1> USE DEF queue, history, QueueInv, NotForgotten, Claims
<1>0. /\ TypeOK /\ object \in Objects
      /\ job.step # "idle" => object.there /\ object.finalizer
      /\ (job = Idle) <=> (job.step = "idle")
      /\ job.step \in {"cleanup", "release"} =>
           job \in [step : {"cleanup", "release"}, spec : Specs]
  BY JobFields DEF CInv, TInv, TypeOK, Objects
<1>1. CASE ReconcileGone
  BY <1>0, <1>1 DEF ReconcileGone
<1>2. CASE AddFinalizer
  <2>1. queued' /\ UNCHANGED job /\ job.step = "idle"
    BY <1>0, <1>2 DEF AddFinalizer
  <2>2. QED
    BY <1>0, <2>1
<1>3. CASE BeginCleanup \/ BeginSync
  <2>1. job'.step \in {"cleanup", "clone"}
    BY <1>3 DEF BeginCleanup, BeginSync
  <2>2. QED
    BY <2>1 DEF Idle
<1>4. CASE SyncFails
  <2>1. job'.step = "status" /\ job'.again
    BY <1>0, <1>4, SyncFailsStep DEF StatusJobs
  <2>2. QED
    BY <2>1 DEF Idle
<1>5. CASE \/ CloneIncremental \/ CloneFull
           \/ \E f \in Files : NotSent(f) \/ Skip(f) \/ IngestOk(f) \/ AnswersLost(f)
  <2>1. job'.step = "ingest"
    BY <1>0, <1>5, CloneStep, IngestStep DEF IngestJobs
  <2>2. QED
    BY <2>1 DEF Idle
<1>6. CASE EndSync
  <2>1. /\ job.step = "ingest" /\ job.head \in Commits /\ job'.step = "status"
        /\ job'.status.commit = job.head /\ job'.status.observed = job.gen
        /\ (job'.status.next => job.spec \in Timed)
        /\ job'.again \/ missed' \/ job.spec \notin Timed
        /\ UNCHANGED <<object, fresh>>
    BY <1>0, <1>6, EndSyncStep DEF IngestJobs, StatusJobs
  <2>2. fresh => object.spec = job.spec /\ object.gen = job.gen
    BY <2>1 DEF CInv, Current
  <2>3. QED
    BY <2>1, <2>2, ConstantsOK DEF Idle
<1>7. CASE WriteStatus
  <2>1. /\ job.step = "status" /\ fresh /\ status' = job.status /\ UNCHANGED <<object, missed>>
        /\ job' = Idle /\ (job.again => delayed')
    BY <1>7 DEF WriteStatus, Record
  <2>2. object.there /\ ~object.deleting
    BY <1>0, <2>1 DEF CInv, Current
  <2>3. QED
    BY <2>1, <2>2 DEF Idle
<1>8. CASE WriteStatusFails \/ RemoveFinalizerFails
  <2>1. queued' /\ job' = Idle
    BY <1>8 DEF WriteStatusFails, RemoveFinalizerFails
  <2>2. QED
    BY <2>1 DEF Idle
<1>9. CASE CleanupOk \/ CleanupSkipped
  <2>1. job'.step = "release"
    BY <1>0, <1>9 DEF CleanupOk, CleanupSkipped, ToRelease
  <2>2. QED
    BY <2>1 DEF Idle
<1>10. CASE RemoveFinalizer
  <2>1. ~object'.there /\ job' = Idle
    BY <1>0, <1>10 DEF RemoveFinalizer, Objects
  <2>2. QED
    BY <2>1 DEF Idle
<1>11. QED
  BY <1>1, <1>2, <1>3, <1>4, <1>5, <1>6, <1>7, <1>8, <1>9, <1>10 DEF Reconcile

\* NothingForgotten: between two reconciles a request is queued or scheduled, unless the
\* schedule is invalid and the spec synced, or the next time was already past.
THEOREM NothingForgotten == Safety => []NotForgotten
<1>1. CInv /\ QueueInv /\ [Next]_vars => QueueInv'
  <2> SUFFICES ASSUME CInv, QueueInv, [Next]_vars PROVE QueueInv'
    OBVIOUS
  <2>1. CASE UNCHANGED vars
    BY <2>1 DEF vars, queue, history, QueueInv, NotForgotten, Claims, Idle
  <2>2. QED
    BY <2>1, QueueEnvironment, QueueReconcile DEF Next
<1>2. QueueInv => NotForgotten
  BY DEF QueueInv
<1>3. QED
  BY <1>1, <1>2, QueueInit, CurrentAlways, PTL DEF Safety
-----------------------------------------------------------------------------
(* The recorded commit.                                                     *)

At(f, c) ==
  LET v == TreeOf[c][f]
  IN  v \notin Oversize[object.spec] \cup {Absent} => docs[ServerOf[object.spec]][f] = v

\* A sync of commit c may leave a file out that c does not have, or that is as in the
\* commit recorded for the same spec.
LeftOut(c, files) ==
  \A f \in Matching[object.spec] \ files :
    TreeOf[c][f] = Absent \/ (Claims /\ TreeOf[status.commit][f] = TreeOf[c][f])

\* What a sync has taken up without failing is at the server, and it left out only what
\* the record vouches for.
RecordInv ==
  /\ job.step = "ingest" /\ fresh =>
       /\ LeftOut(job.head, job.files)
       /\ \A f \in job.files \ (job.todo \cup job.failed) : At(f, job.head)
  /\ job.step = "status" /\ fresh /\ job.status.observed = object.gen
       /\ job.status.commit # NoCommit =>
       /\ LeftOut(job.status.commit, job.files)
       /\ \A f \in job.files \ job.failed : At(f, job.status.commit)
  /\ RecordedIsThere

LEMMA RecordInit == Init => RecordInv
  BY DEF Init, RecordInv, RecordedIsThere, Claims, NewStatus, Idle

LEMMA StepsBesides ==
  ASSUME RecordInv, UNCHANGED <<object, status, docs, failed, ahead>>,
         \/ UNCHANGED <<job, fresh>>
         \/ job'.step \in {"idle", "cleanup", "release", "clone"}
  PROVE  RecordInv'
<1>1. RecordedIsThere'
  BY DEF RecordInv, RecordedIsThere, Claims, InPlace
<1>2. CASE job'.step \in {"idle", "cleanup", "release", "clone"}
  BY <1>1, <1>2 DEF RecordInv
<1>3. CASE UNCHANGED <<job, fresh>>
  BY <1>1, <1>3 DEF RecordInv, LeftOut, At, Claims
<1>4. QED
  BY <1>2, <1>3

LEMMA RecordEnvironment ==
  ASSUME CInv, RecordInv, Environment \/ Fire
  PROVE  RecordInv'
<1> USE DEF queue, history
<1>0. object \in Objects /\ status \in Statuses
  BY DEF CInv, TInv, TypeOK, Objects
<1>1. ASSUME NEW c \in Commits, Push(c) PROVE RecordInv'
  BY <1>1, StepsBesides DEF Push
<1>2. CASE Rewind
  BY <1>2, StepsBesides DEF Rewind
<1>3. ASSUME NEW s \in Specs, Edit(s) PROVE RecordInv'
  <2>1. fresh' = FALSE
    BY <1>3 DEF Edit
  <2>2. ~Claims'
    BY <1>0, <1>3 DEF Edit, CInv, Current, Claims, Objects, Statuses
  <2>3. QED
    BY <2>1, <2>2 DEF RecordInv, RecordedIsThere
<1>4. ASSUME NEW s \in Specs, Create(s) PROVE RecordInv'
  <2>1. fresh' = FALSE
    BY <1>4 DEF Create
  <2>2. ~Claims'
    BY <1>4 DEF Create, NewStatus, Claims
  <2>3. QED
    BY <2>1, <2>2 DEF RecordInv, RecordedIsThere
<1>5. CASE Delete
  <2>1. fresh' = FALSE
    BY <1>5 DEF Delete
  <2>2. ~Claims'
    BY <1>0, <1>5 DEF Delete, Claims, Objects
  <2>3. QED
    BY <2>1, <2>2 DEF RecordInv, RecordedIsThere
<1>6. CASE Exit
  <2>1. job' = Idle /\ UNCHANGED <<object, status, docs, failed, ahead>>
    BY <1>6 DEF Exit
  <2>2. QED
    BY <2>1, StepsBesides DEF Idle
<1>7. CASE Fire
  BY <1>7, StepsBesides DEF Fire
<1>8. QED
  BY <1>1, <1>2, <1>3, <1>4, <1>5, <1>6, <1>7 DEF Environment

\* A file is sent: it is in place unless it failed, and until the sync is recorded the
\* record does not speak of it.
LEMMA RecordIngest ==
  ASSUME CInv, RecordInv, NEW f \in Files,
         NotSent(f) \/ Skip(f) \/ IngestOk(f) \/ AnswersLost(f)
  PROVE  RecordInv'
<1>1. /\ job.step = "ingest" /\ job \in IngestJobs /\ f \in job.todo
      /\ job'.step = "ingest" /\ job'.head = job.head
      /\ job'.files = job.files /\ job'.todo = job.todo \ {f}
      /\ \/ job'.failed = job.failed \cup {f}
         \/ /\ job'.failed = job.failed
            /\ TreeOf[job.head][f] \in Oversize[job.spec] /\ UNCHANGED docs
         \/ /\ job'.failed = job.failed
            /\ docs' = [docs EXCEPT ![ServerOf[job.spec]][f] = TreeOf[job.head][f]]
      /\ \/ UNCHANGED <<docs, ahead>>
         \/ /\ docs' = [docs EXCEPT ![ServerOf[job.spec]][f] = TreeOf[job.head][f]]
            /\ ahead' = ahead \cup {f}
      /\ UNCHANGED <<object, status, fresh, failed>>
  BY IngestStep DEF CInv, TInv, Content
<1>2. job.spec \in Specs /\ ServerOf[job.spec] \in Servers
      /\ docs \in [Servers -> [Files -> Contents \cup {Absent}]]
  BY <1>1, ConstantsOK DEF IngestJobs, CInv, TInv, TypeOK
<1>3. \A m \in Servers, g \in Files : g # f => docs'[m][g] = docs[m][g]
  BY <1>1, <1>2
<1>4. docs' = [docs EXCEPT ![ServerOf[job.spec]][f] = TreeOf[job.head][f]]
        => docs'[ServerOf[job.spec]][f] = TreeOf[job.head][f]
  BY <1>2
<1>5. object.spec \in Specs /\ ServerOf[object.spec] \in Servers
      /\ Matching[object.spec] \subseteq Files /\ job.files \subseteq Files
  BY <1>1, ConstantsOK DEF IngestJobs, CInv, TInv, TypeOK
<1>6. RecordedIsThere'
  <2>1. Claims' <=> Claims
    BY <1>1 DEF Claims
  <2>2. ASSUME Claims, NEW g \in Matching[object.spec] \ (failed \cup ahead') PROVE InPlace(g)'
    <3>1. g \in Files /\ g \notin ahead
      BY <1>1, <1>5, <2>2
    <3>2. docs'[ServerOf[object.spec]][g] = docs[ServerOf[object.spec]][g]
      BY <1>1, <1>3, <1>5, <2>2, <3>1
    <3>3. InPlace(g)
      BY <2>2, <3>1 DEF RecordInv, RecordedIsThere
    <3>4. QED
      BY <1>1, <3>2, <3>3 DEF InPlace
  <2>3. QED
    BY <1>1, <2>1, <2>2 DEF RecordedIsThere
<1>7. ASSUME fresh'
      PROVE  /\ LeftOut(job.head, job.files)'
             /\ \A g \in job'.files \ (job'.todo \cup job'.failed) : At(g, job.head)'
  <2>1. object.spec = job.spec
    BY <1>1, <1>7 DEF CInv, Current
  <2>2. LeftOut(job.head, job.files)'
    BY <1>1, <1>7 DEF RecordInv, LeftOut, Claims
  <2>3. ASSUME NEW g \in job'.files \ (job'.todo \cup job'.failed), g # f PROVE At(g, job.head)'
    <3>1. At(g, job.head) /\ g \in Files
      BY <1>1, <1>5, <1>7, <2>3 DEF RecordInv
    <3>2. docs'[ServerOf[object.spec]][g] = docs[ServerOf[object.spec]][g]
      BY <1>3, <1>5, <2>3, <3>1
    <3>3. QED
      BY <1>1, <3>1, <3>2 DEF At
  <2>4. ASSUME f \notin job'.failed PROVE At(f, job.head)'
    BY <1>1, <1>4, <2>1, <2>4 DEF At
  <2>5. QED
    BY <2>2, <2>3, <2>4
<1>8. QED
  BY <1>1, <1>6, <1>7 DEF RecordInv

LEMMA RecordClone ==
  ASSUME CInv, RecordInv, CloneIncremental \/ CloneFull
  PROVE  RecordInv'
<1> USE DEF queue, history
<1>1. /\ job.step = "clone" /\ job' \in IngestJobs
      /\ job'.head = headCommit /\ job'.todo = job'.files
      /\ \/ /\ status.commit \in Commits /\ ~job.specChanged
            /\ \A f \in Matching[job.spec] \ job'.files :
                 TreeOf[status.commit][f] = TreeOf[headCommit][f]
         \/ \A f \in Matching[job.spec] \ job'.files : TreeOf[headCommit][f] = Absent
      /\ UNCHANGED <<object, status, fresh, docs, failed, ahead>>
  BY CloneStep DEF CInv, TInv
<1>2. RecordedIsThere'
  BY <1>1 DEF RecordInv, RecordedIsThere, Claims, InPlace
<1>3. ASSUME fresh PROVE LeftOut(headCommit, job'.files)
  <2>1. object.spec = job.spec /\ object.gen = job.gen /\ ~object.deleting
    BY <1>1, <1>3 DEF CInv, Current
  <2>2. object.there
    BY <1>1, JobFields DEF CInv, TInv, TypeOK
  <2>3. status.commit \in Commits /\ ~job.specChanged => Claims
    BY <1>1, <2>1, <2>2, ConstantsOK DEF CInv, Current, Claims
  <2>4. QED
    BY <1>1, <2>1, <2>3 DEF LeftOut
<1>4. ASSUME fresh' PROVE LeftOut(job.head, job.files)'
  BY <1>1, <1>3, <1>4 DEF LeftOut, Claims
<1>5. job'.step = "ingest" /\ job'.files \ (job'.todo \cup job'.failed) = {}
  BY <1>1 DEF IngestJobs
<1>6. QED
  BY <1>2, <1>4, <1>5 DEF RecordInv

LEMMA RecordEnd ==
  ASSUME CInv, RecordInv, SyncFails \/ EndSync
  PROVE  RecordInv'
<1> USE DEF queue, history
<1>1. UNCHANGED <<object, status, fresh, docs, failed, ahead>> /\ job'.step = "status"
  BY SyncFailsStep, EndSyncStep DEF CInv, TInv, StatusJobs
<1>2. RecordedIsThere'
  BY <1>1 DEF RecordInv, RecordedIsThere, Claims, InPlace
<1>3. CASE SyncFails
  <2>1. /\ job.step = "clone" /\ job'.files = {}
        /\ job'.status.commit = status.commit /\ job'.status.observed = status.observed
    BY <1>3, SyncFailsStep DEF CInv, TInv
  <2>2. ASSUME fresh', job'.status.observed = object'.gen, job'.status.commit # NoCommit
        PROVE  Claims'
    BY <1>1, <2>1, <2>2, JobFields DEF CInv, Current, TInv, TypeOK, Claims
  <2>3. QED
    BY <1>1, <1>2, <2>1, <2>2 DEF RecordInv, LeftOut
<1>4. CASE EndSync
  <2>1. /\ job.step = "ingest" /\ job.todo = {}
        /\ job'.status.commit = job.head
        /\ job'.files = job.files /\ job'.failed = job.failed
    BY <1>4, EndSyncStep DEF CInv, TInv
  <2>2. ASSUME fresh
        PROVE  /\ LeftOut(job.head, job.files)
               /\ \A f \in job.files \ job.failed : At(f, job.head)
    BY <2>1, <2>2 DEF RecordInv
  <2>3. ASSUME fresh'
        PROVE  /\ LeftOut(job.status.commit, job.files)'
               /\ \A f \in job'.files \ job'.failed : At(f, job.status.commit)'
    BY <1>1, <2>1, <2>2, <2>3 DEF LeftOut, At, Claims
  <2>4. QED
    BY <1>1, <1>2, <2>3 DEF RecordInv
<1>5. QED
  BY <1>3, <1>4

\* The record of a sync is true of every file it does not except.
LEMMA RecordWrite ==
  ASSUME CInv, RecordInv, WriteStatus \/ WriteStatusFails
  PROVE  RecordInv'
<1> USE DEF queue, history
<1>1. job.step = "status" /\ job' = Idle /\ job'.step = "idle"
      /\ UNCHANGED <<object, docs, fresh>>
  BY DEF WriteStatus, WriteStatusFails, Idle
<1>2. CASE fresh /\ Record
  <2>1. /\ status' = job.status /\ failed' = (failed \ job.files) \cup job.failed
        /\ ahead' = ahead \ job.files
    BY <1>2 DEF Record
  <2>2. ASSUME Claims', NEW f \in Matching[object.spec] \ (failed' \cup ahead')
        PROVE  InPlace(f)'
    <3>1. job.status.observed = object.gen /\ job.status.commit # NoCommit
      BY <1>1, <2>1, <2>2 DEF Claims
    <3>2. /\ LeftOut(job.status.commit, job.files)
          /\ \A g \in job.files \ job.failed : At(g, job.status.commit)
      BY <1>1, <1>2, <3>1 DEF RecordInv
    <3>3. CASE f \in job.files
      <4>1. At(f, job.status.commit)
        BY <2>1, <2>2, <3>2, <3>3
      <4>2. QED
        BY <1>1, <2>1, <4>1 DEF At, InPlace
    <3>4. CASE f \notin job.files
      <4>1. \/ TreeOf[job.status.commit][f] = Absent
            \/ Claims /\ TreeOf[status.commit][f] = TreeOf[job.status.commit][f]
        BY <2>2, <3>2, <3>4 DEF LeftOut
      <4>2. Claims => InPlace(f)
        BY <2>1, <2>2, <3>4 DEF RecordInv, RecordedIsThere
      <4>3. QED
        BY <1>1, <2>1, <4>1, <4>2 DEF InPlace
    <3>5. QED
      BY <3>3, <3>4
  <2>3. RecordedIsThere'
    BY <1>1, <2>2 DEF RecordedIsThere
  <2>4. QED
    BY <1>1, <2>3 DEF RecordInv
<1>3. CASE UNCHANGED <<status, failed, ahead>>
  BY <1>1, <1>3, StepsBesides
<1>4. QED
  BY <1>2, <1>3 DEF WriteStatus, WriteStatusFails

LEMMA RecordDeletion ==
  ASSUME CInv, RecordInv, CleanupOk \/ CleanupSkipped \/ RemoveFinalizer \/ RemoveFinalizerFails
  PROVE  RecordInv'
<1> USE DEF queue, history
<1>0. /\ object \in Objects
      /\ job.step \in {"cleanup", "release"} =>
           /\ job \in [step : {"cleanup", "release"}, spec : Specs]
           /\ object.deleting
  BY JobFields DEF CInv, Current, TInv, TypeOK, Objects
<1>1. CASE CleanupOk \/ CleanupSkipped
  <2>1. job'.step = "release" /\ UNCHANGED object /\ object.deleting
    BY <1>0, <1>1 DEF CleanupOk, CleanupSkipped, ToRelease
  <2>2. ~Claims'
    BY <2>1 DEF Claims
  <2>3. QED
    BY <2>1, <2>2 DEF RecordInv, RecordedIsThere
<1>2. CASE RemoveFinalizer
  <2>1. job' = Idle /\ ~object'.there
    BY <1>0, <1>2 DEF RemoveFinalizer, Objects
  <2>2. job'.step = "idle" /\ ~Claims'
    BY <2>1 DEF Idle, Claims
  <2>3. QED
    BY <2>2 DEF RecordInv, RecordedIsThere
<1>3. CASE RemoveFinalizerFails
  <2>1. job' = Idle /\ UNCHANGED <<object, status, docs, failed, ahead>>
    BY <1>3 DEF RemoveFinalizerFails
  <2>2. QED
    BY <2>1, StepsBesides DEF Idle
<1>4. QED
  BY <1>1, <1>2, <1>3

LEMMA RecordReconcile ==
  ASSUME CInv, RecordInv, Reconcile
  PROVE  RecordInv'
<1> USE DEF queue, history
<1>1. CASE ReconcileGone
  BY <1>1, StepsBesides DEF ReconcileGone
<1>2. CASE AddFinalizer
  <2>1. /\ UNCHANGED <<status, fresh, job, docs, failed, ahead>>
        /\ object' = [object EXCEPT !.finalizer = TRUE] /\ job.step = "idle"
    BY <1>2 DEF AddFinalizer, Idle
  <2>2. /\ object'.there = object.there /\ object'.deleting = object.deleting
        /\ object'.spec = object.spec /\ object'.gen = object.gen
    BY <2>1 DEF CInv, TInv, TypeOK
  <2>3. RecordedIsThere'
    BY <2>1, <2>2 DEF RecordInv, RecordedIsThere, Claims, InPlace
  <2>4. QED
    BY <2>1, <2>3 DEF RecordInv
<1>3. CASE BeginCleanup \/ BeginSync
  <2>1. /\ UNCHANGED <<object, status, docs, failed, ahead>>
        /\ job'.step \in {"cleanup", "clone"}
    BY <1>3 DEF BeginCleanup, BeginSync
  <2>2. QED
    BY <2>1, StepsBesides
<1>4. QED
  BY <1>1, <1>2, <1>3, RecordClone, RecordIngest, RecordEnd, RecordWrite, RecordDeletion
     DEF Reconcile

\* RecordedFilesAreThere: whatever commits are pushed or forced away and whatever is
\* edited, lost, in conflict or cut short, what an incremental sync may skip is at the
\* server: the files of the recorded commit, but for those that failed when last taken
\* up and those a sync that is not recorded has sent since.
THEOREM RecordedFilesAreThere == Safety => []RecordedIsThere
<1>1. CInv /\ RecordInv /\ [Next]_vars => RecordInv'
  <2> SUFFICES ASSUME CInv, RecordInv, [Next]_vars PROVE RecordInv'
    OBVIOUS
  <2>1. CASE UNCHANGED vars
    BY <2>1, StepsBesides DEF vars, history
  <2>2. QED
    BY <2>1, RecordEnvironment, RecordReconcile DEF Next
<1>2. RecordInv => RecordedIsThere
  BY DEF RecordInv
<1>3. QED
  BY <1>1, <1>2, RecordInit, CurrentAlways, PTL DEF Safety
=============================================================================
