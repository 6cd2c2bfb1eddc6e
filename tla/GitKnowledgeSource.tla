------------------------- MODULE GitKnowledgeSource -------------------------
(***************************************************************************)
(* The GitKnowledgeSource reconciler for one source: full and incremental  *)
(* syncs of the files of a branch to documents at MCP, the status that     *)
(* remembers the last synced commit, the schedule, and the cleanup before  *)
(* the finalizer is removed.  Beside it the branch moves, the object is    *)
(* edited, requests fail or fail after they were carried out, and the      *)
(* process exits at any step.                                              *)
(***************************************************************************)
EXTENDS Naturals, Sequences, Functions

CONSTANTS
  Files, Contents, Absent,
  Commits, NoCommit,
  Root,             \* the first commit of the branch
  TreeOf,           \* the files of a commit
  Depth,            \* IncrementalCloneDepth
  Servers,          \* MCP servers
  Specs,
  ServerOf, Matching, \* mcpServer.url, and the files paths and exclude let through
  Oversize,         \* contents beyond maxFileSizeBytes
  Timed,            \* specs with a valid schedule
  Retain,           \* specs with deletionPolicy Retain
  MaxEvents         \* bound on pushes, edits, deletions, creations and exits

ASSUME ConstantsOK ==
  /\ Absent \notin Contents /\ NoCommit \notin Commits /\ Root \in Commits
  /\ TreeOf \in [Commits -> [Files -> Contents \cup {Absent}]]
  /\ ServerOf \in [Specs -> Servers] /\ Matching \in [Specs -> SUBSET Files]
  /\ Oversize \in [Specs -> SUBSET Contents]
  /\ Timed \subseteq Specs /\ Retain \subseteq Specs
  /\ Depth \in Nat \ {0} /\ MaxEvents \in Nat

VARIABLES
  branch,           \* the commits of the branch, HEAD last
  object,           \* the resource without its status; when it is gone, what it was
  status,
  fresh,            \* nobody else wrote the object since the reconcile read it
  queued, delayed,  \* a request is in the queue; one waits for its RequeueAfter
  job,              \* the reconcile under way
  docs,             \* the documents of this source at each server
  events,
  failed,           \* files that failed in the last recorded sync that took them up
  ahead,            \* files sent by a sync that is not recorded
  missed,           \* the last sync took its schedule's next time for past
  kept              \* the last cleanup removed nothing or failed

queue   == <<queued, delayed>>
history == <<failed, ahead, missed, kept>>
vars == <<branch, object, status, fresh, queue, job, docs, events, history>>

Idle      == [step |-> "idle"]
NewStatus == [commit |-> NoCommit, observed |-> 0, synced |-> FALSE, next |-> FALSE]
NoDocs    == [f \in Files |-> Absent]
headCommit == branch[Len(branch)]

\* What a clone holds: HEAD and the commits before it, up to the depth.
History == {branch[i] : i \in {i \in DOMAIN branch : i + Depth > Len(branch)}}

Statuses == [commit : Commits \cup {NoCommit}, observed : Nat,
             synced : BOOLEAN, next : BOOLEAN]
Jobs ==
  [step : {"idle"}]
    \cup [step : {"cleanup", "release"}, spec : Specs]
    \cup [step : {"clone"}, spec : Specs, gen : Nat, specChanged : BOOLEAN]
    \cup [step : {"ingest"}, spec : Specs, gen : Nat, head : Commits,
          files : SUBSET Files, todo : SUBSET Files, failed : SUBSET Files]
    \cup [step : {"status"}, status : Statuses, again : BOOLEAN,
          files : SUBSET Files, failed : SUBSET Files]

TypeOK ==
  /\ branch \in Seq(Commits) /\ branch # <<>>
  /\ object \in [there : BOOLEAN, finalizer : BOOLEAN, deleting : BOOLEAN,
                 spec : Specs, gen : Nat]
  /\ status \in Statuses /\ job \in Jobs
  /\ {fresh, queued, delayed, missed, kept} \subseteq BOOLEAN
  /\ docs \in [Servers -> [Files -> Contents \cup {Absent}]]
  /\ events \in 0..MaxEvents
  /\ failed \subseteq Files /\ ahead \subseteq Files
  /\ job # Idle => object.there /\ object.finalizer

NewObject(s) ==
  [there |-> TRUE, finalizer |-> FALSE, deleting |-> FALSE, spec |-> s, gen |-> 1]

Init ==
  /\ branch = <<Root>>
  /\ \E s \in Specs : object = NewObject(s)
  /\ status = NewStatus /\ fresh = TRUE
  /\ queued = TRUE /\ delayed = FALSE
  /\ job = Idle
  /\ docs = [m \in Servers |-> NoDocs]
  /\ events = 0
  /\ failed = {} /\ ahead = {} /\ missed = FALSE /\ kept = FALSE
-----------------------------------------------------------------------------
(* The environment.                                                         *)

Event == events < MaxEvents /\ events' = events + 1

\* A commit on top of the branch, also one that reverts an earlier one.
Push(c) ==
  /\ Event
  /\ c \notin Range(branch)
  /\ branch' = Append(branch, c)
  /\ UNCHANGED <<object, status, fresh, queue, job, docs, history>>

\* A forced push takes commits off the branch.
Rewind ==
  /\ Event
  /\ \E n \in 1..(Len(branch) - 1) : branch' = SubSeq(branch, 1, n)
  /\ UNCHANGED <<object, status, fresh, queue, job, docs, history>>

\* An edit of the spec is a new generation, which the watch lets through.
Edit(s) ==
  /\ Event
  /\ object.there /\ s # object.spec
  /\ object' = [object EXCEPT !.spec = s, !.gen = @ + 1]
  /\ fresh' = FALSE /\ queued' = TRUE
  /\ UNCHANGED <<branch, status, delayed, job, docs, history>>

\* A deletion marks an object with a finalizer and removes one without.
Delete ==
  /\ Event
  /\ object.there /\ ~object.deleting
  /\ object' = IF object.finalizer THEN [object EXCEPT !.deleting = TRUE, !.gen = @ + 1]
               ELSE [object EXCEPT !.there = FALSE]
  /\ fresh' = FALSE /\ queued' = TRUE
  /\ UNCHANGED <<branch, status, delayed, job, docs, history>>

\* A source of the same name is created again.
Create(s) ==
  /\ Event
  /\ ~object.there
  /\ object' = NewObject(s) /\ status' = NewStatus
  /\ fresh' = FALSE /\ queued' = TRUE
  /\ UNCHANGED <<branch, delayed, job, docs, history>>

\* The process exits and a new one lists the objects.  A graceful stop is no better:
\* it cancels the context of every further request, the status update among them.
Exit ==
  /\ Event
  /\ job # Idle \/ ~queued   \* otherwise nothing changes
  /\ job' = Idle /\ queued' = object.there /\ delayed' = FALSE
  /\ UNCHANGED <<branch, object, status, fresh, docs, history>>

Fire ==
  /\ delayed
  /\ delayed' = FALSE /\ queued' = TRUE
  /\ UNCHANGED <<branch, object, status, fresh, job, docs, events, history>>
-----------------------------------------------------------------------------
(* Reconcile.  A read from an outdated cache is left out: the first write    *)
(* after it conflicts, and the request is queued again.                      *)

ReconcileGone ==
  /\ job = Idle /\ queued /\ ~object.there
  /\ queued' = FALSE
  /\ UNCHANGED <<branch, object, status, fresh, delayed, job, docs, events, history>>

\* The request stays queued (Requeue).
AddFinalizer ==
  /\ job = Idle /\ queued
  /\ object.there /\ ~object.deleting /\ ~object.finalizer
  /\ object' = [object EXCEPT !.finalizer = TRUE]
  /\ UNCHANGED <<branch, status, fresh, queue, job, docs, events, history>>

BeginCleanup ==
  /\ job = Idle /\ queued
  /\ object.there /\ object.deleting
  /\ job' = [step |-> "cleanup", spec |-> object.spec]
  /\ fresh' = TRUE /\ queued' = FALSE
  /\ UNCHANGED <<branch, object, status, delayed, docs, events, history>>

\* A bug: the sync does not wait for the finalizer.
BeginSyncUnguarded ==
  /\ job = Idle /\ queued
  /\ object.there /\ ~object.deleting
  /\ job' = [step |-> "clone", spec |-> object.spec, gen |-> object.gen,
             specChanged |-> object.gen # status.observed]
  /\ fresh' = TRUE /\ queued' = FALSE /\ missed' = FALSE
  /\ UNCHANGED <<branch, object, status, delayed, docs, events, failed, ahead, kept>>

\* The write of the phase Syncing succeeds, so the copy is current.
BeginSync ==
  /\ job = Idle /\ queued
  /\ object.there /\ ~object.deleting /\ object.finalizer
  /\ job' = [step |-> "clone", spec |-> object.spec, gen |-> object.gen,
             specChanged |-> object.gen # status.observed]
  /\ fresh' = TRUE /\ queued' = FALSE /\ missed' = FALSE
  /\ UNCHANGED <<branch, object, status, delayed, docs, events, failed, ahead, kept>>
-----------------------------------------------------------------------------
(* doSync.                                                                  *)

\* The fields that an invalid schedule sets at the start.
Validated(s) == [status EXCEPT !.next = @ /\ s \in Timed]

\* A missing token, a clone that fails, a repository that cannot be read: a retry in
\* one or five minutes.
SyncFails ==
  /\ job.step = "clone"
  /\ job' = [step |-> "status", status |-> [Validated(job.spec) EXCEPT !.synced = FALSE],
             again |-> TRUE, files |-> {}, failed |-> {}]
  /\ UNCHANGED <<branch, object, status, fresh, queue, docs, events, history>>

ChangedFiles(last, head) == {f \in Files : TreeOf[last][f] # TreeOf[head][f]}
AllFiles(head)           == {f \in Files : TreeOf[head][f] # Absent}

FilterFiles(s, files)    == files \cap Matching[s]

StartIngest(files) ==
  LET matching == FilterFiles(job.spec, files)
  IN  job' = [step |-> "ingest", spec |-> job.spec, gen |-> job.gen, head |-> headCommit,
              files |-> matching, todo |-> matching, failed |-> {}]

\* A bug: an edited spec gets an incremental sync as well.
CloneIncrementalAlways ==
  /\ job.step = "clone"
  /\ status.commit # NoCommit /\ status.commit \in History
  /\ StartIngest(ChangedFiles(status.commit, headCommit))
  /\ UNCHANGED <<branch, object, status, fresh, queue, docs, events, history>>

\* The clone holds the last synced commit.
CloneIncremental ==
  /\ job.step = "clone"
  /\ status.commit # NoCommit /\ ~job.specChanged /\ status.commit \in History
  /\ StartIngest(ChangedFiles(status.commit, headCommit))
  /\ UNCHANGED <<branch, object, status, fresh, queue, docs, events, history>>

\* A first sync, an edited spec, or a commit that is not found; a diff that cannot be
\* made also ends here.
CloneFull ==
  /\ job.step = "clone"
  /\ StartIngest(AllFiles(headCommit))
  /\ UNCHANGED <<branch, object, status, fresh, queue, docs, events, history>>

Content(f) == TreeOf[job.head][f]
Done(f)    == job' = [job EXCEPT !.todo = @ \ {f}]
Failed(f)  == job' = [job EXCEPT !.todo = @ \ {f}, !.failed = @ \cup {f}]
Sent(f)    == /\ docs' = [docs EXCEPT ![ServerOf[job.spec]][f] = Content(f)]
              /\ ahead' = ahead \cup {f}

\* A file that HEAD does not have (the diff names removed files too), one that cannot
\* be read, or one whose requests all fail before MCP carries one out.
NotSent(f) ==
  /\ job.step = "ingest" /\ f \in job.todo
  /\ Failed(f)
  /\ UNCHANGED <<branch, object, status, fresh, queue, docs, events, history>>

Skip(f) ==
  /\ job.step = "ingest" /\ f \in job.todo
  /\ Content(f) \in Oversize[job.spec]
  /\ Done(f)
  /\ UNCHANGED <<branch, object, status, fresh, queue, docs, events, history>>

IngestOk(f) ==
  /\ job.step = "ingest" /\ f \in job.todo
  /\ Content(f) \notin Oversize[job.spec] \cup {Absent}
  /\ Sent(f) /\ Done(f)
  /\ UNCHANGED <<branch, object, status, fresh, queue, events, failed, missed, kept>>

\* MCP has the document, but the answers were lost or the sync has timed out.
AnswersLost(f) ==
  /\ job.step = "ingest" /\ f \in job.todo
  /\ Content(f) \notin Oversize[job.spec] \cup {Absent}
  /\ Sent(f) /\ Failed(f)
  /\ UNCHANGED <<branch, object, status, fresh, queue, events, failed, missed, kept>>

\* A bug: the generation is not recorded.
EndSyncUnobserved ==
  /\ job.step = "ingest" /\ job.todo = {}
  /\ missed' = FALSE
  /\ job' = [step |-> "status",
             status |-> [commit |-> job.head, observed |-> status.observed,
                         synced |-> job.failed = {}, next |-> job.spec \in Timed],
             again |-> job.spec \in Timed, files |-> job.files, failed |-> job.failed]
  /\ UNCHANGED <<branch, object, status, fresh, queue, docs, events, failed, ahead, kept>>

\* NextSyncDuration starts from a time a moment ago: a next time that is past by now
\* makes it 0, which is no requeue.  An invalid schedule has none.
NextSyncDuration(s) == IF s \in Timed THEN {"positive", "zero"} ELSE {"zero"}

\* The commit counts as synced whatever failed.
EndSync ==
  /\ job.step = "ingest" /\ job.todo = {}
  /\ \E duration \in NextSyncDuration(job.spec), timedOut \in BOOLEAN :
       /\ missed' = (job.spec \in Timed /\ duration = "zero")
       /\ job' = [step |-> "status",
                  status |-> [commit |-> job.head, observed |-> job.gen,
                              synced |-> job.failed = {} /\ ~timedOut,
                              next |-> job.spec \in Timed],
                  again |-> duration = "positive", files |-> job.files, failed |-> job.failed]
  /\ UNCHANGED <<branch, object, status, fresh, queue, docs, events, failed, ahead, kept>>
-----------------------------------------------------------------------------
(* The status update and its conflicts.                                     *)

Record ==
  /\ status' = job.status
  /\ failed' = (failed \ job.files) \cup job.failed
  /\ ahead' = ahead \ job.files

WriteStatus ==
  /\ job.step = "status" /\ fresh
  /\ Record
  /\ job' = Idle
  /\ delayed' = (delayed \/ job.again)
  /\ UNCHANGED <<branch, object, fresh, queued, docs, events, missed, kept>>

\* A bug: the error of the status update is logged and not returned.
WriteStatusFailsQuietly ==
  /\ job.step = "status"
  /\ \/ fresh /\ Record
     \/ UNCHANGED <<status, failed, ahead>>
  /\ job' = Idle
  /\ UNCHANGED <<branch, object, fresh, queue, docs, events, missed, kept>>

\* A conflict, also with an edit of labels, which the watch drops, or a failure after
\* which the write may have been carried out.  The error makes controller-runtime queue
\* the request again and ignore the result.
WriteStatusFails ==
  /\ job.step = "status"
  /\ \/ fresh /\ Record
     \/ UNCHANGED <<status, failed, ahead>>
  /\ job' = Idle
  /\ queued' = TRUE
  /\ UNCHANGED <<branch, object, fresh, delayed, docs, events, missed, kept>>
-----------------------------------------------------------------------------
(* handleDeletion and the finalizer.                                        *)

Cleaned == docs' = [docs EXCEPT ![ServerOf[job.spec]] = NoDocs]
ToRelease == job' = [job EXCEPT !.step = "release"]

CleanupOk ==
  /\ job.step = "cleanup" /\ job.spec \notin Retain
  /\ Cleaned /\ kept' = FALSE
  /\ ToRelease
  /\ UNCHANGED <<branch, object, status, fresh, queue, events, failed, ahead, missed>>

\* Retained, no token, or MCP failed: the deletion goes on.
CleanupSkipped ==
  /\ job.step = "cleanup"
  /\ \/ UNCHANGED docs
     \/ job.spec \notin Retain /\ Cleaned
  /\ kept' = TRUE
  /\ ToRelease
  /\ UNCHANGED <<branch, object, status, fresh, queue, events, failed, ahead, missed>>

\* A bug: the finalizer is removed by a patch, which does not conflict.
RemoveFinalizerByPatch ==
  /\ job.step = "release"
  /\ object' = [object EXCEPT !.there = FALSE]
  /\ job' = Idle
  /\ UNCHANGED <<branch, status, fresh, queue, docs, events, history>>

RemoveFinalizer ==
  /\ job.step = "release" /\ fresh
  /\ object' = [object EXCEPT !.there = FALSE]
  /\ job' = Idle
  /\ queued' \in {queued, TRUE}   \* TRUE: the answer was lost
  /\ UNCHANGED <<branch, status, fresh, delayed, docs, events, history>>

RemoveFinalizerFails ==
  /\ job.step = "release"
  /\ job' = Idle
  /\ queued' = TRUE
  /\ UNCHANGED <<branch, object, status, fresh, delayed, docs, events, history>>
-----------------------------------------------------------------------------
Environment ==
  \/ \E c \in Commits : Push(c)
  \/ Rewind
  \/ \E s \in Specs : Edit(s) \/ Create(s)
  \/ Delete \/ Exit

Reconcile ==
  \/ ReconcileGone \/ AddFinalizer \/ BeginCleanup \/ BeginSync
  \/ SyncFails \/ CloneIncremental \/ CloneFull
  \/ \E f \in Files : NotSent(f) \/ Skip(f) \/ IngestOk(f) \/ AnswersLost(f)
  \/ EndSync \/ WriteStatus \/ WriteStatusFails
  \/ CleanupOk \/ CleanupSkipped \/ RemoveFinalizer \/ RemoveFinalizerFails

Next == Environment \/ Fire \/ Reconcile

Safety == Init /\ [][Next]_vars

\* The process runs.
Spec == Safety /\ WF_vars(Reconcile) /\ WF_vars(Fire)

\* What the code cannot force: git answers again and again, and from some time on the
\* API server refuses only writes that conflict.
GitAnswers == SF_vars(CloneIncremental \/ CloneFull)
WritesWork == <>[][WriteStatusFails \/ RemoveFinalizerFails => ~fresh]_vars
-----------------------------------------------------------------------------
(* Correctness.                                                             *)

\* The status speaks of the current spec.
Claims == object.there /\ ~object.deleting /\ status.observed = object.gen
            /\ status.commit # NoCommit

\* MCP has the file as the commit of the status has it, if the spec lets it through.
InPlace(f) ==
  LET v == TreeOf[status.commit][f]
  IN  v \notin Oversize[object.spec] \cup {Absent} => docs[ServerOf[object.spec]][f] = v

\* What an incremental sync may skip: every file of the last synced commit is at the
\* server of the spec, through conflicts, lost answers, exits, edits and forced pushes,
\* but for those that failed when last taken up, and those a sync that was not
\* recorded has sent since.
RecordedIsThere ==
  Claims => \A f \in Matching[object.spec] \ (failed \cup ahead) : InPlace(f)

\* When a source is gone, so are its documents at the server of its last spec, unless
\* the cleanup was skipped or failed: nothing is sent after it, and an edit between
\* cleanup and removal of the finalizer makes the reconciler clean up again.
GoneIsClean == ~object.there /\ ~kept /\ object.finalizer => docs[ServerOf[object.spec]] = NoDocs

\* No path through the reconciler forgets a source: between two reconciles a request is
\* queued or scheduled, unless the schedule is invalid, the spec is synced and the status
\* names no next sync, or the next time was past.
NotForgotten ==
  object.there /\ job = Idle /\ ~queued /\ ~delayed =>
    missed \/ (object.spec \notin Timed /\ Claims /\ ~status.next)

\* Once the branch and the object rest, deletions complete, edited specs have been synced
\* in full, and with a valid schedule the status follows HEAD.
Settles ==
  GitAnswers /\ WritesWork /\ []~missed =>
    <>[](object.there => Claims /\ (object.spec \in Timed => status.commit = headCommit))

\* The status condition Synced and the promise that status accurately reflects sync
\* state: a source that is Synced has all files of its commit at MCP, but for those
\* that a sync that was not recorded has sent since.
SyncedIsComplete ==
  Claims /\ status.synced => \A f \in Matching[object.spec] \ ahead : InPlace(f)
=============================================================================
