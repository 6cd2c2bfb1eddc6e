--------------------------- MODULE DebounceBuffer ---------------------------
(***************************************************************************)
(* One resource-sync watcher, from startWatcher to the return of           *)
(* DebounceBuffer.Run: the informer handlers that put changes on the       *)
(* bounded change queue, the debounce loop that batches them (last state   *)
(* wins), sendWithRetry that posts a batch to MCP, and stopWatcher, which  *)
(* runs in the reconciler's goroutine and interleaves with all of them.    *)
(*                                                                         *)
(* A change carries, beside the fields of ResourceChange, the number ver   *)
(* of the event of its resource that it was made from.  ver is not in the  *)
(* code: properties use it to tell an older change from a newer one.       *)
(***************************************************************************)
EXTENDS Integers, Sequences

CONSTANTS
  Resources,   \* resource identifiers, never empty strings (buildResourceID)
  Informers,   \* the informers of the factory, one per resource type
  InformerOf,  \* the informer that watches a resource
  BufferSize,  \* capacity of the change queue (changeQueueBufferSize)
  MaxRetries,  \* retries of one MCP request after its first attempt
  MaxVersion   \* bound on the number of events of one resource

ASSUME ConstantsOK ==
  /\ InformerOf \in [Resources -> Informers]
  /\ BufferSize \in Nat
  /\ MaxRetries \in Nat
  /\ MaxVersion \in Nat

VARIABLES
  cluster,            \* what the informers have shown: live?, number of events
  handler,            \* per informer, the changes its handler is about to send
  changeQueue,        \* the buffered channel
  queueClosed,        \* the channel has been closed
  changeQueueClosed,  \* the flag handlers look at
  cancelled,          \* the watcher's context is cancelled
  changes,            \* DebounceBuffer.changes: pending change per resource ID
  batch,              \* the changes of the flush under way (changesToRequeue)
  run,                \* where the debounce goroutine is
  finalFlush,         \* the flush under way has the fresh context
  attempt,            \* attempt of sendWithRetry
  lastError,          \* TRUE iff DebounceBuffer.lastError is not empty
  mcp,                \* the last change of every resource MCP applied
  accepted,           \* history: the newest change the queue took per resource
  panicked            \* a send on the closed channel ended the process

producer == <<cluster, handler>>
stop     == <<changeQueueClosed, cancelled, queueClosed>>
flushing == <<batch, run, finalFlush, attempt>>
vars == <<cluster, handler, changeQueue, stop, changes, flushing, lastError, mcp,
          accepted, panicked>>

Actions == {"UPSERT", "DELETE"}
Change  == [ID : Resources, Action : Actions, ver : 1..MaxVersion]

\* The place holder before the first change of r.
NoChange(r) == [ID |-> r, Action |-> "NONE", ver |-> 0]
NoChanges   == {NoChange(r) : r \in Resources}

\* Go maps from resource IDs to changes.
ChangeMap == UNION {[S -> Change] : S \in SUBSET Resources}
Empty     == [r \in {} |-> r]

\* Union of two maps, the entries of m winning.
Merge(m, n) == [r \in DOMAIN m \cup DOMAIN n |-> IF r \in DOMAIN m THEN m[r] ELSE n[r]]

TypeOK ==
  /\ cluster \in [Resources -> [live : BOOLEAN, ver : 0..MaxVersion]]
  /\ handler \in [Informers -> {<<>>} \cup {<<c>> : c \in Change}]
  /\ changeQueue \in Seq(Change)
  /\ Len(changeQueue) <= BufferSize
  /\ queueClosed \in BOOLEAN /\ changeQueueClosed \in BOOLEAN /\ cancelled \in BOOLEAN
  /\ finalFlush \in BOOLEAN /\ lastError \in BOOLEAN /\ panicked \in BOOLEAN
  /\ changes \in ChangeMap
  /\ batch \in ChangeMap
  /\ run \in {"select", "send", "backoff", "done"}
  /\ attempt \in 0..MaxRetries
  /\ run = "backoff" => attempt < MaxRetries
  /\ mcp \in [Resources -> Change \cup NoChanges]
  /\ accepted \in [Resources -> Change \cup NoChanges]

Init ==
  /\ cluster = [r \in Resources |-> [live |-> FALSE, ver |-> 0]]
  /\ handler = [k \in Informers |-> <<>>]
  /\ changeQueue = <<>>
  /\ queueClosed = FALSE
  /\ changeQueueClosed = FALSE
  /\ cancelled = FALSE
  /\ changes = Empty
  /\ batch = Empty
  /\ run = "select"
  /\ finalFlush = FALSE
  /\ attempt = 0
  /\ lastError = FALSE
  /\ mcp = [r \in Resources |-> NoChange(r)]
  /\ accepted = [r \in Resources |-> NoChange(r)]
  /\ panicked = FALSE

-----------------------------------------------------------------------------
(* The informer handlers.  One informer's notifications are handled one at  *)
(* a time; different informers run concurrently.                            *)

\* A handler builds its change, then trySendChange reads the closed flag under
\* the read lock and gives the lock back: the send is a step of its own.
Notify(r, action) ==
  LET k == InformerOf[r]
      c == [ID |-> r, Action |-> action, ver |-> cluster[r].ver + 1]
  IN /\ ~panicked /\ handler[k] = <<>>
     /\ cluster[r].ver < MaxVersion
     /\ cluster' = [cluster EXCEPT ![r] = [live |-> action = "UPSERT", ver |-> @.ver + 1]]
     /\ handler' = [handler EXCEPT ![k] = IF changeQueueClosed THEN <<>> ELSE <<c>>]
     /\ UNCHANGED <<changeQueue, stop, changes, flushing, lastError, mcp, accepted,
                    panicked>>

OnAdd(r)    == ~cluster[r].live /\ Notify(r, "UPSERT")
OnUpdate(r) == cluster[r].live /\ Notify(r, "UPSERT")
OnDelete(r) == cluster[r].live /\ Notify(r, "DELETE")

\* A bug: the handler offers its change again after the queue took it.
SendQueuedTwice(k) ==
  /\ ~panicked
  /\ handler[k] # <<>>
  /\ ~queueClosed
  /\ Len(changeQueue) < BufferSize
  /\ changeQueue' = Append(changeQueue, handler[k][1])
  /\ accepted' = [accepted EXCEPT ![handler[k][1].ID] = handler[k][1]]
  /\ UNCHANGED <<cluster, handler, stop, changes, flushing, lastError, mcp, panicked>>

\* The handler's send finds the queue open with room.
SendQueued(k) ==
  /\ ~panicked
  /\ handler[k] # <<>>
  /\ ~queueClosed
  /\ Len(changeQueue) < BufferSize
  /\ changeQueue' = Append(changeQueue, handler[k][1])
  /\ accepted' = [accepted EXCEPT ![handler[k][1].ID] = handler[k][1]]
  /\ handler' = [handler EXCEPT ![k] = <<>>]
  /\ UNCHANGED <<cluster, stop, changes, flushing, lastError, mcp, panicked>>

\* The queue is full: the select takes its default branch, the change is dropped.
SendDropped(k) ==
  /\ ~panicked
  /\ handler[k] # <<>>
  /\ ~queueClosed
  /\ Len(changeQueue) = BufferSize
  /\ handler' = [handler EXCEPT ![k] = <<>>]
  /\ UNCHANGED <<cluster, changeQueue, stop, changes, flushing, lastError, mcp,
                 accepted, panicked>>

\* The channel was closed after the flag was read: Go panics, full or not.
SendPanics(k) ==
  /\ ~panicked
  /\ handler[k] # <<>>
  /\ queueClosed
  /\ panicked' = TRUE
  /\ UNCHANGED <<producer, changeQueue, stop, changes, flushing, lastError, mcp,
                 accepted>>
-----------------------------------------------------------------------------
(* DebounceBuffer.Run: the select loop.                                     *)

\* A bug: an entry that is pending takes the newer state but keeps its action.
RecordedKeepsAction(c) ==
  LET d == IF c.ID \in DOMAIN changes THEN [c EXCEPT !.Action = changes[c.ID].Action]
           ELSE c
  IN Merge([r \in {c.ID} |-> d], changes)

\* Last state wins.
Recorded(c) == Merge([r \in {c.ID} |-> c], changes)

RecvChange ==
  /\ ~panicked
  /\ run = "select"
  /\ changeQueue # <<>>
  /\ changes' = Recorded(Head(changeQueue))
  /\ changeQueue' = Tail(changeQueue)
  /\ UNCHANGED <<producer, stop, flushing, lastError, mcp, accepted, panicked>>

\* flush: snapshot the pending changes and clear the buffer.
BeginFlush(isFinal) ==
  /\ ~panicked
  /\ changes # Empty
  /\ batch' = changes
  /\ changes' = Empty
  /\ run' = "send"
  /\ finalFlush' = isFinal
  /\ attempt' = 0
  /\ UNCHANGED <<producer, changeQueue, stop, lastError, mcp, accepted, panicked>>

\* A bug: a failed flush stops the ticker's flushes until the error is cleared.
TickUnlessFailed ==
  /\ run = "select" /\ ~cancelled
  /\ ~lastError
  /\ BeginFlush(FALSE)

\* A bug: a tick after the stop flushes with a context of its own.
TickAlsoAfterCancel == run = "select" /\ BeginFlush(FALSE)

\* The ticker of the debounce window.
Tick ==
  /\ run = "select" /\ ~cancelled
  /\ BeginFlush(FALSE)

\* The select takes the ticker's case though the context is done: the request is not
\* made, and the changes are put back into the buffer.
TickAfterCancel ==
  /\ ~panicked
  /\ run = "select" /\ cancelled
  /\ changes # Empty
  /\ lastError' = TRUE
  /\ UNCHANGED <<producer, changeQueue, stop, changes, flushing, mcp, accepted, panicked>>

\* The two branches that leave the loop: the context is cancelled (whatever the
\* queue still holds), or the queue is closed and drained.
LeavesLoop ==
  /\ run = "select"
  /\ cancelled \/ (queueClosed /\ changeQueue = <<>>)

FinalFlush == LeavesLoop /\ BeginFlush(TRUE)

\* A bug: the branch for a stop does not return.
ReturnMissing == LeavesLoop /\ changes = Empty /\ UNCHANGED vars

\* The final flush finds nothing to send.
Return ==
  /\ ~panicked
  /\ LeavesLoop
  /\ changes = Empty
  /\ run' = "done"
  /\ UNCHANGED <<producer, changeQueue, stop, changes, batch, finalFlush, attempt,
                 lastError, mcp, accepted, panicked>>
-----------------------------------------------------------------------------
(* sendWithRetry, and the end of flush.                                     *)

\* MCP applies the changes of S (upserts and deletes alike).
Applies(S) == mcp' = [r \in Resources |-> IF r \in S THEN batch[r] ELSE mcp[r]]

\* The context of the flush is the watcher's own, done once that is cancelled,
\* or the fresh one of a final flush, whose 30 seconds may end at any time.
FlushCtxMustEnd == ~finalFlush /\ cancelled
FlushCtxMayEnd  == finalFlush \/ cancelled

EndFlush ==
  /\ batch' = Empty
  /\ run' = IF finalFlush THEN "done" ELSE "select"
  /\ finalFlush' = FALSE
  /\ attempt' = 0

\* A bug: a failed batch is not put back.
FailFlushDropped ==
  /\ lastError' = TRUE
  /\ changes' = changes
  /\ EndFlush

\* requeueChangesFromMap: what is in the buffer already wins.
FailFlush ==
  /\ lastError' = TRUE
  /\ changes' = Merge(changes, batch)
  /\ EndFlush

\* A bug: a success leaves the last error on record.
SendOkKeepsError ==
  /\ ~panicked
  /\ run = "send"
  /\ Applies(DOMAIN batch)
  /\ lastError' = lastError
  /\ EndFlush
  /\ UNCHANGED <<producer, changeQueue, stop, changes, accepted, panicked>>

\* One attempt succeeds.
SendOk ==
  /\ ~panicked
  /\ run = "send"
  /\ Applies(DOMAIN batch)
  /\ lastError' = FALSE
  /\ EndFlush
  /\ UNCHANGED <<producer, changeQueue, stop, changes, accepted, panicked>>

\* MCP answers with a partial success: sendWithRetry returns the response
\* together with an error, and flush looks at the error first.
SendPartial(S) ==
  /\ ~panicked
  /\ run = "send"
  /\ S \subseteq DOMAIN batch
  /\ Applies(S)
  /\ FailFlush
  /\ UNCHANGED <<producer, changeQueue, stop, accepted, panicked>>

\* A bug: one attempt too many.
SendRetriesTooOften(S) ==
  /\ ~panicked
  /\ run = "send"
  /\ S \subseteq DOMAIN batch
  /\ Applies(S)
  /\ attempt <= MaxRetries /\ ~FlushCtxMustEnd
  /\ run' = "backoff"
  /\ UNCHANGED <<producer, changeQueue, stop, changes, batch, finalFlush, attempt,
                 lastError, accepted, panicked>>

\* The attempt fails, or its answer is lost: MCP may have applied any part.
SendRetries(S) ==
  /\ ~panicked
  /\ run = "send"
  /\ S \subseteq DOMAIN batch
  /\ Applies(S)
  /\ attempt < MaxRetries /\ ~FlushCtxMustEnd
  /\ run' = "backoff"
  /\ UNCHANGED <<producer, changeQueue, stop, changes, batch, finalFlush, attempt,
                 lastError, accepted, panicked>>

SendGivesUp(S) ==
  /\ ~panicked
  /\ run = "send"
  /\ S \subseteq DOMAIN batch
  /\ Applies(S)
  /\ attempt = MaxRetries \/ FlushCtxMayEnd
  /\ FailFlush
  /\ UNCHANGED <<producer, changeQueue, stop, accepted, panicked>>

\* The next attempt starts.  With a context that is done it makes no request, and
\* the flush ends as if the wait had been interrupted.
BackoffOver ==
  /\ ~panicked
  /\ run = "backoff" /\ ~FlushCtxMustEnd
  /\ run' = "send"
  /\ attempt' = attempt + 1
  /\ UNCHANGED <<producer, changeQueue, stop, changes, batch, finalFlush, lastError,
                 mcp, accepted, panicked>>

BackoffInterrupted ==
  /\ ~panicked
  /\ run = "backoff"
  /\ FlushCtxMayEnd
  /\ FailFlush
  /\ UNCHANGED <<producer, changeQueue, stop, mcp, accepted, panicked>>
-----------------------------------------------------------------------------
(* stopWatcher, one statement at a time.                                    *)

FlagQueueClosed ==
  /\ ~panicked
  /\ ~changeQueueClosed
  /\ changeQueueClosed' = TRUE
  /\ UNCHANGED <<producer, changeQueue, cancelled, queueClosed, changes, flushing,
                 lastError, mcp, accepted, panicked>>

CancelWatcher ==
  /\ ~panicked
  /\ changeQueueClosed /\ ~cancelled
  /\ cancelled' = TRUE
  /\ UNCHANGED <<producer, changeQueue, changeQueueClosed, queueClosed, changes,
                 flushing, lastError, mcp, accepted, panicked>>

CloseQueue ==
  /\ ~panicked
  /\ cancelled /\ ~queueClosed
  /\ queueClosed' = TRUE
  /\ UNCHANGED <<producer, changeQueue, changeQueueClosed, cancelled, changes,
                 flushing, lastError, mcp, accepted, panicked>>
-----------------------------------------------------------------------------
Handlers ==
  \/ \E r \in Resources : OnAdd(r) \/ OnUpdate(r) \/ OnDelete(r)
  \/ \E k \in Informers : SendQueued(k) \/ SendDropped(k) \/ SendPanics(k)

Debounce ==
  \/ RecvChange \/ Tick \/ TickAfterCancel \/ FinalFlush \/ Return
  \/ SendOk \/ BackoffOver \/ BackoffInterrupted
  \/ \E S \in SUBSET DOMAIN batch : SendPartial(S) \/ SendRetries(S) \/ SendGivesUp(S)

StopWatcher == FlagQueueClosed \/ CancelWatcher \/ CloseQueue

Next == Handlers \/ Debounce \/ StopWatcher

Safety == Init /\ [][Next]_vars

(* The goroutines keep running.  Go's select picks among the ready cases at *)
(* random, so a case that is ready again and again is picked: strong        *)
(* fairness.  Every attempt ends (the HTTP client has a timeout), how is    *)
(* left open.  Nothing says that stopWatcher is ever called; once called it *)
(* runs to its end.                                                         *)
HandlerSends(k) == SendQueued(k) \/ SendDropped(k) \/ SendPanics(k)
FlushGoesOn     == run \in {"send", "backoff"} /\ Debounce

Fairness ==
  /\ \A k \in Informers : WF_vars(HandlerSends(k))
  /\ SF_vars(RecvChange)
  /\ SF_vars(Tick)
  /\ SF_vars(FinalFlush \/ Return)
  /\ WF_vars(FlushGoesOn)
  /\ WF_vars(CancelWatcher \/ CloseQueue)

Spec == Safety /\ Fairness

\* MCP is not down for ever: a client that keeps posting is answered in the end.
MCPAnswers == SF_vars(SendOk)
-----------------------------------------------------------------------------
(* Correctness.                                                             *)

InQueue(c) == \E i \in DOMAIN changeQueue : changeQueue[i] = c
InMap(c, m) == c.ID \in DOMAIN m /\ m[c.ID] = c

\* No accepted change is lost on its way: the newest change that the queue took
\* for a resource is still queued, or pending in the buffer, or in the batch under
\* way, or it is what MCP has.  Requeues, lost answers, partial successes and
\* changes that arrive while a flush retries must all keep it.
Conserved ==
  \A r \in Resources :
    LET c == accepted[r]
    IN InQueue(c) \/ InMap(c, changes) \/ InMap(c, batch) \/ mcp[r] = c

\* The order of the pipeline: of one resource, what MCP has is never newer than
\* what is batched or pending, which is older than what is queued; the queue is in
\* order, and older than the change its handler holds.  So a flush that retries an
\* old batch can neither overtake nor overwrite a newer change.
Between(c, oldest, newest) ==
  /\ c.ID = newest.ID
  /\ oldest.ver <= c.ver /\ c.ver <= newest.ver
  /\ c.ver = newest.ver => c = newest

OrderedQueue ==
  \A i \in DOMAIN changeQueue :
    LET c == changeQueue[i]
    IN /\ Between(c, mcp[c.ID], accepted[c.ID])
       /\ mcp[c.ID].ver < c.ver
       /\ c.ID \in DOMAIN changes => changes[c.ID].ver < c.ver
       /\ c.ID \in DOMAIN batch => batch[c.ID].ver < c.ver
       /\ \A j \in DOMAIN changeQueue :
            i < j /\ changeQueue[j].ID = c.ID => c.ver < changeQueue[j].ver

OrderedHandlers ==
  \A k \in Informers : handler[k] # <<>> =>
    LET c == handler[k][1]
    IN InformerOf[c.ID] = k /\ c.ver = cluster[c.ID].ver /\ accepted[c.ID].ver < c.ver

PipelineOrdered ==
  /\ \A r \in Resources : Between(mcp[r], mcp[r], accepted[r]) /\ accepted[r].ID = r
  /\ \A r \in Resources : accepted[r].ver <= cluster[r].ver
  /\ \A r \in DOMAIN changes : Between(changes[r], mcp[r], accepted[r])
  /\ \A r \in DOMAIN batch : Between(batch[r], mcp[r], accepted[r])
  /\ OrderedQueue
  /\ OrderedHandlers

\* The loop, record and flush are one goroutine: while a flush is under way nothing
\* is recorded, and outside a flush no batch exists.  The status page tells the
\* truth about retries: a failure stays on record exactly while some change still
\* waits to be sent again, also after the loop has returned.
FlushExclusive ==
  /\ run \in {"select", "done"} => batch = Empty
  /\ run \in {"send", "backoff"} => batch # Empty /\ changes = Empty
  /\ run = "done" => (lastError <=> changes # Empty)

ErrorMeansUnsent ==
  /\ lastError => changes # Empty \/ batch # Empty
  /\ FlushExclusive

\* The strengthening that makes Conserved and PipelineOrdered inductive.
IInv == TypeOK /\ Conserved /\ PipelineOrdered /\ ErrorMeansUnsent

\* What a stop can lose: when the final flush went through, an accepted change that
\* MCP lacks was left in the channel by the branch for the cancelled context.  (It
\* follows from the above.)
LossOnlyInQueue ==
  run = "done" /\ ~lastError =>
    \A r \in Resources : mcp[r] = accepted[r] \/ InQueue(accepted[r])

\* The watcher implements its promise: the order and origin of what MCP gets for
\* any MCP, delivery for one that answers in the end.  A batch that fails for hours
\* and a full queue that drops newer changes do not make it forget a change.
Promise == INSTANCE ChangeDelivery WITH
             Changes   <- Change,
             delivered <- mcp,
             closed    <- changeQueueClosed
ImplementsPromiseSafety == Promise!Safety
DeliversIfMCPAnswers    ==
  MCPAnswers => \A r \in Resources, v \in 1..MaxVersion : Promise!Delivery(r, v)

\* What the reconciler takes the watcher for implements it: the debounce loop alone
\* with MCP.  An entry of the loop is a change on its way, wherever it is.  The final
\* flush takes nothing from the channel: what is there waits no more.
Entry(c)    == [ID |-> c.ID, ver |-> c.ver, state |-> c]
EntriesOf(m) == {Entry(m[r]) : r \in DOMAIN m}
Ending      == run = "done" \/ finalFlush
Waiting     == IF Ending THEN {}
               ELSE {Entry(changeQueue[i]) : i \in DOMAIN changeQueue} \cup EntriesOf(changes)
LoopRun     == CASE run = "done" -> "off"
                 [] run = "select" -> "select"
                 [] OTHER -> IF finalFlush THEN "final" ELSE "flush"
Loop == INSTANCE DebounceLoop WITH
          States  <- Change \cup NoChanges,
          waiting <- Waiting,
          batch   <- EntriesOf(batch),
          run     <- LoopRun
ImplementsLoop == Loop!Alone

\* A stop that was begun ends the debounce goroutine, also while every request to
\* MCP fails: no flush retries for ever.
StopEndsLoop == changeQueueClosed ~> (run = "done" \/ panicked)

\* The comment of stopWatcher: the flag, set first, prevents handlers from trying
\* to send to the closed channel.
NoSendOnClosedChannel == ~panicked
=============================================================================
