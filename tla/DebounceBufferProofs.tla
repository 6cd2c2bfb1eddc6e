------------------------ MODULE DebounceBufferProofs ------------------------
(***************************************************************************)
(* Proofs about DebounceBuffer, for every set of resources and informers,  *)
(* every queue capacity, retry limit and number of events.                 *)
(***************************************************************************)
EXTENDS DebounceBuffer, SequenceTheorems, TLAPS

-----------------------------------------------------------------------------
(* Go maps: the partial functions from resource IDs to changes.             *)

LEMMA ChangeMapChar ==
  ASSUME NEW m
  PROVE  m \in ChangeMap <=> /\ m = [r \in DOMAIN m |-> m[r]]
                             /\ DOMAIN m \subseteq Resources
                             /\ \A r \in DOMAIN m : m[r] \in Change
BY DEF ChangeMap

LEMMA EmptyMap == Empty \in ChangeMap /\ DOMAIN Empty = {}
BY ChangeMapChar DEF Empty

\* Merging keeps a map and decides every entry.
LEMMA MergeMaps ==
  ASSUME NEW m \in ChangeMap, NEW n \in ChangeMap
  PROVE  /\ Merge(m, n) \in ChangeMap
         /\ DOMAIN Merge(m, n) = DOMAIN m \cup DOMAIN n
         /\ \A r \in DOMAIN m : Merge(m, n)[r] = m[r]
         /\ \A r \in DOMAIN n \ DOMAIN m : Merge(m, n)[r] = n[r]
BY ChangeMapChar DEF Merge

\* record: the change is stored under its ID, no other entry is touched.
LEMMA RecordInMap ==
  ASSUME changes \in ChangeMap, NEW c \in Change
  PROVE  /\ Recorded(c) \in ChangeMap
         /\ DOMAIN Recorded(c) = DOMAIN changes \cup {c.ID}
         /\ Recorded(c)[c.ID] = c
         /\ \A r \in DOMAIN changes \ {c.ID} : Recorded(c)[r] = changes[r]
<1>1. [r \in {c.ID} |-> c] \in ChangeMap
  <2> DEFINE m == [r \in {c.ID} |-> c]
  <2>1. c.ID \in Resources
    BY DEF Change
  <2>2. DOMAIN m = {c.ID} /\ \A r \in DOMAIN m : m[r] = c
    OBVIOUS
  <2>3. m = [r \in DOMAIN m |-> m[r]]
    OBVIOUS
  <2>4. QED
    BY <2>1, <2>2, <2>3, ChangeMapChar
<1>2. QED
  BY <1>1, MergeMaps DEF Recorded
-----------------------------------------------------------------------------
(* Type correctness.                                                        *)

\* A change made from the next event of r is a change.
LEMMA NotifiedIsChange ==
  ASSUME TypeOK, NEW r \in Resources, NEW a \in Actions, cluster[r].ver < MaxVersion
  PROVE  [ID |-> r, Action |-> a, ver |-> cluster[r].ver + 1] \in Change
BY ConstantsOK DEF TypeOK, Change

\* The change a busy handler holds, and what is left of the type when it is idle.
LEMMA HandlerHolds ==
  ASSUME TypeOK, NEW k \in Informers, handler[k] # <<>>
  PROVE  handler[k][1] \in Change
<1>1. PICK c \in Change : handler[k] = <<c>>
  BY DEF TypeOK
<1>2. QED
  BY <1>1

LEMMA AppliesType ==
  ASSUME TypeOK, NEW S \in SUBSET DOMAIN batch, Applies(S)
  PROVE  mcp' \in [Resources -> Change \cup NoChanges]
BY ChangeMapChar DEF TypeOK, Applies

LEMMA FailFlushType ==
  ASSUME TypeOK, FailFlush
  PROVE  /\ changes' \in ChangeMap /\ batch' \in ChangeMap
         /\ run' \in {"select", "done"} /\ finalFlush' = FALSE /\ attempt' = 0
         /\ lastError' = TRUE
BY MergeMaps, EmptyMap DEF TypeOK, FailFlush, EndFlush

LEMMA TypeInit == Init => TypeOK
<1> SUFFICES ASSUME Init PROVE TypeOK
  OBVIOUS
<1> USE ConstantsOK
<1>1. cluster \in [Resources -> [live : BOOLEAN, ver : 0..MaxVersion]]
  BY DEF Init
<1>2. handler \in [Informers -> {<<>>} \cup {<<c>> : c \in Change}]
  BY DEF Init
<1>3. changes \in ChangeMap /\ batch \in ChangeMap
  BY EmptyMap DEF Init
<1>4. /\ mcp \in [Resources -> Change \cup NoChanges]
      /\ accepted \in [Resources -> Change \cup NoChanges]
  BY DEF Init, NoChanges
<1>5. changeQueue \in Seq(Change) /\ Len(changeQueue) <= BufferSize
  BY EmptySeq DEF Init
<1>6. /\ queueClosed \in BOOLEAN /\ changeQueueClosed \in BOOLEAN /\ cancelled \in BOOLEAN
      /\ finalFlush \in BOOLEAN /\ lastError \in BOOLEAN /\ panicked \in BOOLEAN
  BY DEF Init
<1>7. run \in {"select", "send", "backoff", "done"} /\ attempt \in 0..MaxRetries /\ (run = "backoff" => attempt < MaxRetries)
  BY DEF Init
<1>8. QED
  BY <1>1, <1>2, <1>3, <1>4, <1>5, <1>6, <1>7 DEF TypeOK

LEMMA TypeNext == TypeOK /\ [Next]_vars => TypeOK'
<1> SUFFICES ASSUME TypeOK, [Next]_vars PROVE TypeOK'
  OBVIOUS
<1> USE ConstantsOK
<1>1. ASSUME NEW r \in Resources, OnAdd(r) \/ OnUpdate(r) \/ OnDelete(r)
      PROVE  TypeOK'
  <2>1. PICK a \in Actions : Notify(r, a)
    BY <1>1 DEF OnAdd, OnUpdate, OnDelete, Actions
  <2>2. [ID |-> r, Action |-> a, ver |-> cluster[r].ver + 1] \in Change
    BY <2>1, NotifiedIsChange DEF Notify
  <2>3. handler' \in [Informers -> {<<>>} \cup {<<c>> : c \in Change}]
    BY <2>1, <2>2 DEF Notify, TypeOK
  <2>4. cluster' \in [Resources -> [live : BOOLEAN, ver : 0..MaxVersion]]
    BY <2>1 DEF Notify, TypeOK
  <2>5. QED
    BY <2>1, <2>3, <2>4 DEF Notify, TypeOK, stop, flushing
<1>2. ASSUME NEW k \in Informers, SendQueued(k)
      PROVE  TypeOK'
  <2>1. handler[k][1] \in Change
    BY <1>2, HandlerHolds DEF SendQueued
  <2>2. handler' \in [Informers -> {<<>>} \cup {<<c>> : c \in Change}]
    BY <1>2 DEF SendQueued, TypeOK
  <2>3. changeQueue' \in Seq(Change) /\ Len(changeQueue') <= BufferSize
    BY <1>2, <2>1, AppendProperties DEF SendQueued, TypeOK
  <2>4. accepted' \in [Resources -> Change \cup NoChanges]
    BY <1>2, <2>1 DEF SendQueued, TypeOK
  <2>5. QED
    BY <1>2, <2>2, <2>3, <2>4 DEF SendQueued, TypeOK, stop, flushing
<1>3. ASSUME NEW k \in Informers, SendDropped(k)
      PROVE  TypeOK'
  <2>1. handler' \in [Informers -> {<<>>} \cup {<<c>> : c \in Change}]
    BY <1>3 DEF SendDropped, TypeOK
  <2>2. QED
    BY <1>3, <2>1 DEF SendDropped, TypeOK, stop, flushing
<1>4. ASSUME NEW k \in Informers, SendPanics(k)
      PROVE  TypeOK'
  BY <1>4 DEF SendPanics, TypeOK, producer, stop, flushing
<1>5. ASSUME RecvChange
      PROVE  TypeOK'
  <2>1. Head(changeQueue) \in Change /\ Tail(changeQueue) \in Seq(Change)
        /\ Len(Tail(changeQueue)) = Len(changeQueue) - 1
    BY <1>5, HeadTailProperties DEF RecvChange, TypeOK
  <2>2. changes' \in ChangeMap
    BY <1>5, <2>1, RecordInMap DEF RecvChange, TypeOK
  <2>3. changeQueue' \in Seq(Change) /\ Len(changeQueue') <= BufferSize
    BY <1>5, <2>1, LenProperties DEF RecvChange, TypeOK
  <2>4. QED
    BY <1>5, <2>2, <2>3 DEF RecvChange, TypeOK, producer, stop, flushing
<1>6. ASSUME Tick \/ FinalFlush
      PROVE  TypeOK'
  <2>1. PICK f \in BOOLEAN : BeginFlush(f)
    BY <1>6 DEF Tick, FinalFlush
  <2>2. QED
    BY <2>1, EmptyMap DEF BeginFlush, TypeOK, producer, stop
<1>7. ASSUME Return
      PROVE  TypeOK'
  BY <1>7 DEF Return, TypeOK, producer, stop
<1>8. ASSUME SendOk
      PROVE  TypeOK'
  <2>1. mcp' \in [Resources -> Change \cup NoChanges]
    BY <1>8, AppliesType DEF SendOk
  <2>2. finalFlush' \in BOOLEAN /\ lastError' \in BOOLEAN /\ run' \in {"select", "done"}
    BY <1>8 DEF SendOk, EndFlush
  <2>3. changes' \in ChangeMap /\ batch' \in ChangeMap /\ attempt' = 0
    BY <1>8, EmptyMap DEF SendOk, EndFlush, TypeOK
  <2>4. UNCHANGED <<producer, changeQueue, stop, accepted, panicked>>
    BY <1>8 DEF SendOk
  <2>5. QED
    BY <2>1, <2>2, <2>3, <2>4 DEF TypeOK, producer, stop
<1>9. ASSUME NEW S \in SUBSET DOMAIN batch, SendPartial(S) \/ SendGivesUp(S)
      PROVE  TypeOK'
  <2>1. mcp' \in [Resources -> Change \cup NoChanges]
    BY <1>9, AppliesType DEF SendPartial, SendGivesUp
  <2>2. FailFlush
    BY <1>9 DEF SendPartial, SendGivesUp
  <2>3. UNCHANGED <<producer, changeQueue, stop, accepted, panicked>>
    BY <1>9 DEF SendPartial, SendGivesUp
  <2>4. /\ changes' \in ChangeMap /\ batch' \in ChangeMap /\ run' \in {"select", "done"}
        /\ finalFlush' \in BOOLEAN /\ lastError' \in BOOLEAN /\ attempt' = 0
    BY <2>2, FailFlushType
  <2>5. QED
    BY <2>1, <2>3, <2>4 DEF TypeOK, producer, stop
<1>10. ASSUME NEW S \in SUBSET DOMAIN batch, SendRetries(S)
       PROVE  TypeOK'
  <2>1. mcp' \in [Resources -> Change \cup NoChanges]
    BY <1>10, AppliesType DEF SendRetries
  <2>2. QED
    BY <1>10, <2>1 DEF SendRetries, TypeOK, producer, stop
<1>11. ASSUME BackoffOver
       PROVE  TypeOK'
  BY <1>11 DEF BackoffOver, TypeOK, producer, stop
<1>12. ASSUME BackoffInterrupted
       PROVE  TypeOK'
  <2>1. FailFlush
    BY <1>12 DEF BackoffInterrupted
  <2>2. UNCHANGED <<producer, changeQueue, stop, mcp, accepted, panicked>>
    BY <1>12 DEF BackoffInterrupted
  <2>3. /\ changes' \in ChangeMap /\ batch' \in ChangeMap /\ run' \in {"select", "done"}
        /\ finalFlush' \in BOOLEAN /\ lastError' \in BOOLEAN /\ attempt' = 0
    BY <2>1, FailFlushType
  <2>4. QED
    BY <2>2, <2>3 DEF TypeOK, producer, stop
<1>13. ASSUME StopWatcher
       PROVE  TypeOK'
  BY <1>13 DEF StopWatcher, FlagQueueClosed, CancelWatcher, CloseQueue, TypeOK,
               producer, flushing
<1>14. ASSUME TickAfterCancel
       PROVE  TypeOK'
  BY <1>14 DEF TickAfterCancel, TypeOK, producer, stop, flushing
<1>15. ASSUME UNCHANGED vars
       PROVE  TypeOK'
  BY <1>15 DEF vars, TypeOK, stop, flushing
<1>16. QED
  BY <1>1, <1>2, <1>3, <1>4, <1>5, <1>6, <1>7, <1>8, <1>9, <1>10, <1>11, <1>12, <1>13,
     <1>14, <1>15 DEF Next, Handlers, Debounce

\* Every variable keeps its type: the queue its capacity, attempts their limit.
THEOREM TypeCorrect == Safety => []TypeOK
BY TypeInit, TypeNext, PTL DEF Safety
-----------------------------------------------------------------------------
(* The inductive invariant.                                                 *)

LEMMA Numbers ==
  ASSUME TypeOK
  PROVE  /\ \A c \in Change : c.ID \in Resources /\ c.ver \in Nat
         /\ \A r \in Resources : /\ mcp[r].ver \in Nat /\ accepted[r].ver \in Nat
                                 /\ cluster[r].ver \in Nat
         /\ \A r \in DOMAIN changes : r \in Resources /\ changes[r] \in Change
         /\ \A r \in DOMAIN batch : r \in Resources /\ batch[r] \in Change
         /\ \A i \in DOMAIN changeQueue : changeQueue[i] \in Change
         /\ DOMAIN changeQueue = 1..Len(changeQueue) /\ Len(changeQueue) \in Nat
<1>1. \A c \in Change : c.ID \in Resources /\ c.ver \in Nat
  BY ConstantsOK DEF Change
<1>2. \A r \in Resources : mcp[r].ver \in Nat /\ accepted[r].ver \in Nat
  BY <1>1 DEF TypeOK, NoChanges, NoChange
<1>3. \A r \in Resources : cluster[r].ver \in Nat
  BY ConstantsOK DEF TypeOK
<1>4. \A r \in DOMAIN changes : r \in Resources /\ changes[r] \in Change
  BY ChangeMapChar DEF TypeOK
<1>5. \A r \in DOMAIN batch : r \in Resources /\ batch[r] \in Change
  BY ChangeMapChar DEF TypeOK
<1>6. DOMAIN changeQueue = 1..Len(changeQueue) /\ Len(changeQueue) \in Nat
  BY LenProperties DEF TypeOK
<1>7. \A i \in DOMAIN changeQueue : changeQueue[i] \in Change
  BY <1>6, ElementOfSeq DEF TypeOK
<1>8. QED
  BY <1>1, <1>2, <1>3, <1>4, <1>5, <1>6, <1>7

LEMMA InvInit == Init => IInv
<1> SUFFICES ASSUME Init PROVE IInv
  OBVIOUS
<1>1. TypeOK
  BY TypeInit
<1>2. Conserved
  BY DEF Init, Conserved
<1>3. PipelineOrdered
  BY EmptyMap DEF Init, PipelineOrdered, Between, OrderedQueue, OrderedHandlers,
                  NoChange
<1>4. ErrorMeansUnsent
  BY DEF Init, ErrorMeansUnsent, FlushExclusive
<1>5. QED
  BY <1>1, <1>2, <1>3, <1>4 DEF IInv

\* A handler builds the change of a new event: it is newer than all before it.
LEMMA NotifyKeeps ==
  ASSUME IInv, NEW r \in Resources, NEW a \in Actions, Notify(r, a)
  PROVE  Conserved' /\ PipelineOrdered' /\ ErrorMeansUnsent'
<1> USE DEF IInv
<1>1. UNCHANGED <<changeQueue, changes, batch, run, lastError, mcp, accepted>>
  BY DEF Notify, flushing
<1>2. Conserved'
  BY <1>1 DEF Conserved, InQueue, InMap
<1>3. ErrorMeansUnsent'
  BY <1>1 DEF ErrorMeansUnsent, FlushExclusive
<1>4. cluster' = [cluster EXCEPT ![r] = [live |-> a = "UPSERT", ver |-> cluster[r].ver + 1]]
  BY DEF Notify
<1>5. \A q \in Resources : accepted'[q].ver <= cluster'[q].ver
  BY <1>1, <1>4, Numbers DEF PipelineOrdered, TypeOK
<1>6. OrderedHandlers'
  <2> SUFFICES ASSUME NEW k \in Informers, handler'[k] # <<>>
               PROVE  LET c == handler'[k][1]
                      IN /\ InformerOf[c.ID] = k /\ c.ver = cluster'[c.ID].ver
                         /\ accepted'[c.ID].ver < c.ver
    BY DEF OrderedHandlers
  <2>1. CASE k = InformerOf[r]
    <3>1. handler'[k][1] = [ID |-> r, Action |-> a, ver |-> cluster[r].ver + 1]
      BY <2>1, ConstantsOK DEF Notify, TypeOK
    <3>2. QED
      BY <3>1, <2>1, <1>1, <1>4, Numbers DEF PipelineOrdered, TypeOK
  <2>2. CASE k # InformerOf[r]
    <3>1. handler'[k] = handler[k]
      BY <2>2 DEF Notify, TypeOK
    <3>2. handler[k][1] \in Change
      BY <3>1, HandlerHolds
    <3>3. InformerOf[handler[k][1].ID] = k /\ handler[k][1].ID # r
      BY <3>1, <2>2 DEF PipelineOrdered, OrderedHandlers
    <3>4. cluster'[handler[k][1].ID] = cluster[handler[k][1].ID]
      BY <3>2, <3>3, <1>4, Numbers DEF TypeOK
    <3>5. QED
      BY <3>1, <3>4, <1>1 DEF PipelineOrdered, OrderedHandlers
  <2>3. QED
    BY <2>1, <2>2
<1>7. PipelineOrdered'
  BY <1>1, <1>5, <1>6 DEF PipelineOrdered, Between, OrderedQueue
<1>8. QED
  BY <1>2, <1>3, <1>7

\* The queue takes a change newer than everything downstream of it.
LEMMA SendQueuedKeeps ==
  ASSUME IInv, NEW k \in Informers, SendQueued(k)
  PROVE  Conserved' /\ PipelineOrdered' /\ ErrorMeansUnsent'
<1> DEFINE c == handler[k][1]
<1> USE DEF IInv
<1>1. UNCHANGED <<cluster, changes, batch, run, lastError, mcp>>
  BY DEF SendQueued, flushing
<1>2. c \in Change /\ c.ID \in Resources /\ c.ver \in Nat
  BY HandlerHolds, Numbers DEF SendQueued
<1>3. /\ InformerOf[c.ID] = k /\ c.ver = cluster[c.ID].ver /\ accepted[c.ID].ver < c.ver
  BY DEF SendQueued, PipelineOrdered, OrderedHandlers
<1>4. accepted' = [accepted EXCEPT ![c.ID] = c]
  BY DEF SendQueued
<1>5. /\ DOMAIN changeQueue' = 1..(Len(changeQueue) + 1)
      /\ \A i \in DOMAIN changeQueue : changeQueue'[i] = changeQueue[i]
      /\ changeQueue'[Len(changeQueue) + 1] = c
  <2>1. changeQueue' = Append(changeQueue, c)
    BY DEF SendQueued
  <2>2. QED
    BY <2>1, <1>2, Numbers, AppendProperties, LenProperties DEF TypeOK
<1>6. Conserved'
  <2> SUFFICES ASSUME NEW r \in Resources
               PROVE  \/ \E i \in DOMAIN changeQueue' : changeQueue'[i] = accepted'[r]
                      \/ InMap(accepted'[r], changes')
                      \/ InMap(accepted'[r], batch')
                      \/ mcp'[r] = accepted'[r]
    BY DEF Conserved, InQueue, InMap
  <2>1. CASE r = c.ID
    <3>1. accepted'[r] = c
      BY <2>1, <1>4 DEF TypeOK
    <3>2. Len(changeQueue) + 1 \in DOMAIN changeQueue'
      BY <1>5, Numbers
    <3>3. QED
      BY <3>1, <3>2, <1>5
  <2>2. CASE r # c.ID
    <3>1. accepted'[r] = accepted[r]
      BY <2>2, <1>4 DEF TypeOK
    <3>2. QED
      BY <3>1, <1>1, <1>5, Numbers DEF Conserved, InQueue, InMap
  <2>3. QED
    BY <2>1, <2>2
<1>7. ErrorMeansUnsent'
  BY <1>1 DEF ErrorMeansUnsent, FlushExclusive
<1>8. ASSUME NEW r \in Resources, NEW d, Between(d, mcp[r], accepted[r]), d.ver \in Nat
      PROVE  Between(d, mcp'[r], accepted'[r]) /\ (r = c.ID => d.ver < c.ver)
  BY <1>8, <1>1, <1>2, <1>3, <1>4, Numbers DEF Between, TypeOK, PipelineOrdered
<1>9. \A r \in Resources : /\ Between(mcp'[r], mcp'[r], accepted'[r]) /\ accepted'[r].ID = r
                           /\ accepted'[r].ver <= cluster'[r].ver
  BY <1>1, <1>2, <1>3, <1>4, <1>8, Numbers DEF PipelineOrdered, TypeOK, Between
<1>10. /\ \A r \in DOMAIN changes' : Between(changes'[r], mcp'[r], accepted'[r])
       /\ \A r \in DOMAIN batch' : Between(batch'[r], mcp'[r], accepted'[r])
  BY <1>1, <1>8, Numbers DEF PipelineOrdered
<1>11. OrderedQueue'
  <2> SUFFICES ASSUME NEW i \in DOMAIN changeQueue'
               PROVE  LET d == changeQueue'[i]
                      IN /\ Between(d, mcp'[d.ID], accepted'[d.ID])
                         /\ mcp'[d.ID].ver < d.ver
                         /\ d.ID \in DOMAIN changes' => changes'[d.ID].ver < d.ver
                         /\ d.ID \in DOMAIN batch' => batch'[d.ID].ver < d.ver
                         /\ \A j \in DOMAIN changeQueue' :
                              i < j /\ changeQueue'[j].ID = d.ID => d.ver < changeQueue'[j].ver
    BY DEF OrderedQueue
  <2>1. CASE i = Len(changeQueue) + 1
    <3>1. changeQueue'[i] = c
      BY <2>1, <1>5
    <3>2. Between(c, mcp'[c.ID], accepted'[c.ID])
      BY <1>1, <1>2, <1>3, <1>4, Numbers DEF Between, TypeOK, PipelineOrdered
    <3>3. /\ mcp'[c.ID].ver < c.ver
          /\ c.ID \in DOMAIN changes' => changes'[c.ID].ver < c.ver
          /\ c.ID \in DOMAIN batch' => batch'[c.ID].ver < c.ver
      BY <1>1, <1>2, <1>8, Numbers DEF PipelineOrdered
    <3>4. QED
      BY <2>1, <3>1, <3>2, <3>3, <1>5, Numbers
  <2>2. CASE i \in DOMAIN changeQueue
    <3> DEFINE d == changeQueue[i]
    <3>1. changeQueue'[i] = d /\ d \in Change /\ d.ID \in Resources /\ d.ver \in Nat
      BY <2>2, <1>5, Numbers
    <3>2. Between(d, mcp[d.ID], accepted[d.ID])
      BY <2>2 DEF PipelineOrdered, OrderedQueue
    <3>3. Between(d, mcp'[d.ID], accepted'[d.ID]) /\ (d.ID = c.ID => d.ver < c.ver)
      BY <3>1, <3>2, <1>8
    <3>4. /\ mcp'[d.ID].ver < d.ver
          /\ d.ID \in DOMAIN changes' => changes'[d.ID].ver < d.ver
          /\ d.ID \in DOMAIN batch' => batch'[d.ID].ver < d.ver
      BY <2>2, <1>1 DEF PipelineOrdered, OrderedQueue
    <3>5. \A j \in DOMAIN changeQueue' :
             i < j /\ changeQueue'[j].ID = d.ID => d.ver < changeQueue'[j].ver
      BY <2>2, <3>3, <1>5, Numbers DEF PipelineOrdered, OrderedQueue
    <3>6. QED
      BY <3>1, <3>3, <3>4, <3>5
  <2>3. QED
    BY <2>1, <2>2, <1>5, Numbers
<1>12. OrderedHandlers'
  <2> SUFFICES ASSUME NEW l \in Informers, handler'[l] # <<>>
               PROVE  LET d == handler'[l][1]
                      IN /\ InformerOf[d.ID] = l /\ d.ver = cluster'[d.ID].ver
                         /\ accepted'[d.ID].ver < d.ver
    BY DEF OrderedHandlers
  <2>1. l # k /\ handler'[l] = handler[l]
    BY DEF SendQueued, TypeOK
  <2>2. handler[l][1] \in Change /\ handler[l][1].ID \in Resources
    BY <2>1, HandlerHolds, Numbers
  <2>3. handler[l][1].ID # c.ID
    BY <2>1, <1>3 DEF PipelineOrdered, OrderedHandlers
  <2>4. QED
    BY <2>1, <2>2, <2>3, <1>1, <1>4 DEF PipelineOrdered, OrderedHandlers, TypeOK
<1>13. QED
  BY <1>6, <1>7, <1>9, <1>10, <1>11, <1>12 DEF PipelineOrdered

\* record moves the oldest queued change into the buffer, over an older one only.
LEMMA RecvChangeKeeps ==
  ASSUME IInv, RecvChange
  PROVE  Conserved' /\ PipelineOrdered' /\ ErrorMeansUnsent'
<1> DEFINE c == changeQueue[1]
<1> USE DEF IInv
<1>1. UNCHANGED <<cluster, handler, batch, run, lastError, mcp, accepted>>
  BY DEF RecvChange, producer, flushing
<1>2. batch = Empty /\ DOMAIN batch = {}
  BY EmptyMap DEF RecvChange, ErrorMeansUnsent, FlushExclusive
<1>3. /\ 1 \in DOMAIN changeQueue /\ c \in Change /\ c.ID \in Resources /\ c.ver \in Nat
      /\ Head(changeQueue) = c
  <2>1. 1 \in DOMAIN changeQueue
    BY Numbers, EmptySeq DEF RecvChange, TypeOK
  <2>2. Head(changeQueue) = c
    BY DEF RecvChange, TypeOK
  <2>3. QED
    BY <2>1, <2>2, Numbers
<1>4. /\ DOMAIN changeQueue' = 1..(Len(changeQueue) - 1)
      /\ \A i \in DOMAIN changeQueue' : changeQueue'[i] = changeQueue[i + 1]
      /\ \A i \in DOMAIN changeQueue' : i + 1 \in DOMAIN changeQueue /\ 1 < i + 1
      /\ \A i \in DOMAIN changeQueue : i # 1 => i - 1 \in DOMAIN changeQueue'
  <2>1. changeQueue' = Tail(changeQueue)
    BY DEF RecvChange
  <2>2. QED
    BY <2>1, Numbers, HeadTailProperties, LenProperties DEF TypeOK, RecvChange
<1>5. /\ changes' \in ChangeMap
      /\ DOMAIN changes' = DOMAIN changes \cup {c.ID}
      /\ changes'[c.ID] = c
      /\ \A r \in DOMAIN changes \ {c.ID} : changes'[r] = changes[r]
  BY <1>3, RecordInMap DEF RecvChange, TypeOK
<1>6. /\ Between(c, mcp[c.ID], accepted[c.ID])
      /\ c.ID \in DOMAIN changes => changes[c.ID].ver < c.ver
      /\ c.ver <= accepted[c.ID].ver
  BY <1>3 DEF PipelineOrdered, OrderedQueue, Between
<1>7. Conserved'
  <2> SUFFICES ASSUME NEW r \in Resources
               PROVE  \/ \E i \in DOMAIN changeQueue' : changeQueue'[i] = accepted[r]
                      \/ accepted[r].ID \in DOMAIN changes'
                           /\ changes'[accepted[r].ID] = accepted[r]
                      \/ mcp[r] = accepted[r]
    BY <1>1 DEF Conserved, InQueue, InMap
  <2>1. accepted[r].ID = r
    BY DEF PipelineOrdered
  <2>2. CASE \E i \in DOMAIN changeQueue : changeQueue[i] = accepted[r]
    <3>1. PICK i \in DOMAIN changeQueue : changeQueue[i] = accepted[r]
      BY <2>2
    <3>2. CASE i = 1
      BY <3>1, <3>2, <1>5
    <3>3. CASE i # 1
      <4>1. i - 1 \in DOMAIN changeQueue' /\ (i - 1) + 1 = i
        BY <3>3, <1>4, Numbers
      <4>2. changeQueue'[i - 1] = accepted[r]
        BY <4>1, <3>1, <1>4
      <4>3. QED
        BY <4>1, <4>2
    <3>4. QED
      BY <3>2, <3>3
  <2>3. CASE r \in DOMAIN changes /\ changes[r] = accepted[r]
    <3>1. r # c.ID
      BY <2>3, <1>6, <1>3, Numbers
    <3>2. QED
      BY <3>1, <2>1, <2>3, <1>5
  <2>4. QED
    BY <2>1, <2>2, <2>3, <1>2 DEF Conserved, InQueue, InMap
<1>8. ErrorMeansUnsent'
  BY <1>1, <1>5, EmptyMap DEF ErrorMeansUnsent, FlushExclusive, RecvChange
<1>9. \A r \in DOMAIN changes' : Between(changes'[r], mcp[r], accepted[r])
  BY <1>5, <1>6 DEF PipelineOrdered
<1>10. OrderedQueue'
  <2> SUFFICES ASSUME NEW i \in DOMAIN changeQueue'
               PROVE  LET d == changeQueue'[i]
                      IN /\ Between(d, mcp'[d.ID], accepted'[d.ID])
                         /\ mcp'[d.ID].ver < d.ver
                         /\ d.ID \in DOMAIN changes' => changes'[d.ID].ver < d.ver
                         /\ d.ID \in DOMAIN batch' => batch'[d.ID].ver < d.ver
                         /\ \A j \in DOMAIN changeQueue' :
                              i < j /\ changeQueue'[j].ID = d.ID => d.ver < changeQueue'[j].ver
    BY DEF OrderedQueue
  <2> DEFINE d == changeQueue[i + 1]
  <2>1. changeQueue'[i] = d /\ i + 1 \in DOMAIN changeQueue /\ 1 < i + 1 /\ i \in Int
    BY <1>4, Numbers
  <2>2. /\ Between(d, mcp'[d.ID], accepted'[d.ID])
        /\ mcp'[d.ID].ver < d.ver
        /\ d.ID \in DOMAIN batch' => batch'[d.ID].ver < d.ver
    BY <2>1, <1>1 DEF PipelineOrdered, OrderedQueue
  <2>3. d.ID \in DOMAIN changes' => changes'[d.ID].ver < d.ver
    <3>1. CASE d.ID = c.ID
      BY <3>1, <2>1, <1>3, <1>5 DEF PipelineOrdered, OrderedQueue
    <3>2. CASE d.ID # c.ID
      BY <3>2, <2>1, <1>5 DEF PipelineOrdered, OrderedQueue
    <3>3. QED
      BY <3>1, <3>2
  <2>4. ASSUME NEW j \in DOMAIN changeQueue', i < j, changeQueue'[j].ID = d.ID
        PROVE  d.ver < changeQueue'[j].ver
    <3>1. changeQueue'[j] = changeQueue[j + 1] /\ j + 1 \in DOMAIN changeQueue /\ i + 1 < j + 1
      BY <2>1, <2>4, <1>4, Numbers
    <3>2. QED
      BY <3>1, <2>1, <2>4 DEF PipelineOrdered, OrderedQueue
  <2>5. QED
    BY <2>1, <2>2, <2>3, <2>4
<1>11. QED
  BY <1>1, <1>7, <1>8, <1>9, <1>10 DEF PipelineOrdered, OrderedHandlers

\* The snapshot of flush carries every pending change into the batch.
LEMMA BeginFlushKeeps ==
  ASSUME IInv, NEW f \in BOOLEAN, run = "select", BeginFlush(f)
  PROVE  Conserved' /\ PipelineOrdered' /\ ErrorMeansUnsent'
<1> USE DEF IInv
<1>1. UNCHANGED <<cluster, handler, changeQueue, lastError, mcp, accepted>>
  BY DEF BeginFlush, producer
<1>2. /\ batch' = changes /\ changes' = Empty /\ batch = Empty
      /\ changes # Empty /\ run' = "send"
  BY DEF BeginFlush, ErrorMeansUnsent, FlushExclusive
<1>3. Conserved'
  BY <1>1, <1>2, EmptyMap DEF Conserved, InQueue, InMap
<1>4. PipelineOrdered'
  BY <1>1, <1>2, EmptyMap DEF PipelineOrdered, OrderedQueue, OrderedHandlers
<1>5. ErrorMeansUnsent'
  BY <1>1, <1>2 DEF ErrorMeansUnsent, FlushExclusive
<1>6. QED
  BY <1>3, <1>4, <1>5

\* Whatever part of a batch MCP applies, it moves forward to at most the batch.
LEMMA AppliesForward ==
  ASSUME IInv, NEW S \in SUBSET DOMAIN batch, Applies(S)
  PROVE  /\ \A r \in Resources : /\ Between(mcp'[r], mcp'[r], accepted[r])
                                 /\ mcp[r].ver <= mcp'[r].ver
                                 /\ mcp[r] = accepted[r] => mcp'[r] = accepted[r]
         /\ \A r \in DOMAIN batch : /\ mcp'[r].ver <= batch[r].ver
                                    /\ r \in S => mcp'[r] = batch[r]
         /\ \A i \in DOMAIN changeQueue :
              LET c == changeQueue[i]
              IN mcp'[c.ID].ver < c.ver /\ Between(c, mcp'[c.ID], accepted[c.ID])
<1> USE DEF IInv
<1>1. \A r \in Resources : mcp'[r] = IF r \in S THEN batch[r] ELSE mcp[r]
  BY DEF Applies
<1>2. \A r \in DOMAIN batch : r \in Resources /\ batch[r].ver \in Nat /\ Between(batch[r], mcp[r], accepted[r])
  BY Numbers DEF PipelineOrdered
<1>3. \A r \in Resources : Between(mcp[r], mcp[r], accepted[r]) /\ accepted[r].ver \in Nat /\ mcp[r].ver \in Nat
  BY Numbers DEF PipelineOrdered
<1>4. \A r \in Resources : /\ Between(mcp'[r], mcp'[r], accepted[r])
                           /\ mcp[r].ver <= mcp'[r].ver
                           /\ mcp[r] = accepted[r] => mcp'[r] = accepted[r]
  BY <1>1, <1>2, <1>3 DEF Between
<1>5. \A r \in DOMAIN batch : /\ mcp'[r].ver <= batch[r].ver
                              /\ r \in S => mcp'[r] = batch[r]
  BY <1>1, <1>2, <1>3 DEF Between
<1>6. ASSUME NEW i \in DOMAIN changeQueue
      PROVE  LET c == changeQueue[i]
             IN mcp'[c.ID].ver < c.ver /\ Between(c, mcp'[c.ID], accepted[c.ID])
  <2> DEFINE c == changeQueue[i]
  <2>1. c.ID \in Resources /\ c.ver \in Nat
    BY Numbers
  <2>2. mcp'[c.ID] \in {mcp[c.ID]} \/ (c.ID \in DOMAIN batch /\ mcp'[c.ID] = batch[c.ID])
    BY <2>1, <1>1
  <2>3. mcp'[c.ID].ver \in Nat /\ mcp'[c.ID].ver < c.ver
    BY <2>1, <2>2, <1>2, <1>3 DEF PipelineOrdered, OrderedQueue
  <2>4. QED
    BY <2>1, <2>3 DEF PipelineOrdered, OrderedQueue, Between
<1>7. QED
  BY <1>4, <1>5, <1>6

\* MCP applies part of a batch that stays under way (a retry follows), or becomes
\* the buffer again (requeue), or is done with (success).
LEMMA BatchStays ==
  ASSUME IInv, NEW S \in SUBSET DOMAIN batch, Applies(S), run = "send",
         run' = "backoff",
         UNCHANGED <<cluster, handler, changeQueue, changes, batch, lastError, accepted>>
  PROVE  Conserved' /\ PipelineOrdered' /\ ErrorMeansUnsent'
<1> USE DEF IInv
<1>1. Conserved'
  BY AppliesForward DEF Conserved, InQueue, InMap
<1>2. changes = Empty /\ batch # Empty
  BY DEF ErrorMeansUnsent, FlushExclusive
<1>3. OrderedQueue'
  BY AppliesForward, Numbers, <1>2, EmptyMap DEF PipelineOrdered, OrderedQueue, Between
<1>4. \A r \in DOMAIN batch : Between(batch[r], mcp'[r], accepted[r])
  BY AppliesForward DEF PipelineOrdered, Between
<1>5. PipelineOrdered'
  BY <1>2, <1>3, <1>4, AppliesForward, EmptyMap DEF PipelineOrdered, OrderedHandlers
<1>6. ErrorMeansUnsent'
  BY <1>2 DEF ErrorMeansUnsent, FlushExclusive
<1>7. QED
  BY <1>1, <1>5, <1>6

LEMMA BatchRequeued ==
  ASSUME IInv, NEW S \in SUBSET DOMAIN batch, Applies(S), run \in {"send", "backoff"},
         FailFlush, UNCHANGED <<cluster, handler, changeQueue, accepted>>
  PROVE  Conserved' /\ PipelineOrdered' /\ ErrorMeansUnsent'
<1> USE DEF IInv
<1>1. changes = Empty /\ batch # Empty
  BY DEF ErrorMeansUnsent, FlushExclusive
<1>2. changes' = batch /\ batch' = Empty /\ lastError' = TRUE /\ run' \in {"select", "done"}
  <2>1. changes' = Merge(Empty, batch)
    BY <1>1 DEF FailFlush
  <2>2. Merge(Empty, batch) = [r \in DOMAIN batch |-> batch[r]]
    BY DEF Merge, Empty
  <2>3. batch = [r \in DOMAIN batch |-> batch[r]]
    BY ChangeMapChar DEF TypeOK
  <2>4. QED
    BY <2>1, <2>2, <2>3 DEF FailFlush, EndFlush
<1>3. Conserved'
  BY <1>1, <1>2, AppliesForward, EmptyMap DEF Conserved, InQueue, InMap
<1>4. OrderedQueue'
  BY AppliesForward, Numbers, <1>1, <1>2, EmptyMap
     DEF PipelineOrdered, OrderedQueue, Between
<1>5. \A r \in DOMAIN batch : Between(batch[r], mcp'[r], accepted[r])
  BY AppliesForward DEF PipelineOrdered, Between
<1>6. PipelineOrdered'
  BY <1>2, <1>4, <1>5, AppliesForward, EmptyMap DEF PipelineOrdered, OrderedHandlers
<1>7. ErrorMeansUnsent'
  BY <1>1, <1>2 DEF ErrorMeansUnsent, FlushExclusive
<1>8. QED
  BY <1>3, <1>6, <1>7

LEMMA SendOkKeeps ==
  ASSUME IInv, SendOk
  PROVE  Conserved' /\ PipelineOrdered' /\ ErrorMeansUnsent'
<1> USE DEF IInv
<1>1. Applies(DOMAIN batch) /\ DOMAIN batch \in SUBSET DOMAIN batch
  BY DEF SendOk
<1>2. /\ changes = Empty /\ batch' = Empty /\ lastError' = FALSE
      /\ run' \in {"select", "done"}
  BY DEF SendOk, EndFlush, ErrorMeansUnsent, FlushExclusive
<1>3. UNCHANGED <<cluster, handler, changeQueue, changes, accepted>>
  BY DEF SendOk, producer
<1>4. Conserved'
  BY <1>1, <1>2, <1>3, AppliesForward, EmptyMap DEF Conserved, InQueue, InMap, PipelineOrdered
<1>5. OrderedQueue'
  BY <1>1, <1>2, <1>3, AppliesForward, Numbers, EmptyMap
     DEF PipelineOrdered, OrderedQueue, Between
<1>6. PipelineOrdered'
  BY <1>1, <1>2, <1>3, <1>5, AppliesForward, EmptyMap DEF PipelineOrdered, OrderedHandlers
<1>7. ErrorMeansUnsent'
  BY <1>2, <1>3 DEF ErrorMeansUnsent, FlushExclusive
<1>8. QED
  BY <1>4, <1>6, <1>7

\* A step that touches none of the changes, and keeps the loop's place or leaves it
\* with an empty buffer or goes on with its retry.
LEMMA QuietStepKeeps ==
  ASSUME IInv,
         UNCHANGED <<changeQueue, changes, batch, lastError, mcp, accepted, cluster>>,
         handler' = handler \/ \E k \in Informers : handler' = [handler EXCEPT ![k] = <<>>],
         \/ run' = run
         \/ run = "select" /\ run' = "done" /\ changes = Empty
         \/ run = "backoff" /\ run' = "send"
  PROVE  Conserved' /\ PipelineOrdered' /\ ErrorMeansUnsent'
<1> USE DEF IInv
<1>1. Conserved'
  BY DEF Conserved, InQueue, InMap
<1>2. \A k \in Informers : handler'[k] # <<>> => handler'[k] = handler[k]
  BY DEF TypeOK
<1>3. PipelineOrdered'
  BY <1>2 DEF PipelineOrdered, OrderedQueue, OrderedHandlers
<1>4. ErrorMeansUnsent'
  BY DEF ErrorMeansUnsent, FlushExclusive
<1>5. QED
  BY <1>1, <1>3, <1>4

LEMMA InvNext == IInv /\ [Next]_vars => IInv'
<1> SUFFICES ASSUME IInv, [Next]_vars
             PROVE  Conserved' /\ PipelineOrdered' /\ ErrorMeansUnsent'
  BY TypeNext DEF IInv
<1>1. ASSUME NEW r \in Resources, OnAdd(r) \/ OnUpdate(r) \/ OnDelete(r)
      PROVE  Conserved' /\ PipelineOrdered' /\ ErrorMeansUnsent'
  BY <1>1, NotifyKeeps DEF OnAdd, OnUpdate, OnDelete, Actions
<1>2. ASSUME NEW k \in Informers, SendQueued(k)
      PROVE  Conserved' /\ PipelineOrdered' /\ ErrorMeansUnsent'
  BY <1>2, SendQueuedKeeps
<1>3. ASSUME NEW k \in Informers, SendDropped(k) \/ SendPanics(k)
      PROVE  Conserved' /\ PipelineOrdered' /\ ErrorMeansUnsent'
  <2>1. /\ UNCHANGED <<changeQueue, changes, batch, lastError, mcp, accepted, cluster, run>>
        /\ handler' = handler \/ handler' = [handler EXCEPT ![k] = <<>>]
    BY <1>3 DEF SendDropped, SendPanics, producer, flushing
  <2>2. QED
    BY <2>1, QuietStepKeeps
<1>4. CASE RecvChange
  BY <1>4, RecvChangeKeeps
<1>5. CASE Tick \/ FinalFlush
  BY <1>5, BeginFlushKeeps DEF Tick, FinalFlush, LeavesLoop
<1>6. CASE Return
  <2>1. /\ UNCHANGED <<changeQueue, changes, batch, lastError, mcp, accepted, cluster, handler>>
        /\ run = "select" /\ run' = "done" /\ changes = Empty
    BY <1>6 DEF Return, LeavesLoop, producer
  <2>2. QED
    BY <2>1, QuietStepKeeps
<1>7. CASE SendOk
  BY <1>7, SendOkKeeps
<1>8. ASSUME NEW S \in SUBSET DOMAIN batch, SendPartial(S) \/ SendGivesUp(S)
      PROVE  Conserved' /\ PipelineOrdered' /\ ErrorMeansUnsent'
  <2>1. /\ Applies(S) /\ run = "send" /\ FailFlush
        /\ UNCHANGED <<cluster, handler, changeQueue, accepted>>
    BY <1>8 DEF SendPartial, SendGivesUp, producer
  <2>2. QED
    BY <2>1, BatchRequeued
<1>9. ASSUME NEW S \in SUBSET DOMAIN batch, SendRetries(S)
      PROVE  Conserved' /\ PipelineOrdered' /\ ErrorMeansUnsent'
  <2>1. /\ Applies(S) /\ run = "send" /\ run' = "backoff"
        /\ UNCHANGED <<cluster, handler, changeQueue, changes, batch, lastError, accepted>>
    BY <1>9 DEF SendRetries, producer
  <2>2. QED
    BY <2>1, BatchStays
<1>10. CASE BackoffOver
  <2>1. /\ UNCHANGED <<changeQueue, changes, batch, lastError, mcp, accepted, cluster, handler>>
        /\ run = "backoff" /\ run' = "send"
    BY <1>10 DEF BackoffOver, producer
  <2>2. QED
    BY <2>1, QuietStepKeeps
<1>11. CASE BackoffInterrupted
  <2>1. /\ run = "backoff" /\ FailFlush
        /\ UNCHANGED <<cluster, handler, changeQueue, mcp, accepted>>
    BY <1>11 DEF BackoffInterrupted, producer
  <2>2. Applies({})
    BY <2>1 DEF Applies, IInv, TypeOK
  <2>3. QED
    BY <2>1, <2>2, BatchRequeued
<1>12. CASE StopWatcher
  <2>1. UNCHANGED <<changeQueue, changes, batch, lastError, mcp, accepted, cluster, handler, run>>
    BY <1>12 DEF StopWatcher, FlagQueueClosed, CancelWatcher, CloseQueue, producer, flushing
  <2>2. QED
    BY <2>1, QuietStepKeeps
<1>13. CASE UNCHANGED vars
  <2>1. UNCHANGED <<changeQueue, changes, batch, lastError, mcp, accepted, cluster, handler, run>>
    BY <1>13 DEF vars, flushing
  <2>2. QED
    BY <2>1, QuietStepKeeps
<1>14. CASE TickAfterCancel
  <2>1. /\ UNCHANGED <<changeQueue, changes, batch, mcp, accepted, cluster, handler, run>>
        /\ run = "select" /\ changes # Empty
    BY <1>14 DEF TickAfterCancel, producer, flushing
  <2>2. Conserved' /\ PipelineOrdered'
    BY <2>1 DEF IInv, Conserved, InQueue, InMap, PipelineOrdered, OrderedQueue,
                OrderedHandlers
  <2>3. ErrorMeansUnsent'
    BY <2>1 DEF IInv, ErrorMeansUnsent, FlushExclusive
  <2>4. QED
    BY <2>2, <2>3
<1>15. QED
  BY <1>1, <1>2, <1>3, <1>4, <1>5, <1>6, <1>7, <1>8, <1>9, <1>10, <1>11, <1>12, <1>13,
     <1>14 DEF Next, Handlers, Debounce

LEMMA Invariance == Safety => []IInv
BY InvInit, InvNext, PTL DEF Safety

\* No change that the queue accepted is lost between the queue and MCP, whatever
\* fails, retries or stops in between.
THEOREM NoAcceptedChangeLost == Safety => []Conserved
<1>1. IInv => Conserved
  BY DEF IInv
<1>2. QED
  BY <1>1, Invariance, PTL

\* Changes of one resource keep their order along queue, buffer, batch and MCP.
THEOREM OrderKept == Safety => []PipelineOrdered
<1>1. IInv => PipelineOrdered
  BY DEF IInv
<1>2. QED
  BY <1>1, Invariance, PTL

\* A failed flush stays on record exactly while something waits to be sent again.
THEOREM ErrorIsTruthful == Safety => []ErrorMeansUnsent
<1>1. IInv => ErrorMeansUnsent
  BY DEF IInv
<1>2. QED
  BY <1>1, Invariance, PTL

\* After a stop whose final flush went through, only the channel holds lost changes.
THEOREM StopLosesOnlyTheQueue == Safety => []LossOnlyInQueue
<1>1. IInv => LossOnlyInQueue
  <2> SUFFICES ASSUME IInv, run = "done", ~lastError, NEW r \in Resources
               PROVE  mcp[r] = accepted[r] \/ InQueue(accepted[r])
    BY DEF LossOnlyInQueue
  <2>1. changes = Empty /\ batch = Empty
    BY DEF IInv, ErrorMeansUnsent, FlushExclusive
  <2>2. QED
    BY <2>1, EmptyMap DEF IInv, Conserved, InMap
<1>2. QED
  BY <1>1, Invariance, PTL
-----------------------------------------------------------------------------
(* The watcher implements ChangeDelivery (its safety part): a step of the   *)
(* queue is Accept, what an attempt makes MCP apply is Deliver, setting the *)
(* closed flag is Close, and every other step stutters.                     *)

LEMMA RefinesInit == Init => Promise!Init
BY DEF Init, Promise!Init, NoChange, Promise!NoChange

\* An attempt that makes MCP apply part of the batch delivers that part.
LEMMA AppliesDelivers ==
  ASSUME IInv, NEW S \in SUBSET DOMAIN batch, Applies(S),
         UNCHANGED <<accepted, changeQueueClosed>>
  PROVE  \E T \in SUBSET Resources : Promise!Deliver(T)
<1> DEFINE new == [r \in S |-> batch[r]]
<1>1. S \in SUBSET Resources /\ new \in [S -> Change]
  BY Numbers DEF IInv
<1>2. ASSUME NEW r \in S
      PROVE  /\ new[r].ID = r
             /\ new[r].ver \in mcp[r].ver .. accepted[r].ver
             /\ new[r].ver = accepted[r].ver => new[r] = accepted[r]
  BY <1>1, Numbers DEF IInv, PipelineOrdered, Between
<1>3. mcp' = [r \in Resources |-> IF r \in S THEN new[r] ELSE mcp[r]]
  BY DEF Applies
<1>4. Promise!Deliver(S)
  BY <1>1, <1>2, <1>3 DEF Promise!Deliver
<1>5. QED
  BY <1>1, <1>4

LEMMA RefinesNext == IInv /\ [Next]_vars => [Promise!Next]_(Promise!vars)
<1> SUFFICES ASSUME IInv, [Next]_vars
             PROVE  Promise!Next \/ UNCHANGED <<accepted, mcp, changeQueueClosed>>
  BY DEF Promise!vars
<1>1. ASSUME NEW k \in Informers, SendQueued(k)
      PROVE  Promise!Next
  <2>1. handler[k][1] \in Change /\ accepted[handler[k][1].ID].ver < handler[k][1].ver
    BY <1>1, HandlerHolds DEF SendQueued, IInv, PipelineOrdered, OrderedHandlers
  <2>2. Promise!Accept(handler[k][1])
    BY <1>1, <2>1, Numbers DEF SendQueued, Promise!Accept, stop, IInv
  <2>3. QED
    BY <2>1, <2>2 DEF Promise!Next
<1>2. ASSUME NEW S \in SUBSET DOMAIN batch, SendPartial(S) \/ SendGivesUp(S) \/ SendRetries(S)
      PROVE  Promise!Next
  BY <1>2, AppliesDelivers DEF SendPartial, SendGivesUp, SendRetries, stop, Promise!Next
<1>3. CASE SendOk
  BY <1>3, AppliesDelivers DEF SendOk, stop, Promise!Next
<1>4. CASE FlagQueueClosed
  BY <1>4 DEF FlagQueueClosed, Promise!Next, Promise!Close
<1>5. ASSUME NEW r \in Resources, OnAdd(r) \/ OnUpdate(r) \/ OnDelete(r)
      PROVE  UNCHANGED <<accepted, mcp, changeQueueClosed>>
  BY <1>5 DEF OnAdd, OnUpdate, OnDelete, Notify, stop
<1>6. ASSUME NEW k \in Informers, SendDropped(k) \/ SendPanics(k)
      PROVE  UNCHANGED <<accepted, mcp, changeQueueClosed>>
  BY <1>6 DEF SendDropped, SendPanics, stop
<1>7. CASE RecvChange \/ Tick \/ TickAfterCancel \/ FinalFlush \/ Return
  BY <1>7 DEF RecvChange, Tick, TickAfterCancel, FinalFlush, Return, BeginFlush, stop
<1>8. CASE BackoffOver \/ BackoffInterrupted
  BY <1>8 DEF BackoffOver, BackoffInterrupted, stop
<1>9. CASE CancelWatcher \/ CloseQueue
  BY <1>9 DEF CancelWatcher, CloseQueue
<1>10. CASE UNCHANGED vars
  BY <1>10 DEF vars, stop
<1>11. QED
  BY <1>1, <1>2, <1>3, <1>4, <1>5, <1>6, <1>7, <1>8, <1>9, <1>10
     DEF Next, Handlers, Debounce, StopWatcher

\* MCP never goes back to an older change of a resource, and never gets one that
\* the queue did not accept.
THEOREM ImplementsDeliverySafety == Safety => ImplementsPromiseSafety
<1>1. Init /\ [][Next]_vars => Promise!Init /\ [][Promise!Next]_(Promise!vars)
  BY RefinesInit, RefinesNext, Invariance, PTL DEF Safety
<1>2. QED
  BY <1>1 DEF Safety, ImplementsPromiseSafety, Promise!Safety
-----------------------------------------------------------------------------
(* The watcher implements DebounceLoop: the reconciler's view of the loop.  *)
(* Waiting hides where a change is, so a step of the queue is Queue, a      *)
(* change that record overwrites is Record, and the flushes map one by one. *)

\* What the mapping needs beside IInv: the queue is closed after the context is
\* cancelled, and the fresh context of a final flush is gone when the flush is.
LoopInv ==
  /\ queueClosed => cancelled
  /\ finalFlush => run \in {"send", "backoff"}

LEMMA LoopInvNext == LoopInv /\ [Next]_vars => LoopInv'
<1> SUFFICES ASSUME LoopInv, [Next]_vars PROVE LoopInv'
  OBVIOUS
<1> USE DEF LoopInv
<1>1. ASSUME NEW r \in Resources, OnAdd(r) \/ OnUpdate(r) \/ OnDelete(r)
      PROVE  LoopInv'
  BY <1>1 DEF OnAdd, OnUpdate, OnDelete, Notify, stop, flushing
<1>2. ASSUME NEW k \in Informers, SendQueued(k) \/ SendDropped(k) \/ SendPanics(k)
      PROVE  LoopInv'
  BY <1>2 DEF SendQueued, SendDropped, SendPanics, stop, flushing
<1>3. CASE RecvChange \/ TickAfterCancel \/ UNCHANGED vars
  BY <1>3 DEF RecvChange, TickAfterCancel, vars, stop, flushing
<1>4. CASE Tick \/ FinalFlush
  BY <1>4 DEF Tick, FinalFlush, BeginFlush, stop
<1>5. CASE Return
  BY <1>5 DEF Return, LeavesLoop, stop
<1>6. CASE SendOk \/ BackoffInterrupted
  BY <1>6 DEF SendOk, BackoffInterrupted, FailFlush, EndFlush, stop
<1>7. ASSUME NEW S \in SUBSET DOMAIN batch, SendPartial(S) \/ SendGivesUp(S)
      PROVE  LoopInv'
  BY <1>7 DEF SendPartial, SendGivesUp, FailFlush, EndFlush, stop
<1>8. ASSUME NEW S \in SUBSET DOMAIN batch, SendRetries(S)
      PROVE  LoopInv'
  BY <1>8 DEF SendRetries, stop
<1>9. CASE BackoffOver
  BY <1>9 DEF BackoffOver, stop
<1>10. CASE StopWatcher
  BY <1>10 DEF StopWatcher, FlagQueueClosed, CancelWatcher, CloseQueue, flushing
<1>11. QED
  BY <1>1, <1>2, <1>3, <1>4, <1>5, <1>6, <1>7, <1>8, <1>9, <1>10
     DEF Next, Handlers, Debounce

\* The changes in the channel, as entries of the loop.
Queued == {Entry(changeQueue[i]) : i \in DOMAIN changeQueue}

\* An entry keeps what tells changes apart, so no two changes share one.
LEMMA Entries ==
  ASSUME NEW c \in Change
  PROVE  /\ Entry(c) \in Loop!Change
         /\ Entry(c).ID = c.ID /\ Entry(c).ver = c.ver /\ Entry(c).state = c
         /\ \A d : Entry(c) = Entry(d) => c = d
<1>1. Entry(c).ID = c.ID /\ Entry(c).ver = c.ver /\ Entry(c).state = c
  BY DEF Entry
<1>2. \A d : Entry(d).state = d
  BY DEF Entry
<1>3. Entry(c) \in Loop!Change
  BY ConstantsOK DEF Entry, Loop!Change, Change
<1>4. QED
  BY <1>1, <1>2, <1>3

\* The entries of a map of changes whose keys are their IDs are such a map again.
LEMMA EntriesAreMap ==
  ASSUME NEW m \in ChangeMap, \A r \in DOMAIN m : m[r].ID = r
  PROVE  /\ EntriesOf(m) \subseteq Loop!Change
         /\ \A e \in EntriesOf(m) : e.ID \in DOMAIN m /\ e = Entry(m[e.ID])
         /\ \A r \in DOMAIN m : Entry(m[r]) \in EntriesOf(m) /\ Entry(m[r]).ID = r
         /\ Loop!IsMap(EntriesOf(m))
         /\ EntriesOf(m) = {} <=> m = Empty
<1>1. \A r \in DOMAIN m : m[r] \in Change
  BY ChangeMapChar
<1>2. \A r \in DOMAIN m : Entry(m[r]) \in Loop!Change /\ Entry(m[r]).ID = r
  BY <1>1, Entries
<1>3. \A e \in EntriesOf(m) : e.ID \in DOMAIN m /\ e = Entry(m[e.ID])
  BY <1>2 DEF EntriesOf
<1>4. Loop!IsMap(EntriesOf(m))
  BY <1>3 DEF Loop!IsMap
<1>5. EntriesOf(m) = {} => DOMAIN m = {}
  BY DEF EntriesOf
<1>6. DOMAIN m = {} => m = Empty
  BY ChangeMapChar DEF Empty
<1>7. m = Empty => EntriesOf(m) = {}
  BY EmptyMap DEF EntriesOf
<1>8. QED
  BY <1>2, <1>3, <1>4, <1>5, <1>6, <1>7 DEF EntriesOf

\* In every reachable state the entries of the buffer and of the batch are maps, and
\* what is in the channel is newer than both.
LEMMA EntriesInOrder ==
  ASSUME IInv
  PROVE  /\ \A r \in DOMAIN changes : changes[r] \in Change /\ changes[r].ID = r
         /\ \A r \in DOMAIN batch : batch[r] \in Change /\ batch[r].ID = r
         /\ Queued \subseteq Loop!Change
         /\ \A e \in EntriesOf(changes) \cup EntriesOf(batch), q \in Queued :
              e.ID = q.ID => e.ver < q.ver
<1> USE DEF IInv
<1>1. \A r \in DOMAIN changes : changes[r] \in Change /\ changes[r].ID = r
  BY Numbers DEF PipelineOrdered, Between
<1>2. \A r \in DOMAIN batch : batch[r] \in Change /\ batch[r].ID = r
  BY Numbers DEF PipelineOrdered, Between
<1>3. Queued \subseteq Loop!Change
  BY Numbers, Entries DEF Queued
<1>4. ASSUME NEW r, \/ r \in DOMAIN changes /\ Entry(changes[r]).ID = r
                    \/ r \in DOMAIN batch /\ Entry(batch[r]).ID = r,
             NEW i \in DOMAIN changeQueue, changeQueue[i].ID = r
      PROVE  /\ r \in DOMAIN changes => changes[r].ver < changeQueue[i].ver
             /\ r \in DOMAIN batch => batch[r].ver < changeQueue[i].ver
  BY <1>4 DEF PipelineOrdered, OrderedQueue
<1>5. ASSUME NEW e \in EntriesOf(changes) \cup EntriesOf(batch), NEW q \in Queued,
             e.ID = q.ID
      PROVE  e.ver < q.ver
  <2>1. PICK i \in DOMAIN changeQueue : q = Entry(changeQueue[i])
    BY DEF Queued
  <2>2. q.ID = changeQueue[i].ID /\ q.ver = changeQueue[i].ver
    BY <2>1, Numbers, Entries
  <2>3. CASE e \in EntriesOf(changes)
    <3>1. PICK r \in DOMAIN changes : e = Entry(changes[r])
      BY <2>3 DEF EntriesOf
    <3>2. e.ID = r /\ e.ver = changes[r].ver
      BY <3>1, <1>1, Entries
    <3>3. QED
      BY <3>1, <3>2, <2>2, <1>5, <1>4
  <2>4. CASE e \in EntriesOf(batch)
    <3>1. PICK r \in DOMAIN batch : e = Entry(batch[r])
      BY <2>4 DEF EntriesOf
    <3>2. e.ID = r /\ e.ver = batch[r].ver
      BY <3>1, <1>2, Entries
    <3>3. QED
      BY <3>1, <3>2, <2>2, <1>5, <1>4
  <2>5. QED
    BY <2>3, <2>4
<1>6. QED
  BY <1>1, <1>2, <1>3, <1>5

\* What an attempt makes MCP apply of the batch is what the loop's Applied says.
LEMMA AppliesEntries ==
  ASSUME IInv, NEW S \in SUBSET DOMAIN batch, Applies(S)
  PROVE  /\ {Entry(batch[r]) : r \in S} \subseteq EntriesOf(batch)
         /\ mcp' = Loop!Applied({Entry(batch[r]) : r \in S})
<1> DEFINE B == {Entry(batch[r]) : r \in S}
<1>1. \A r \in S : Entry(batch[r]).ID = r /\ Entry(batch[r]).state = batch[r]
  BY EntriesInOrder, Entries
<1>2. ASSUME NEW r \in Resources, r \in S
      PROVE  /\ \E c \in B : c.ID = r
             /\ (CHOOSE c \in B : c.ID = r).state = batch[r]
  <2>1. Entry(batch[r]) \in B /\ Entry(batch[r]).ID = r
    BY <1>1, <1>2
  <2>2. \A c \in B : c.ID = r => c = Entry(batch[r])
    BY <1>1
  <2>3. (CHOOSE c \in B : c.ID = r) = Entry(batch[r])
    BY <2>1, <2>2
  <2>4. QED
    BY <2>1, <2>3, <1>1, <1>2
<1>3. ASSUME NEW r \in Resources, r \notin S
      PROVE  ~\E c \in B : c.ID = r
  BY <1>1, <1>3
<1>4. mcp' = [r \in Resources |->
                IF \E c \in B : c.ID = r THEN (CHOOSE c \in B : c.ID = r).state ELSE mcp[r]]
  BY <1>2, <1>3 DEF Applies
<1>5. QED
  BY <1>4 DEF Loop!Applied, EntriesOf

\* Where the loop is, for every place of the goroutine.
LEMMA Places ==
  ASSUME TypeOK, LoopInv
  PROVE  /\ run = "select" => ~Ending /\ LoopRun = "select" /\ Waiting = Queued \cup EntriesOf(changes)
         /\ run = "done" => Ending /\ LoopRun = "off" /\ Waiting = {}
         /\ run \in {"send", "backoff"} /\ finalFlush =>
              Ending /\ LoopRun = "final" /\ Waiting = {}
         /\ run \in {"send", "backoff"} /\ ~finalFlush =>
              ~Ending /\ LoopRun = "flush" /\ Waiting = Queued \cup EntriesOf(changes)
BY DEF TypeOK, LoopInv, Ending, LoopRun, Waiting, Queued

LEMMA LoopInit == Init => Loop!Init /\ LoopInv
<1> SUFFICES ASSUME Init PROVE Loop!Init /\ LoopInv
  OBVIOUS
<1>1. changeQueue = <<>> /\ changes = Empty /\ batch = Empty /\ run = "select" /\ ~finalFlush
      /\ ~queueClosed /\ cancelled = FALSE
  BY DEF Init
<1>2. EntriesOf(Empty) = {}
  BY EmptyMap DEF EntriesOf
<1>3. Waiting = {} /\ LoopRun = "select"
  BY <1>1, <1>2 DEF Waiting, LoopRun, Ending
<1>4. mcp \in [Resources -> Change \cup NoChanges]
  BY DEF Init, NoChanges
<1>5. QED
  BY <1>1, <1>2, <1>3, <1>4 DEF Loop!Init, LoopInv

\* A step that leaves channel, buffer, batch and MCP alone, and the loop in its place.
LEMMA LoopStutters ==
  ASSUME UNCHANGED <<changeQueue, changes, batch, finalFlush, cancelled, mcp>>,
         run' = run \/ (run = "backoff" /\ run' = "send")
  PROVE  UNCHANGED Loop!vars
<1>1. Waiting' = Waiting
  BY DEF Waiting, Ending, EntriesOf
<1>2. LoopRun' = LoopRun
  BY DEF LoopRun
<1>3. EntriesOf(batch)' = EntriesOf(batch)
  BY DEF EntriesOf
<1>4. QED
  BY <1>1, <1>2, <1>3 DEF Loop!vars

\* The channel takes a change: newer than whatever waits or is under way.
LEMMA SendQueuedMaps ==
  ASSUME IInv, LoopInv, LoopInv', NEW k \in Informers, SendQueued(k)
  PROVE  Loop!Next \/ UNCHANGED Loop!vars
<1> DEFINE c == handler[k][1]
<1> USE DEF IInv
<1>1. c \in Change /\ c.ID \in Resources
  BY HandlerHolds, Numbers DEF SendQueued
<1>2. accepted[c.ID].ver < c.ver
  BY DEF SendQueued, PipelineOrdered, OrderedHandlers
<1>3. UNCHANGED <<changes, batch, run, finalFlush, cancelled, mcp>>
  BY DEF SendQueued, flushing, stop
<1>4. Queued' = Queued \cup {Entry(c)}
  <2>1. changeQueue' = Append(changeQueue, c)
    BY DEF SendQueued
  <2>2. /\ DOMAIN changeQueue' = DOMAIN changeQueue \cup {Len(changeQueue) + 1}
        /\ \A i \in DOMAIN changeQueue : changeQueue'[i] = changeQueue[i]
        /\ changeQueue'[Len(changeQueue) + 1] = c
    BY <2>1, <1>1, Numbers, AppendProperties, LenProperties DEF TypeOK
  <2>3. QED
    BY <2>2 DEF Queued
<1>5. UNCHANGED <<LoopRun, EntriesOf(batch), EntriesOf(changes)>>
  BY <1>3 DEF LoopRun, EntriesOf
<1>6. CASE run = "done" \/ finalFlush
  <2>1. Waiting = {} /\ Waiting' = {}
    BY <1>3, <1>6 DEF Waiting, Ending
  <2>2. QED
    BY <2>1, <1>3, <1>5 DEF Loop!vars
<1>7. CASE run # "done" /\ ~finalFlush
  <2>1. LoopRun \in {"select", "flush"} /\ Waiting = Queued \cup EntriesOf(changes)
    BY <1>7, Places DEF TypeOK
  <2>2. Waiting' = Waiting \cup {Entry(c)}
    BY <2>1, <1>7, <1>3, <1>4, <1>5 DEF Waiting, Ending, Queued
  <2>3. ASSUME NEW d \in Change, d.ID = c.ID, Between(d, mcp[d.ID], accepted[d.ID])
        PROVE  d.ver < c.ver
    BY <2>3, <1>1, <1>2, Numbers DEF Between
  <2>4. \A i \in DOMAIN changeQueue :
          changeQueue[i].ID = c.ID => changeQueue[i].ver < c.ver
    BY <2>3, Numbers DEF PipelineOrdered, OrderedQueue
  <2>5. /\ \A r \in DOMAIN changes : r = c.ID => changes[r].ver < c.ver
        /\ \A r \in DOMAIN batch : r = c.ID => batch[r].ver < c.ver
    BY <2>3, EntriesInOrder DEF PipelineOrdered
  <2>6. ASSUME NEW d \in Waiting \cup EntriesOf(batch), d.ID = c.ID
        PROVE  d.ver < c.ver
    <3>1. CASE d \in Queued
      <4>1. PICK i \in DOMAIN changeQueue : d = Entry(changeQueue[i])
        BY <3>1 DEF Queued
      <4>2. QED
        BY <4>1, <2>4, <2>6, Numbers, Entries
    <3>2. CASE d \in EntriesOf(changes)
      <4>1. PICK r \in DOMAIN changes : d = Entry(changes[r])
        BY <3>2 DEF EntriesOf
      <4>2. QED
        BY <4>1, <2>5, <2>6, EntriesInOrder, Entries
    <3>3. CASE d \in EntriesOf(batch)
      <4>1. PICK r \in DOMAIN batch : d = Entry(batch[r])
        BY <3>3 DEF EntriesOf
      <4>2. QED
        BY <4>1, <2>5, <2>6, EntriesInOrder, Entries
    <3>4. QED
      BY <3>1, <3>2, <3>3, <2>1
  <2>7. Loop!Queue(Entry(c))
    BY <2>1, <2>2, <2>6, <1>1, <1>3, <1>5, Entries DEF Loop!Queue
  <2>8. Entry(c) \in Waiting'
    BY <2>2
  <2>9. QED
    BY <2>7, <2>8 DEF Loop!Next
<1>8. QED
  BY <1>6, <1>7

\* The loop takes a change from the channel: only the one it overwrites waits no more.
LEMMA RecvChangeMaps ==
  ASSUME IInv, LoopInv, LoopInv', RecvChange
  PROVE  Loop!Next \/ UNCHANGED Loop!vars
<1> DEFINE c == Head(changeQueue)
<1> USE DEF IInv
<1>1. UNCHANGED <<batch, run, finalFlush, cancelled, mcp>> /\ run = "select"
  BY DEF RecvChange, flushing, stop
<1>2. /\ Waiting = Queued \cup EntriesOf(changes)
      /\ LoopRun = "select" /\ LoopRun' = LoopRun
  BY <1>1, Places DEF LoopRun
<1>3. Waiting' = Queued' \cup EntriesOf(changes)'
  BY <1>1 DEF Waiting, Ending, Queued, LoopInv
<1>4. c \in Change /\ changes' = Recorded(c) /\ changeQueue' = Tail(changeQueue)
  BY HeadTailProperties DEF RecvChange, TypeOK
<1>5. /\ DOMAIN changes' = DOMAIN changes \cup {c.ID} /\ changes'[c.ID] = c
      /\ \A r \in DOMAIN changes \ {c.ID} : changes'[r] = changes[r]
  BY <1>4, RecordInMap DEF TypeOK
<1>6. Queued = Queued' \cup {Entry(c)}
  <2>1. /\ DOMAIN changeQueue' = 1..(Len(changeQueue) - 1)
        /\ \A i \in DOMAIN changeQueue' : changeQueue'[i] = changeQueue[i + 1]
        /\ changeQueue[1] = c /\ Len(changeQueue) >= 1
    BY <1>4, Numbers, HeadTailProperties, LenProperties DEF RecvChange, TypeOK
  <2>2. \A i \in DOMAIN changeQueue : i = 1 \/ (i - 1 \in DOMAIN changeQueue' /\ changeQueue'[i - 1] = changeQueue[i])
    BY <2>1, Numbers
  <2>3. \A i \in DOMAIN changeQueue' : i + 1 \in DOMAIN changeQueue
    BY <2>1, Numbers
  <2>4. 1 \in DOMAIN changeQueue
    BY <2>1, Numbers
  <2>5. QED
    BY <2>1, <2>2, <2>3, <2>4 DEF Queued
<1>7. EntriesOf(changes)' =
        {Entry(c)} \cup {Entry(changes[r]) : r \in DOMAIN changes \ {c.ID}}
  BY <1>5 DEF EntriesOf
<1>8. CASE c.ID \notin DOMAIN changes
  <2>1. EntriesOf(changes)' = {Entry(c)} \cup EntriesOf(changes)
    BY <1>8, <1>7 DEF EntriesOf
  <2>2. Waiting' = Waiting
    BY <2>1, <1>2, <1>3, <1>6
  <2>3. QED
    BY <2>2, <1>1, <1>2 DEF Loop!vars, EntriesOf
<1>9. CASE c.ID \in DOMAIN changes
  <2> DEFINE d == Entry(changes[c.ID])
  <2>1. d \in EntriesOf(changes) /\ d.ID = c.ID /\ Entry(c).ID = c.ID
    BY <1>9, <1>4, EntriesInOrder, Entries DEF EntriesOf
  <2>2. \A q \in Queued : q.ID = c.ID => d.ver < q.ver
    BY <2>1, EntriesInOrder
  <2>3. d.ver < Entry(c).ver /\ Entry(c) \in Waiting
    BY <2>1, <2>2, <1>2, <1>6
  <2>4. d.ver \in Nat
    BY <1>9, EntriesInOrder, Entries, Numbers
  <2>5. d \notin Queued
    BY <2>1, <2>2, <2>4
  <2>6. \A r \in DOMAIN changes \ {c.ID} : Entry(changes[r]).ID = r
    BY EntriesInOrder, Entries
  <2>7. {Entry(changes[r]) : r \in DOMAIN changes \ {c.ID}} = EntriesOf(changes) \ {d}
    BY <2>1, <2>6 DEF EntriesOf
  <2>8. Waiting' = Waiting \ {d}
    BY <2>5, <2>7, <1>2, <1>3, <1>6, <1>7
  <2>9. Loop!Record(d)
    BY <2>1, <2>3, <2>8, <1>1, <1>2 DEF Loop!Record, EntriesOf
  <2>10. d \in Waiting
    BY <2>1, <1>2
  <2>11. QED
    BY <2>9, <2>10 DEF Loop!Next, Loop!Loop
<1>10. QED
  BY <1>8, <1>9

\* A flush takes what the buffer holds: all that waits and is not in the channel.
LEMMA TickMaps ==
  ASSUME IInv, LoopInv, LoopInv', Tick
  PROVE  Loop!Next
<1> USE DEF IInv
<1>1. /\ run = "select" /\ cancelled = FALSE /\ run' = "send" /\ finalFlush' = FALSE
      /\ changes # Empty /\ changes' = Empty /\ batch' = changes
      /\ UNCHANGED <<changeQueue, cancelled, mcp>>
  BY DEF Tick, BeginFlush, TypeOK, stop
<1>2. Waiting = Queued \cup EntriesOf(changes) /\ LoopRun = "select"
  BY <1>1, Places
<1>3. LoopRun' = "flush"
  BY <1>1 DEF LoopRun
<1>4. EntriesOf(changes)' = {}
  BY <1>1, EmptyMap DEF EntriesOf
<1>5. Waiting' = Queued
  BY <1>1, <1>4 DEF Waiting, Ending, Queued
<1>6. Loop!IsMap(EntriesOf(changes)) /\ EntriesOf(changes) # {}
      /\ \A e \in EntriesOf(changes) : e \in Loop!Change
  BY <1>1, EntriesInOrder, EntriesAreMap DEF TypeOK
<1>7. \A e \in EntriesOf(changes), q \in Queued : e.ID = q.ID => e.ver < q.ver
  BY EntriesInOrder
<1>8. \A e \in EntriesOf(changes) : ~(e.ver < e.ver)
  BY <1>6 DEF Loop!Change
<1>9. Queued = Loop!Beyond(EntriesOf(changes))
  BY <1>2, <1>7, <1>8 DEF Loop!Beyond
<1>10. EntriesOf(batch)' = EntriesOf(changes)
  BY <1>1 DEF EntriesOf
<1>11. Loop!Flush(EntriesOf(changes))
  BY <1>1, <1>2, <1>3, <1>5, <1>6, <1>9, <1>10 DEF Loop!Flush
<1>12. QED
  BY <1>2, <1>11 DEF Loop!Next, Loop!Loop

\* The loop leaves its select, with a final flush or without one.
LEMMA LeavingMaps ==
  ASSUME IInv, LoopInv, LoopInv', FinalFlush \/ Return
  PROVE  Loop!Next
<1> USE DEF IInv
<1>1. /\ run = "select" /\ cancelled
      /\ UNCHANGED <<changeQueue, cancelled, mcp>>
  BY DEF FinalFlush, Return, BeginFlush, LeavesLoop, LoopInv, stop
<1>2. Waiting = Queued \cup EntriesOf(changes) /\ LoopRun = "select"
  BY <1>1, Places
<1>3. Loop!IsMap(EntriesOf(changes)) /\ (EntriesOf(changes) = {} <=> changes = Empty)
  BY EntriesInOrder, EntriesAreMap DEF TypeOK
<1>4. /\ Waiting' = {}
      /\ LoopRun' = IF changes = Empty THEN "off" ELSE "final"
      /\ EntriesOf(batch)' = EntriesOf(changes)
  <2>1. CASE FinalFlush
    <3>1. /\ changes # Empty /\ batch' = changes /\ run' = "send" /\ finalFlush' = TRUE
      BY <2>1 DEF FinalFlush, BeginFlush
    <3>2. QED
      BY <3>1 DEF Waiting, Ending, LoopRun, EntriesOf
  <2>2. CASE Return
    <3>1. changes = Empty /\ batch = Empty /\ UNCHANGED batch /\ run' = "done"
      BY <2>2, <1>1 DEF Return, ErrorMeansUnsent, FlushExclusive
    <3>2. QED
      BY <3>1 DEF Waiting, Ending, LoopRun, EntriesOf
  <2>3. QED
    BY <2>1, <2>2
<1>5. Loop!FinalFlush(EntriesOf(changes))
  BY <1>1, <1>2, <1>3, <1>4 DEF Loop!FinalFlush
<1>6. QED
  BY <1>2, <1>5 DEF Loop!Next, Loop!Loop

\* How the end of a flush looks to the loop.
LEMMA EndFlushMaps ==
  ASSUME IInv, LoopInv, run \in {"send", "backoff"}, EndFlush, UNCHANGED changeQueue,
         changes' \in {Empty, batch}
  PROVE  /\ LoopRun \in {"flush", "final"}
         /\ Loop!AfterFlush
         /\ EntriesOf(batch)' = {}
         /\ LoopRun = "final" => Waiting' = Waiting
         /\ LoopRun # "final" /\ changes' = Empty => Waiting' = Waiting
         /\ LoopRun # "final" /\ changes' = batch => Waiting' = Waiting \cup EntriesOf(batch)
<1> USE DEF IInv
<1>1. changes = Empty /\ EntriesOf(Empty) = {}
  BY EmptyMap DEF ErrorMeansUnsent, FlushExclusive, EntriesOf
<1>2. EntriesOf(batch)' = {}
  BY EmptyMap DEF EndFlush, EntriesOf
<1>3. CASE finalFlush
  <2>1. LoopRun = "final" /\ Waiting = {}
    BY <1>3, Places
  <2>2. LoopRun' = "off" /\ Waiting' = {}
    BY <1>3 DEF EndFlush, LoopRun, Waiting, Ending
  <2>3. QED
    BY <2>1, <2>2, <1>2 DEF Loop!AfterFlush
<1>4. CASE ~finalFlush
  <2>1. LoopRun = "flush" /\ Waiting = Queued \cup EntriesOf(changes)
    BY <1>4, Places
  <2>2. run' = "select" /\ finalFlush' = FALSE
    BY <1>4 DEF EndFlush
  <2>3. LoopRun' = "select" /\ Waiting' = Queued \cup EntriesOf(changes)'
    BY <2>2 DEF LoopRun, Waiting, Ending, Queued
  <2>4. changes' = Empty => EntriesOf(changes)' = {}
    BY <1>1 DEF EntriesOf
  <2>5. changes' = batch => EntriesOf(changes)' = EntriesOf(batch)
    BY DEF EntriesOf
  <2>6. QED
    BY <2>1, <2>3, <2>4, <2>5, <1>1, <1>2 DEF Loop!AfterFlush
<1>5. QED
  BY <1>3, <1>4

\* The last attempt fails, having made MCP apply a part of the batch.
LEMMA FailsMaps ==
  ASSUME IInv, LoopInv, run \in {"send", "backoff"}, FailFlush,
         NEW S \in SUBSET DOMAIN batch, Applies(S), UNCHANGED <<changeQueue, cancelled>>
  PROVE  Loop!Next
<1> DEFINE B == {Entry(batch[r]) : r \in S}
<1>1. B \in SUBSET EntriesOf(batch) /\ mcp' = Loop!Applied(B)
  BY AppliesEntries
<1>2. changes' = batch
  <2>1. changes = Empty
    BY DEF IInv, ErrorMeansUnsent, FlushExclusive
  <2>2. changes' = Merge(Empty, batch)
    BY <2>1 DEF FailFlush
  <2>3. Merge(Empty, batch) = [r \in DOMAIN batch |-> batch[r]]
    BY DEF Merge, Empty
  <2>4. batch = [r \in DOMAIN batch |-> batch[r]]
    BY ChangeMapChar DEF IInv, TypeOK
  <2>5. QED
    BY <2>2, <2>3, <2>4
<1>3. /\ LoopRun \in {"flush", "final"} /\ Loop!AfterFlush /\ EntriesOf(batch)' = {}
      /\ Waiting' = IF LoopRun = "final" THEN Waiting ELSE Waiting \cup EntriesOf(batch)
  BY <1>2, EndFlushMaps DEF FailFlush
<1>4. Loop!FlushFails(B)
  BY <1>1, <1>3 DEF Loop!FlushFails
<1>5. QED
  BY <1>1, <1>4 DEF Loop!Next, Loop!Loop

LEMMA LoopNext == IInv /\ LoopInv /\ [Next]_vars => [Loop!Next]_(Loop!vars)
<1> SUFFICES ASSUME IInv, LoopInv, [Next]_vars
             PROVE  Loop!Next \/ UNCHANGED Loop!vars
  OBVIOUS
<1> LoopInv'
  BY LoopInvNext
<1>1. ASSUME NEW r \in Resources, OnAdd(r) \/ OnUpdate(r) \/ OnDelete(r)
      PROVE  UNCHANGED Loop!vars
  <2>1. /\ UNCHANGED <<changeQueue, changes, batch, finalFlush, cancelled, mcp>>
        /\ run' = run
    BY <1>1 DEF OnAdd, OnUpdate, OnDelete, Notify, stop, flushing
  <2>2. QED
    BY <2>1, LoopStutters
<1>2. ASSUME NEW k \in Informers, SendQueued(k)
      PROVE  Loop!Next \/ UNCHANGED Loop!vars
  BY <1>2, SendQueuedMaps
<1>3. ASSUME NEW k \in Informers, SendDropped(k) \/ SendPanics(k)
      PROVE  UNCHANGED Loop!vars
  <2>1. /\ UNCHANGED <<changeQueue, changes, batch, finalFlush, cancelled, mcp>>
        /\ run' = run
    BY <1>3 DEF SendDropped, SendPanics, stop, flushing
  <2>2. QED
    BY <2>1, LoopStutters
<1>4. CASE RecvChange
  BY <1>4, RecvChangeMaps
<1>5. CASE Tick
  BY <1>5, TickMaps
<1>6. CASE FinalFlush \/ Return
  BY <1>6, LeavingMaps
<1>7. CASE TickAfterCancel \/ BackoffOver \/ FlagQueueClosed \/ CloseQueue \/ UNCHANGED vars
  <2>1. /\ UNCHANGED <<changeQueue, changes, batch, finalFlush, cancelled, mcp>>
        /\ run' = run \/ (run = "backoff" /\ run' = "send")
    BY <1>7 DEF TickAfterCancel, BackoffOver, FlagQueueClosed, CloseQueue, vars, stop,
                flushing
  <2>2. QED
    BY <2>1, LoopStutters
<1>8. CASE SendOk
  <2>1. /\ run = "send" /\ EndFlush /\ Applies(DOMAIN batch)
        /\ UNCHANGED <<changeQueue, changes, cancelled>>
    BY <1>8 DEF SendOk, stop
  <2>2. changes' = Empty
    BY <2>1 DEF IInv, ErrorMeansUnsent, FlushExclusive
  <2>3. /\ LoopRun \in {"flush", "final"} /\ Loop!AfterFlush /\ EntriesOf(batch)' = {}
        /\ Waiting' = Waiting
    BY <2>1, <2>2, EndFlushMaps
  <2>4. mcp' = Loop!Applied(EntriesOf(batch))
    BY <2>1, AppliesEntries DEF EntriesOf
  <2>5. Loop!FlushOk
    BY <2>1, <2>3, <2>4 DEF Loop!FlushOk
  <2>6. QED
    BY <2>5 DEF Loop!Next, Loop!Loop
<1>9. ASSUME NEW S \in SUBSET DOMAIN batch, SendPartial(S) \/ SendGivesUp(S)
      PROVE  Loop!Next
  BY <1>9, FailsMaps DEF SendPartial, SendGivesUp, stop
<1>10. CASE BackoffInterrupted
  <2>1. Applies({})
    BY <1>10 DEF BackoffInterrupted, Applies, IInv, TypeOK
  <2>2. QED
    BY <1>10, <2>1, FailsMaps DEF BackoffInterrupted, stop
<1>11. ASSUME NEW S \in SUBSET DOMAIN batch, SendRetries(S)
       PROVE  Loop!Next
  <2> DEFINE B == {Entry(batch[r]) : r \in S}
  <2>1. /\ run = "send" /\ run' = "backoff" /\ Applies(S)
        /\ UNCHANGED <<changeQueue, changes, batch, finalFlush, cancelled>>
    BY <1>11 DEF SendRetries, stop
  <2>2. B \in SUBSET EntriesOf(batch) /\ mcp' = Loop!Applied(B)
    BY <2>1, AppliesEntries
  <2>3. LoopRun \in {"flush", "final"} /\ LoopRun' = LoopRun
    BY <2>1 DEF LoopRun
  <2>4. Waiting' = Waiting /\ EntriesOf(batch)' = EntriesOf(batch)
    BY <2>1 DEF Waiting, Ending, EntriesOf
  <2>5. Loop!FlushRetries(B)
    BY <2>1, <2>2, <2>3, <2>4 DEF Loop!FlushRetries
  <2>6. QED
    BY <2>2, <2>5 DEF Loop!Next, Loop!Loop
<1>12. CASE CancelWatcher
  <2>1. /\ ~cancelled /\ cancelled' = TRUE
        /\ UNCHANGED <<changeQueue, changes, batch, run, finalFlush, mcp>>
    BY <1>12 DEF CancelWatcher, flushing
  <2>2. UNCHANGED <<Waiting, LoopRun, EntriesOf(batch)>>
    BY <2>1 DEF Waiting, Ending, LoopRun, EntriesOf
  <2>3. Loop!Cancel
    BY <2>1, <2>2 DEF Loop!Cancel
  <2>4. QED
    BY <2>3 DEF Loop!Next
<1>13. QED
  BY <1>1, <1>2, <1>3, <1>4, <1>5, <1>6, <1>7, <1>8, <1>9, <1>10, <1>11, <1>12
     DEF Next, Handlers, Debounce, StopWatcher

\* The watcher is a debounce loop as DebounceLoop describes it: a flush takes all that
\* is in the buffer and nothing newer, a failed one puts its whole batch back, and
\* only the final flush, after a stop, leaves changes behind in the channel.
THEOREM ImplementsDebounceLoop == Safety => ImplementsLoop
<1>1. Init /\ [][Next]_vars => Loop!Init /\ [][Loop!Next]_(Loop!vars)
  BY LoopInit, LoopNext, LoopInvNext, Invariance, PTL DEF Safety
<1>2. QED
  BY <1>1 DEF Safety, ImplementsLoop, Loop!Alone
=============================================================================
