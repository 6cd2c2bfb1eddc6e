------------------------- MODULE CapabilityScanProofs -------------------------
(***************************************************************************)
(* Deletes at MCP are justified, no batch of requests scans what it        *)
(* deletes, and a config that is Ready shows no error, for all resources,  *)
(* specs, filters, slots, queue sizes and bounds.                          *)
(***************************************************************************)
EXTENDS CapabilityScan, TLAPS

Works == [scans : SUBSET Resources, deletes : SUBSET Resources, failed : BOOLEAN]

\* The part of the types that the arguments below need.
Typed ==
  /\ cluster \in [Resources -> Stages] /\ seen \in [Resources -> Stages]
  /\ news = [r \in Resources |-> news[r]] /\ queue = [w \in States |-> queue[w]]
  /\ activeConfigs \in States \cup {NoState} /\ spec = [w \in States |-> spec[w]]
  /\ pending \in [States -> Batches] /\ work \in [Jobs -> Works]
  /\ startup \in [States -> {"off", "list", "diff", "send"}]
  /\ listed \in [States -> SUBSET Resources]

MCPTyped == scanning \subseteq Resources /\ mcp \subseteq Resources

\* What may be heard of a resource, and queued: a deletion only once it has begun.
StagesOf(r) == {s \in Stages : s = "deleting" => r \in gone}
Justifiable == {c \in Changes : c.isDelete => c.id \in gone}

StagesGone ==
  \A r \in Resources :
    /\ cluster[r] # "there" => r \in gone
    /\ seen[r] \in StagesOf(r) /\ news[r] \in Seq(StagesOf(r))

CallsJustified == calls \in Seq(Justifiable) /\ \A w \in States : queue[w] \in Seq(Justifiable)

\* What the startup reconciliation listed lacks only what was gone or not listed.
ListedCovers ==
  \A w \in States : startup[w] = "diff" =>
    Filtered(w) \cap Resources \subseteq listed[w] \cup gone \cup unlisted

\* Requests of an earlier activation do not outlive it.
StartupAlone == \A w \in States : startup[w] # "send" => work[StartupOf(w)] = NoWork

IInv ==
  /\ Typed /\ StagesGone /\ CallsJustified /\ ListedCovers /\ StartupAlone
  /\ NeverBoth /\ DeletesOfGone

LEMMA SeqGrows ==
  ASSUME NEW S, NEW T, S \subseteq T, NEW q \in Seq(S)
  PROVE  q \in Seq(T)
<1>1. q \in [1..Len(q) -> T] /\ Len(q) \in Nat
  OBVIOUS
<1>2. QED
  BY <1>1

LEMMA FirstNewsJustified ==
  ASSUME cluster \in [Resources -> Stages], NEW r \in Resources
  PROVE  FirstNews[r] \in Seq({s \in Stages : s = "deleting" => r \in NotThere})
<1>1. CASE cluster[r] = "absent"
  BY <1>1 DEF FirstNews
<1>2. CASE cluster[r] # "absent"
  <2>1. FirstNews[r] = <<cluster[r]>>
    BY <1>2 DEF FirstNews
  <2>2. cluster[r] \in {s \in Stages : s = "deleting" => r \in NotThere}
    BY DEF NotThere, There
  <2>3. QED
    BY <2>1, <2>2
<1>3. QED
  BY <1>1, <1>2

\* The state of a process that starts, at first and after an exit.
Fresh ==
  /\ cluster \in [Resources -> Stages]
  /\ news = FirstNews /\ seen = AllGone /\ calls = <<>> /\ activeConfigs = NoState
  /\ spec = [w \in States |-> NoSpec] /\ queue = [w \in States |-> <<>>]
  /\ pending = [w \in States |-> Nothing] /\ startup = [w \in States |-> "off"]
  /\ listed = [w \in States |-> {}] /\ work = [j \in Jobs |-> NoWork] /\ gone = NotThere

LEMMA FreshIsInv == Fresh => IInv
<1> SUFFICES ASSUME Fresh PROVE IInv
  OBVIOUS
<1>1. news = [r \in Resources |-> news[r]]
  BY DEF Fresh, FirstNews
<1>2. Typed
  BY <1>1 DEF Fresh, Typed, AllGone, Stages, Nothing, NoWork, Batches, Works
<1>3. StagesGone
  BY FirstNewsJustified DEF Fresh, StagesGone, StagesOf, AllGone, Stages, NotThere, There
<1>4. CallsJustified
  BY DEF Fresh, CallsJustified
<1>5. ListedCovers
  BY DEF Fresh, ListedCovers
<1>6. StartupAlone /\ NeverBoth /\ DeletesOfGone
  BY DEF Fresh, StartupAlone, NeverBoth, DeletesOfGone, Nothing, NoWork, Jobs, FlushOf, StartupOf
<1>7. QED
  BY <1>2, <1>3, <1>4, <1>5, <1>6 DEF IInv

LEMMA InvInit == Init => IInv
BY FreshIsInv DEF Init, Fresh

LEMMA ExitKeeps == IInv /\ Exit => IInv'
<1>1. IInv /\ Exit => Fresh'
  BY DEF IInv, Typed, Exit, Fresh, FirstNews, NotThere, There
<1>2. QED
  BY <1>1, FreshIsInv, PTL

\* What is left alone by everything that is neither an event nor a request.
noEvent == <<cluster, news, seen, calls, queue, gone>>
noRequest == <<startup, listed, work, spec, unlisted>>

LEMMA EventsStay ==
  ASSUME StagesGone, CallsJustified, UNCHANGED noEvent
  PROVE  StagesGone' /\ CallsJustified'
BY DEF noEvent, StagesGone, StagesOf, CallsJustified, Justifiable

LEMMA RequestsStay ==
  ASSUME IInv, UNCHANGED noRequest, UNCHANGED pending, gone \subseteq gone'
  PROVE  ListedCovers' /\ StartupAlone' /\ NeverBoth' /\ DeletesOfGone'
BY DEF IInv, noRequest, ListedCovers, StartupAlone, NeverBoth, DeletesOfGone, Filtered

\* Steps of Reconcile, edits of the config, and status writes.
LEMMA QuietStepKeeps ==
  ASSUME IInv, UNCHANGED noEvent, UNCHANGED noRequest, UNCHANGED pending,
         activeConfigs' \in States \cup {NoState}
  PROVE  IInv'
<1>1. Typed'
  BY DEF IInv, Typed, noEvent, noRequest
<1>2. gone' = gone
  BY DEF noEvent
<1>3. QED
  BY <1>1, <1>2, EventsStay, RequestsStay DEF IInv

LEMMA ChangeKeeps ==
  ASSUME IInv, NEW r \in Resources, NEW s \in Stages, Change(r, s)
  PROVE  IInv'
<1>1. /\ UNCHANGED <<seen, calls, activeConfigs, queue, pending>> /\ UNCHANGED noRequest
      /\ cluster' = [cluster EXCEPT ![r] = s]
      /\ news' = [news EXCEPT ![r] = Append(@, s)]
      /\ gone' = IF s = "there" THEN gone ELSE gone \cup {r}
  BY DEF Change, reconciler, buffer, diff, noRequest
<1>2. gone \subseteq gone' /\ (s # "there" => r \in gone')
  BY <1>1
<1>3. Typed'
  BY <1>1 DEF IInv, Typed, noRequest
<1>4. ASSUME NEW x \in Resources PROVE news'[x] \in Seq(StagesOf(x)')
  <2>1. StagesOf(x) \subseteq StagesOf(x)' /\ (x = r => s \in StagesOf(x)')
    BY <1>2 DEF StagesOf
  <2>2. news[x] \in Seq(StagesOf(x)')
    BY <2>1, SeqGrows DEF IInv, StagesGone
  <2>3. news'[x] = IF x = r THEN Append(news[x], s) ELSE news[x]
    BY <1>1 DEF IInv, Typed
  <2>4. QED
    BY <2>1, <2>2, <2>3
<1>5. StagesGone'
  BY <1>1, <1>2, <1>4 DEF IInv, Typed, StagesGone, StagesOf
<1>6. Justifiable \subseteq Justifiable'
  BY <1>2 DEF Justifiable
<1>7. CallsJustified'
  BY <1>1, <1>6, SeqGrows DEF IInv, CallsJustified
<1>8. QED
  BY <1>1, <1>2, <1>3, <1>5, <1>7, RequestsStay DEF IInv

LEMMA ActivateKeeps ==
  ASSUME IInv, NEW w \in States, Activate(w)
  PROVE  IInv'
<1>1. /\ UNCHANGED noEvent /\ UNCHANGED <<listed, work, pending, unlisted>>
      /\ activeConfigs' = w
      /\ spec' = [spec EXCEPT ![w] = reconcile.seen]
      /\ startup' = [startup EXCEPT ![w] = "list"]
      /\ startup[w] = "off"
  BY DEF Activate, Ended, environment, informer, history, noEvent
<1>2. Typed'
  BY <1>1 DEF IInv, Typed, noEvent
<1>3. StartupAlone' /\ NeverBoth'
  BY <1>1 DEF IInv, Typed, StartupAlone, NeverBoth
<1>4. ASSUME NEW x \in States, x # w
      PROVE  Filtered(x)' = Filtered(x) /\ startup'[x] = startup[x]
  BY <1>1, <1>4 DEF IInv, Typed, Filtered
<1>5. gone' = gone
  BY <1>1 DEF noEvent
<1>6. ListedCovers'
  BY <1>1, <1>4, <1>5 DEF IInv, Typed, ListedCovers
<1>7. ASSUME NEW x \in States
      PROVE  work[StartupOf(x)].deletes \cap Filtered(x)' \subseteq gone \cup unlisted
  <2>1. CASE x = w
    BY <1>1, <2>1 DEF IInv, StartupAlone, NoWork
  <2>2. CASE x # w
    BY <1>4, <2>2 DEF IInv, DeletesOfGone
  <2>3. QED
    BY <2>1, <2>2
<1>8. DeletesOfGone'
  BY <1>1, <1>5, <1>7 DEF IInv, DeletesOfGone, FlushOf, StartupOf
<1>9. QED
  BY <1>1, <1>2, <1>3, <1>6, <1>8, EventsStay DEF IInv

LEMMA ShortSeqs ==
  ASSUME NEW S, NEW a \in S, NEW b \in S
  PROVE  <<>> \in Seq(S) /\ <<a>> \in Seq(S) /\ <<b>> \in Seq(S) /\ <<a, b>> \in Seq(S)
OBVIOUS

LEMMA MapJustified ==
  ASSUME IInv, NEW r \in Resources, NEW new \in StagesOf(r)
  PROVE  mapCRDToRequests(r, new) \in Seq(Justifiable)
<1>1. Call(r, seen[r]) \in Justifiable /\ Call(r, new) \in Justifiable
  BY DEF IInv, StagesGone, StagesOf, Call, Changes, Justifiable
<1>2. mapCRDToRequests(r, new) \in {<<>>, <<Call(r, seen[r])>>, <<Call(r, new)>>,
                                    <<Call(r, seen[r]), Call(r, new)>>}
  BY DEF mapCRDToRequests
<1>3. QED
  BY <1>1, <1>2, ShortSeqs

\* Deliver and Relist: calls are derived from what is already gone.
LEMMA NewsKeeps ==
  ASSUME IInv, NEW r \in Resources, NEW new \in StagesOf(r), NEW rest \in Seq(StagesOf(r)),
         calls' = <<>> \/ calls' = mapCRDToRequests(r, new),
         seen' = [seen EXCEPT ![r] = new], news' = [news EXCEPT ![r] = rest],
         UNCHANGED <<cluster, queue, gone, activeConfigs, pending>>, UNCHANGED noRequest
  PROVE  IInv'
<1>1. <<>> \in Seq(Justifiable)
  OBVIOUS
<1>2. calls' \in Seq(Justifiable)
  BY <1>1, MapJustified
<1>3. Typed'
  BY DEF IInv, Typed, noRequest, StagesOf
<1>4. StagesGone'
  BY DEF IInv, Typed, StagesGone, StagesOf
<1>5. CallsJustified'
  BY <1>2 DEF IInv, CallsJustified, Justifiable
<1>6. QED
  BY <1>3, <1>4, <1>5, RequestsStay DEF IInv

LEMMA DeliverKeeps ==
  ASSUME IInv, NEW r \in Resources, Deliver(r) \/ Relist(r)
  PROVE  IInv'
<1>1. UNCHANGED <<cluster, queue, gone, activeConfigs, pending>> /\ UNCHANGED noRequest
  BY DEF Deliver, Relist, environment, reconciler, buffer, diff, history, noRequest
<1>2. news[r] \in Seq(StagesOf(r)) /\ cluster[r] \in StagesOf(r)
  BY DEF IInv, Typed, StagesGone, StagesOf
<1>3. CASE Deliver(r)
  <2>1. Head(news[r]) \in StagesOf(r) /\ Tail(news[r]) \in Seq(StagesOf(r))
    BY <1>2, <1>3 DEF Deliver
  <2>2. /\ calls' = mapCRDToRequests(r, Head(news[r]))
        /\ seen' = [seen EXCEPT ![r] = Head(news[r])]
        /\ news' = [news EXCEPT ![r] = Tail(news[r])]
    BY <1>3 DEF Deliver
  <2>3. QED
    BY <1>1, <2>1, <2>2, NewsKeeps
<1>4. CASE Relist(r)
  <2>1. /\ calls' = <<>> \/ calls' = mapCRDToRequests(r, cluster[r])
        /\ seen' = [seen EXCEPT ![r] = cluster[r]]
        /\ news' = [news EXCEPT ![r] = <<>>]
    BY <1>4 DEF Relist
  <2>2. <<>> \in Seq(StagesOf(r))
    OBVIOUS
  <2>3. QED
    BY <1>1, <1>2, <2>1, <2>2, NewsKeeps
<1>5. QED
  BY <1>3, <1>4

LEMMA HandleCRDEventKeeps == IInv /\ HandleCRDEvent => IInv'
<1> SUFFICES ASSUME IInv, HandleCRDEvent PROVE IInv'
  OBVIOUS
<1> DEFINE c == Head(calls)
<1>1. /\ UNCHANGED <<cluster, news, seen, activeConfigs, pending, gone>> /\ UNCHANGED noRequest
      /\ calls # <<>> /\ calls' = Tail(calls)
  BY DEF HandleCRDEvent, environment, reconciler, diff, noRequest
<1>2. \/ queue' = queue
      \/ queue' = [queue EXCEPT ![activeConfigs] = Append(@, c)]
  BY DEF HandleCRDEvent
<1>3. c \in Justifiable /\ calls' \in Seq(Justifiable)
  BY <1>1 DEF IInv, CallsJustified
<1> HIDE DEF c
<1>4. Typed'
  BY <1>1, <1>2 DEF IInv, Typed, noRequest
<1>5. StagesGone'
  BY <1>1 DEF IInv, StagesGone, StagesOf
<1>6. ASSUME NEW w \in States PROVE queue'[w] \in Seq(Justifiable)
  <2>1. queue[w] \in Seq(Justifiable) /\ Append(queue[w], c) \in Seq(Justifiable)
    BY <1>3 DEF IInv, CallsJustified
  <2>2. queue'[w] = queue[w] \/ queue'[w] = Append(queue[w], c)
    BY <1>2 DEF IInv, Typed
  <2>3. QED
    BY <2>1, <2>2
<1>7. CallsJustified'
  BY <1>1, <1>3, <1>6 DEF CallsJustified, Justifiable
<1>8. QED
  BY <1>1, <1>4, <1>5, <1>7, RequestsStay DEF IInv

\* record displaces a scan by a delete and never puts one beside it.
LEMMA RecordKeeps ==
  ASSUME NEW p \in Batches, NEW c \in Justifiable, p.scans \cap p.deletes = {},
         p.deletes \subseteq gone
  PROVE  /\ record(p, c) \in Batches
         /\ record(p, c).scans \cap record(p, c).deletes = {}
         /\ record(p, c).deletes \subseteq gone
BY DEF record, Batches, Changes, Justifiable

LEMMA RecvKeeps ==
  ASSUME IInv, NEW w \in States, Recv(w)
  PROVE  IInv'
<1> DEFINE c == Head(queue[w])
           p == record(pending[w], c)
<1>1. /\ UNCHANGED <<cluster, news, seen, calls, activeConfigs, gone>> /\ UNCHANGED noRequest
      /\ queue[w] # <<>> /\ queue' = [queue EXCEPT ![w] = Tail(@)]
      /\ pending' = [pending EXCEPT ![w] = p]
  BY DEF Recv, environment, informer, reconciler, diff, history, noRequest
<1>2. c \in Justifiable /\ Tail(queue[w]) \in Seq(Justifiable)
  BY <1>1 DEF IInv, CallsJustified
<1>3. p \in Batches /\ p.scans \cap p.deletes = {} /\ p.deletes \subseteq gone
  BY <1>2, RecordKeeps DEF IInv, Typed, NeverBoth, DeletesOfGone
<1> HIDE DEF c, p
<1>4. Typed'
  BY <1>1, <1>3 DEF IInv, Typed, noRequest
<1>5. StagesGone'
  BY <1>1 DEF IInv, StagesGone, StagesOf
<1>6. CallsJustified'
  BY <1>1, <1>2 DEF IInv, Typed, CallsJustified, Justifiable
<1>7. ListedCovers' /\ StartupAlone'
  BY <1>1 DEF IInv, ListedCovers, StartupAlone, Filtered, noRequest
<1>8. NeverBoth' /\ DeletesOfGone'
  BY <1>1, <1>3 DEF IInv, Typed, NeverBoth, DeletesOfGone, Filtered, noRequest
<1>9. QED
  BY <1>4, <1>5, <1>6, <1>7, <1>8 DEF IInv

\* A flush takes over the batch that was pending.
LEMMA FlushKeeps ==
  ASSUME IInv, NEW w \in States, Flush(w)
  PROVE  IInv'
<1> DEFINE taken == [scans |-> pending[w].scans, deletes |-> pending[w].deletes, failed |-> FALSE]
<1>1. /\ UNCHANGED noEvent /\ UNCHANGED <<startup, listed, spec, unlisted, activeConfigs>>
      /\ work' = [work EXCEPT ![FlushOf(w)] = taken]
      /\ pending' = [pending EXCEPT ![w] = Nothing]
  BY DEF Flush, environment, informer, reconciler, diff, history, noEvent
<1>2. /\ taken \in Works /\ taken.scans \cap taken.deletes = {} /\ taken.deletes \subseteq gone
      /\ Nothing \in Batches /\ Nothing.scans = {} /\ Nothing.deletes = {}
  BY DEF IInv, Typed, NeverBoth, DeletesOfGone, Batches, Works, Nothing
<1> HIDE DEF taken, Nothing
<1>3. FlushOf(w) \in Jobs /\ \A x \in States : FlushOf(w) # StartupOf(x)
                        /\ (FlushOf(w) = FlushOf(x) => x = w)
  BY DEF FlushOf, StartupOf, Jobs
<1>4. /\ \A x \in States : work'[StartupOf(x)] = work[StartupOf(x)]
      /\ \A j \in Jobs : work'[j] = IF j = FlushOf(w) THEN taken ELSE work[j]
      /\ \A x \in States : pending'[x] = IF x = w THEN Nothing ELSE pending[x]
  BY <1>1, <1>3 DEF IInv, Typed, StartupOf, Jobs
<1>5. Typed'
  BY <1>1, <1>2 DEF IInv, Typed, noEvent
<1>6. ListedCovers' /\ StartupAlone'
  BY <1>1, <1>4 DEF IInv, ListedCovers, StartupAlone, Filtered, noEvent, StartupOf
<1>7. NeverBoth'
  BY <1>2, <1>4 DEF IInv, NeverBoth
<1>8. ASSUME NEW x \in States
      PROVE  /\ pending'[x].deletes \cup work'[FlushOf(x)].deletes \subseteq gone
             /\ work'[StartupOf(x)].deletes \cap Filtered(x)' \subseteq gone \cup unlisted
  <2>1. FlushOf(x) \in Jobs /\ Filtered(x)' = Filtered(x)
    BY <1>1 DEF FlushOf, Jobs, Filtered
  <2>2. QED
    BY <1>2, <1>3, <1>4, <2>1 DEF IInv, DeletesOfGone
<1>9. DeletesOfGone'
  BY <1>1, <1>8 DEF DeletesOfGone, noEvent, FlushOf, StartupOf
<1>10. QED
  BY <1>1, <1>5, <1>6, <1>7, <1>9, EventsStay DEF IInv

\* The last flush is over, or there was nothing to flush: what is queued is lost.
LEMMA ReturnKeeps ==
  ASSUME IInv, NEW w \in States, Return(w)
  PROVE  IInv'
<1>1. /\ UNCHANGED <<cluster, news, seen, calls, activeConfigs, pending, gone>>
      /\ UNCHANGED noRequest /\ queue' = [queue EXCEPT ![w] = <<>>]
  BY DEF Return, environment, informer, reconciler, diff, history, noRequest
<1>2. Typed'
  BY <1>1 DEF IInv, Typed, noRequest
<1>3. StagesGone'
  BY <1>1 DEF IInv, StagesGone, StagesOf
<1>4. CallsJustified'
  BY <1>1, ShortSeqs DEF IInv, Typed, CallsJustified, Justifiable
<1>5. QED
  BY <1>1, <1>2, <1>3, <1>4, RequestsStay DEF IInv

\* While requests are sent, work only shrinks.
LEMMA WorkShrinksKeeps ==
  ASSUME IInv, UNCHANGED <<cluster, news, seen, gone, pending, listed, spec, unlisted>>,
         UNCHANGED activeConfigs, queue' = [w \in States |-> queue'[w]], CallsJustified',
         NEW j \in Jobs, NEW wk \in Works, work' = [work EXCEPT ![j] = wk],
         wk.scans \subseteq work[j].scans, wk.deletes \subseteq work[j].deletes,
         Under(j) \/ wk = NoWork,
         \/ UNCHANGED startup
         \/ wk = NoWork /\ \E w \in States : j = StartupOf(w)
                                            /\ startup' = [startup EXCEPT ![w] = "off"]
  PROVE  IInv'
<1>1. \A i \in Jobs : work'[i] = IF i = j THEN wk ELSE work[i]
  BY DEF IInv, Typed
<1>2. \A w \in States : /\ FlushOf(w) \in Jobs /\ StartupOf(w) \in Jobs
                       /\ \/ startup'[w] = startup[w]
                          \/ startup'[w] = "off" /\ wk = NoWork /\ j = StartupOf(w)
  BY DEF FlushOf, StartupOf, Jobs, IInv, Typed
<1>3. \A i \in Jobs : /\ work'[i].scans \subseteq work[i].scans
                     /\ work'[i].deletes \subseteq work[i].deletes
  BY <1>1
<1>4. StagesGone'
  BY DEF IInv, StagesGone, StagesOf
<1>5. Typed'
  BY DEF IInv, Typed
<1>6. ListedCovers'
  BY <1>2 DEF IInv, ListedCovers, Filtered
<1>7. StartupAlone'
  <2> SUFFICES ASSUME NEW w \in States, startup'[w] # "send" PROVE work'[StartupOf(w)] = NoWork
    BY DEF StartupAlone, StartupOf, NoWork
  <2>1. CASE j = StartupOf(w)
    <3>1. Under(j) => startup[w] = "send"
      BY <2>1 DEF Under, StartupOf
    <3>2. QED
      BY <1>1, <1>2, <2>1, <3>1
  <2>2. CASE j # StartupOf(w)
    BY <1>1, <1>2, <2>2 DEF IInv, StartupAlone
  <2>3. QED
    BY <2>1, <2>2
<1>8. NeverBoth'
  BY <1>3 DEF IInv, NeverBoth
<1>9. DeletesOfGone'
  <2>1. ASSUME NEW w \in States
        PROVE  /\ work'[FlushOf(w)].deletes \subseteq gone
               /\ work'[StartupOf(w)].deletes \cap Filtered(w) \subseteq gone \cup unlisted
    BY <1>2, <1>3 DEF IInv, DeletesOfGone
  <2>2. QED
    BY <2>1 DEF IInv, DeletesOfGone, Filtered, FlushOf, StartupOf
<1>10. QED
  BY <1>4, <1>5, <1>6, <1>7, <1>8, <1>9 DEF IInv

LEMMA EndFlushKeeps ==
  ASSUME IInv, NEW w \in States, EndFlush(w)
  PROVE  IInv'
<1>1. /\ UNCHANGED <<cluster, news, seen, calls, gone, pending, listed, spec, unlisted>>
      /\ UNCHANGED activeConfigs /\ UNCHANGED startup
      /\ work' = [work EXCEPT ![FlushOf(w)] = NoWork]
      /\ queue' = [queue EXCEPT ![w] = IF loop[w] = "final" THEN <<>> ELSE @]
  BY DEF EndFlush, environment, informer, reconciler, diff, history
<1>2. FlushOf(w) \in Jobs /\ NoWork \in Works /\ NoWork.scans = {} /\ NoWork.deletes = {}
  BY DEF FlushOf, Jobs, NoWork, Works
<1>3. queue' = [x \in States |-> queue'[x]]
  BY <1>1 DEF IInv, Typed
<1>4. CallsJustified'
  BY <1>1, ShortSeqs DEF IInv, Typed, CallsJustified, Justifiable
<1>5. NoWork.scans \subseteq work[FlushOf(w)].scans /\ NoWork.deletes \subseteq work[FlushOf(w)].deletes
  BY <1>2
<1>6. QED
  BY <1>1, <1>2, <1>3, <1>4, <1>5, WorkShrinksKeeps

LEMMA EndStartupKeeps ==
  ASSUME IInv, NEW w \in States, EndStartup(w)
  PROVE  IInv'
<1>1. /\ UNCHANGED <<cluster, news, seen, calls, gone, pending, listed, spec, unlisted>>
      /\ UNCHANGED activeConfigs /\ UNCHANGED queue
      /\ work' = [work EXCEPT ![StartupOf(w)] = NoWork]
      /\ startup' = [startup EXCEPT ![w] = "off"]
  BY DEF EndStartup, environment, informer, reconciler, buffer, history
<1>2. StartupOf(w) \in Jobs /\ NoWork \in Works /\ NoWork.scans = {} /\ NoWork.deletes = {}
  BY DEF StartupOf, Jobs, NoWork, Works
<1>3. queue' = [x \in States |-> queue'[x]] /\ CallsJustified'
  BY <1>1 DEF IInv, Typed, CallsJustified, Justifiable
<1>4. NoWork.scans \subseteq work[StartupOf(w)].scans /\ NoWork.deletes \subseteq work[StartupOf(w)].deletes
  BY <1>2
<1>5. QED
  BY <1>1, <1>2, <1>3, <1>4, WorkShrinksKeeps

Sends(j) ==
  \/ ScanOk(j) \/ (\E S \in SUBSET Resources : ScanFails(j, S) \/ ScanRetries(j, S))
  \/ \E r \in Resources : DeleteOk(j, r) \/ DeleteFails(j, r) \/ DeleteRetries(j, r)

LEMMA SendsKeeps ==
  ASSUME IInv, NEW j \in Jobs, Sends(j)
  PROVE  IInv'
<1>1. /\ Under(j) /\ UNCHANGED noEvent
      /\ UNCHANGED <<pending, listed, spec, unlisted, activeConfigs, startup>>
  BY DEF Sends, ScanOk, ScanFails, ScanRetries, DeleteOk, DeleteFails, DeleteRetries, environment,
         informer, reconciler, buffer, diff, history, noEvent
<1>2. PICK wk \in Works : /\ work' = [work EXCEPT ![j] = wk]
                         /\ wk.scans \subseteq work[j].scans /\ wk.deletes \subseteq work[j].deletes
  <2>1. work \in [Jobs -> Works]
    BY DEF IInv, Typed
  <2>2. CASE UNCHANGED work
    BY <2>1, <2>2
  <2> DEFINE scanned == [work[j] EXCEPT !.scans = {}]
             failed  == [work[j] EXCEPT !.scans = {}, !.failed = TRUE]
  <2>3. /\ scanned \in Works /\ scanned.scans = {} /\ scanned.deletes = work[j].deletes
        /\ failed \in Works /\ failed.scans = {} /\ failed.deletes = work[j].deletes
    BY <2>1 DEF Works
  <2>4. CASE work' = ScanDone(j)
    <3>1. work' = [work EXCEPT ![j] = scanned]
      BY <2>1, <2>4 DEF ScanDone
    <3> HIDE DEF scanned, failed
    <3>2. QED
      BY <2>3, <3>1
  <2>5. CASE work' = AsFailed(j, ScanDone(j))
    <3>1. work' = [work EXCEPT ![j] = failed]
      BY <2>1, <2>5 DEF AsFailed, ScanDone, Works
    <3> HIDE DEF scanned, failed
    <3>2. QED
      BY <2>3, <3>1
  <2>6. CASE \E r \in Resources : work' = DeleteDone(j, r) \/ work' = AsFailed(j, DeleteDone(j, r))
    BY <2>1, <2>6 DEF AsFailed, DeleteDone, Works
  <2>7. QED
    BY <2>2, <2>4, <2>5, <2>6
       DEF Sends, ScanOk, ScanFails, ScanRetries, DeleteOk, DeleteFails, DeleteRetries
<1>3. queue' = [x \in States |-> queue'[x]] /\ CallsJustified'
  BY <1>1, EventsStay DEF IInv, Typed, noEvent
<1>4. /\ UNCHANGED <<cluster, news, seen, gone, pending, listed, spec, unlisted>>
      /\ UNCHANGED activeConfigs /\ UNCHANGED startup
  BY <1>1 DEF noEvent
<1>5. QED
  BY <1>1, <1>2, <1>3, <1>4, WorkShrinksKeeps

LEMMA ListClusterKeeps ==
  ASSUME IInv, NEW w \in States, NEW S \in SUBSET Resources, ListCluster(w, S)
  PROVE  IInv'
<1>1. /\ UNCHANGED noEvent /\ UNCHANGED <<pending, work, spec, activeConfigs>>
      /\ unlisted' = unlisted \cup ((Present \ S) \cap Filtered(w))
      /\ listed' = [listed EXCEPT ![w] = S \cap Filtered(w)]
      /\ startup[w] = "list" /\ startup' = [startup EXCEPT ![w] = "diff"]
  BY DEF ListCluster, environment, informer, reconciler, buffer, history, noEvent
<1>2. gone' = gone /\ \A r \in Resources : r \notin Present => r \in gone
  BY <1>1 DEF IInv, StagesGone, Present, noEvent
<1>3. \A x \in States : Filtered(x)' = Filtered(x)
  BY <1>1 DEF Filtered
<1>4. Typed'
  BY <1>1 DEF IInv, Typed, noEvent
<1>5. ListedCovers'
  <2> SUFFICES ASSUME NEW x \in States, startup'[x] = "diff"
               PROVE  Filtered(x) \cap Resources \subseteq listed'[x] \cup gone \cup unlisted'
    BY <1>2, <1>3 DEF ListedCovers
  <2>1. CASE x = w
    <3>1. listed'[w] = S \cap Filtered(w)
      BY <1>1 DEF IInv, Typed
    <3>2. QED
      BY <1>1, <1>2, <2>1, <3>1
  <2>2. CASE x # w
    BY <1>1, <2>2 DEF IInv, Typed, ListedCovers
  <2>3. QED
    BY <2>1, <2>2
<1>6. StartupAlone' /\ NeverBoth'
  BY <1>1 DEF IInv, Typed, StartupAlone, NeverBoth, StartupOf, NoWork
<1>7. DeletesOfGone'
  BY <1>1, <1>2, <1>3 DEF IInv, DeletesOfGone, StartupOf, FlushOf
<1>8. QED
  BY <1>1, <1>4, <1>5, <1>6, <1>7, EventsStay DEF IInv

LEMMA ListFailsKeeps ==
  ASSUME IInv, NEW w \in States, ListFails(w)
  PROVE  IInv'
<1>1. /\ UNCHANGED noEvent /\ UNCHANGED <<pending, work, spec, activeConfigs, unlisted>>
      /\ listed' = [listed EXCEPT ![w] = {}] /\ startup[w] # "send"
      /\ startup' = [startup EXCEPT ![w] = "off"]
  BY DEF ListFails, environment, informer, reconciler, buffer, noEvent
<1>2. Typed'
  BY <1>1 DEF IInv, Typed, noEvent
<1>3. ListedCovers'
  BY <1>1 DEF IInv, Typed, ListedCovers, Filtered, noEvent
<1>4. StartupAlone' /\ NeverBoth'
  BY <1>1 DEF IInv, Typed, StartupAlone, NeverBoth, StartupOf, NoWork
<1>5. DeletesOfGone'
  BY <1>1 DEF IInv, DeletesOfGone, StartupOf, FlushOf, Filtered, noEvent
<1>6. QED
  BY <1>1, <1>2, <1>3, <1>4, <1>5, EventsStay DEF IInv

\* The diff deletes what MCP has and the list lacks.
LEMMA ListMCPKeeps ==
  ASSUME IInv, NEW w \in States, ListMCP(w), MCPTyped
  PROVE  IInv'
<1> DEFINE d == computeCapabilityDiff(listed[w], mcp)
<1>1. /\ UNCHANGED noEvent /\ UNCHANGED <<pending, spec, activeConfigs, unlisted>>
      /\ startup[w] = "diff" /\ startup' = [startup EXCEPT ![w] = "send"]
      /\ work' = [work EXCEPT ![StartupOf(w)] = d]
      /\ listed' = [listed EXCEPT ![w] = {}]
  BY DEF ListMCP, environment, informer, reconciler, buffer, history, noEvent
<1>2. d \in Works /\ d.scans \cap d.deletes = {}
  BY DEF computeCapabilityDiff, Works, IInv, Typed, MCPTyped
<1>3. d.deletes \cap Filtered(w) \subseteq gone \cup unlisted
  BY <1>1 DEF computeCapabilityDiff, IInv, ListedCovers, MCPTyped
<1> HIDE DEF d
<1>4. /\ \A x \in States : /\ work'[FlushOf(x)] = work[FlushOf(x)]
                           /\ x = w => work'[StartupOf(x)] = d
                           /\ x # w => work'[StartupOf(x)] = work[StartupOf(x)]
      /\ \A j \in Jobs : work'[j] = d \/ work'[j] = work[j]
  <2>1. \A j \in Jobs : work'[j] = IF j = StartupOf(w) THEN d ELSE work[j]
    BY <1>1 DEF IInv, Typed
  <2>2. QED
    BY <2>1 DEF FlushOf, StartupOf, Jobs
<1>5. Typed'
  BY <1>1, <1>2 DEF IInv, Typed, noEvent
<1>6. ListedCovers'
  BY <1>1 DEF IInv, Typed, ListedCovers, Filtered, noEvent
<1>7. StartupAlone'
  BY <1>1, <1>4 DEF IInv, Typed, StartupAlone, StartupOf, NoWork
<1>8. NeverBoth'
  BY <1>1, <1>2, <1>4 DEF IInv, NeverBoth
<1>9. DeletesOfGone'
  BY <1>1, <1>3, <1>4 DEF IInv, DeletesOfGone, StartupOf, FlushOf, Filtered, noEvent
<1>10. QED
  BY <1>1, <1>5, <1>6, <1>7, <1>8, <1>9, EventsStay DEF IInv
-----------------------------------------------------------------------------
LEMMA MCPTypedNext == IInv /\ MCPTyped /\ [Next]_vars => MCPTyped'
<1> SUFFICES ASSUME IInv, MCPTyped, [Next]_vars PROVE MCPTyped'
  OBVIOUS
<1>1. CASE \E j \in Jobs : Sends(j)
  <2>1. PICK j \in Jobs : Sends(j)
    BY <1>1
  <2>2. work[j].scans \subseteq Resources
    BY DEF IInv, Typed, Works
  <2>3. QED
    BY <2>1, <2>2 DEF Sends, ScanOk, ScanFails, ScanRetries, DeleteOk, DeleteFails, DeleteRetries,
                      MCPTyped, external
<1>2. CASE UNCHANGED external
  BY <1>2 DEF MCPTyped, external
<1>3. \A w \in States : FlushOf(w) \in Jobs /\ StartupOf(w) \in Jobs
  BY DEF FlushOf, StartupOf, Jobs
<1>4. \A j \in Jobs : Answer(j) \/ Retry(j) => Sends(j)
  BY DEF Answer, Retry, Sends
<1>5. CASE Environment
  BY <1>2, <1>5 DEF Environment, Change, Edit, Exit
<1>6. CASE Reconcile \/ HandleCRDEvent \/ \E r \in Resources : Deliver(r) \/ Relist(r)
  BY <1>2, <1>6 DEF Reconcile, ReconcileDeleted, ReconcileChanged, ReconcileNew, Activate,
                    ReconcileReports, HandleCRDEvent, Deliver, Relist
<1>7. CASE \E w \in States : Buffer(w)
  BY <1>1, <1>2, <1>3, <1>4, <1>7 DEF Buffer, Recv, Flush, Return, EndFlush
<1>8. CASE \E w \in States : Startup(w)
  BY <1>1, <1>2, <1>3, <1>4, <1>8 DEF Startup, ListCluster, ListFails, ListMCP, EndStartup
<1>9. CASE \E j \in Jobs : Retry(j)
  BY <1>1, <1>4, <1>9
<1>10. CASE UNCHANGED vars
  BY <1>2, <1>10 DEF vars
<1>11. CASE \E r \in Resources : Analyse(r) \/ AnalysisFails(r)
  BY <1>11 DEF Analyse, AnalysisFails, MCPTyped
<1>12. QED
  BY <1>5, <1>6, <1>7, <1>8, <1>9, <1>10, <1>11 DEF Next, System

LEMMA ReconcileKeeps == IInv /\ Reconcile => IInv'
<1> SUFFICES ASSUME IInv, Reconcile PROVE IInv'
  OBVIOUS
<1>1. CASE \E w \in States : Activate(w)
  BY <1>1, ActivateKeeps
<1>2. CASE ReconcileDeleted \/ ReconcileChanged \/ ReconcileNew \/ ReconcileReports
  <2>1. UNCHANGED noEvent /\ UNCHANGED noRequest /\ UNCHANGED pending
    BY <1>2 DEF ReconcileDeleted, ReconcileChanged, ReconcileNew, ReconcileReports, environment,
                informer, buffer, diff, history, noEvent, noRequest
  <2>2. activeConfigs' \in States \cup {NoState}
    BY <1>2 DEF ReconcileDeleted, ReconcileChanged, ReconcileNew, ReconcileReports, removeConfig,
                IInv, Typed
  <2>3. QED
    BY <2>1, <2>2, QuietStepKeeps
<1>3. QED
  BY <1>1, <1>2 DEF Reconcile

LEMMA EnvironmentKeeps == IInv /\ Environment => IInv'
<1> SUFFICES ASSUME IInv, Environment PROVE IInv'
  OBVIOUS
<1>1. CASE \E r \in Resources, s \in Stages : Change(r, s)
  BY <1>1, ChangeKeeps
<1>2. CASE \E s \in Specs \cup {NoSpec} : Edit(s)
  <2>1. UNCHANGED noEvent /\ UNCHANGED noRequest /\ UNCHANGED pending /\ UNCHANGED activeConfigs
    BY <1>2 DEF Edit, informer, reconciler, buffer, diff, history, noEvent, noRequest
  <2>2. QED
    BY <2>1, QuietStepKeeps DEF IInv, Typed
<1>3. CASE Exit
  BY <1>3, ExitKeeps
<1>4. QED
  BY <1>1, <1>2, <1>3 DEF Environment

LEMMA InvNext == IInv /\ MCPTyped /\ [Next]_vars => IInv'
<1> SUFFICES ASSUME IInv, MCPTyped, [Next]_vars PROVE IInv'
  OBVIOUS
<1>1. \A w \in States : FlushOf(w) \in Jobs /\ StartupOf(w) \in Jobs
  BY DEF FlushOf, StartupOf, Jobs
<1>2. \A j \in Jobs : Answer(j) \/ Retry(j) => Sends(j)
  BY DEF Answer, Retry, Sends
<1>3. CASE Environment \/ Reconcile \/ HandleCRDEvent
  BY <1>3, EnvironmentKeeps, ReconcileKeeps, HandleCRDEventKeeps
<1>4. CASE \E r \in Resources : Deliver(r) \/ Relist(r)
  BY <1>4, DeliverKeeps
<1>5. CASE \E w \in States : Buffer(w)
  BY <1>1, <1>2, <1>5, RecvKeeps, FlushKeeps, ReturnKeeps, EndFlushKeeps, SendsKeeps DEF Buffer
<1>6. CASE \E w \in States : Startup(w)
  BY <1>1, <1>2, <1>6, ListClusterKeeps, ListFailsKeeps, ListMCPKeeps, EndStartupKeeps, SendsKeeps
     DEF Startup
<1>7. CASE \E j \in Jobs : Retry(j)
  BY <1>2, <1>7, SendsKeeps
<1>8. CASE UNCHANGED vars
  <2>1. UNCHANGED noEvent /\ UNCHANGED noRequest /\ UNCHANGED pending /\ UNCHANGED activeConfigs
    BY <1>8 DEF vars, environment, informer, reconciler, buffer, diff, history, noEvent, noRequest
  <2>2. QED
    BY <2>1, QuietStepKeeps DEF IInv, Typed
<1>9. CASE \E r \in Resources : Analyse(r) \/ AnalysisFails(r)
  <2>1. UNCHANGED noEvent /\ UNCHANGED noRequest /\ UNCHANGED pending /\ UNCHANGED activeConfigs
    BY <1>9 DEF Analyse, AnalysisFails, environment, informer, reconciler, buffer, diff, noEvent,
                noRequest
  <2>2. QED
    BY <2>1, QuietStepKeeps DEF IInv, Typed
<1>10. QED
  BY <1>3, <1>4, <1>5, <1>6, <1>7, <1>8, <1>9 DEF Next, System

LEMMA InvHolds == Safety => [](IInv /\ MCPTyped)
<1>1. Init => IInv /\ MCPTyped
  BY InvInit DEF Init, MCPTyped
<1>2. QED
  BY <1>1, InvNext, MCPTypedNext, PTL DEF Safety

\* A capability is never deleted, or chosen for deletion, unless its resource was
\* deleted or missing at some time while the process ran, or (for the startup diff) the
\* filters exclude it or a listing left it out: whatever the order in which the queue,
\* the batches, restarts and activations pass a deletion on.  Nor does a batch scan what
\* it deletes, in whatever order the changes were recorded.
THEOREM DeletesAreJustified == Safety => []DeletesJustified
BY InvHolds, PTL DEF IInv, DeletesJustified
-----------------------------------------------------------------------------
(* Types and the status.                                                    *)

ReconcilerTyped ==
  /\ config \in Specs \cup {NoSpec} /\ events \in 0..MaxEvents
  /\ reconcile \in [step : {"idle", "start", "report"}, seen : Specs \cup {NoSpec}]
  /\ spec \in [States -> Specs \cup {NoSpec}] /\ cancelled \in [States -> BOOLEAN]

QueuesBounded ==
  /\ calls \in Seq(Changes) /\ Len(calls) <= 2
  /\ \A w \in States : queue[w] \in Seq(Changes) /\ Len(queue[w]) <= BufferSize

\* Requests of a flush do not outlive it.
FlushAlone == \A w \in States : loop[w] \notin {"flush", "final"} => work[FlushOf(w)] = NoWork

LoopsTyped == loop \in [States -> {"off", "select", "flush", "final"}] /\ FlushAlone

HistoryTyped == gone \subseteq Resources /\ unlisted \subseteq Resources /\ excused \subseteq Resources

StatusOK == status \in [ready : BOOLEAN, lastError : BOOLEAN] /\ ReadyIsClean

\* A step that nobody but the requests, the goroutines and the informer takes.
Elsewhere ==
  \/ HandleCRDEvent
  \/ \E r \in Resources : Deliver(r) \/ Relist(r) \/ Analyse(r) \/ AnalysisFails(r)
  \/ \E w \in States : \/ Recv(w) \/ Flush(w) \/ Return(w) \/ EndFlush(w)
                       \/ (\E S \in SUBSET Resources : ListCluster(w, S)) \/ ListFails(w)
                       \/ ListMCP(w) \/ EndStartup(w)
  \/ \E j \in Jobs : Sends(j)

LEMMA StepsSorted == Next => Environment \/ Reconcile \/ Elsewhere
<1>1. \A w \in States : FlushOf(w) \in Jobs /\ StartupOf(w) \in Jobs
  BY DEF FlushOf, StartupOf, Jobs
<1>2. \A j \in Jobs : Answer(j) \/ Retry(j) => Sends(j)
  BY DEF Answer, Retry, Sends
<1>3. QED
  BY <1>1, <1>2 DEF Next, System, Buffer, Startup, Elsewhere

LEMMA ReconcilerKept == Elsewhere => UNCHANGED <<config, events, reconcile, spec, cancelled>>
BY DEF Elsewhere, HandleCRDEvent, Deliver, Relist, Recv, Flush, Return, EndFlush, ListCluster,
       ListFails, ListMCP, EndStartup, Sends, ScanOk, ScanFails, ScanRetries, DeleteOk, DeleteFails,
       DeleteRetries, Analyse, AnalysisFails, environment, reconciler

LEMMA ReconcilerTypedNext == ReconcilerTyped /\ [Next]_vars => ReconcilerTyped'
<1> SUFFICES ASSUME ReconcilerTyped, [Next]_vars PROVE ReconcilerTyped'
  OBVIOUS
<1>1. CASE UNCHANGED <<config, events, reconcile, spec, cancelled>>
  BY <1>1 DEF ReconcilerTyped
<1>2. CASE Environment
  <2>1. events < MaxEvents /\ events' = events + 1
    BY <1>2 DEF Environment, Change, Edit, Exit, Event
  <2>2. events' \in 0..MaxEvents
    BY <2>1, ConstantsOK DEF ReconcilerTyped
  <2>3. config' \in Specs \cup {NoSpec}
    BY <1>2 DEF Environment, Change, Edit, Exit, ReconcilerTyped
  <2>4. CASE UNCHANGED <<reconcile, spec, cancelled>>
    BY <2>2, <2>3, <2>4 DEF ReconcilerTyped
  <2>5. CASE Exit
    BY <2>2, <2>3, <2>5 DEF Exit, Idle, ReconcilerTyped
  <2>6. QED
    BY <1>2, <2>4, <2>5 DEF Environment, Change, Edit, reconciler
<1>3. CASE Reconcile
  <2>1. UNCHANGED <<config, events>>
    BY <1>3 DEF Reconcile, ReconcileDeleted, ReconcileChanged, ReconcileNew, ReconcileReports,
                Activate, environment
  <2>2. cancelled' \in [States -> BOOLEAN]
    BY <1>3 DEF Reconcile, ReconcileDeleted, ReconcileChanged, ReconcileNew, ReconcileReports,
                Activate, removeConfig, ReconcilerTyped
  <2>3. spec' \in [States -> Specs \cup {NoSpec}]
    BY <1>3 DEF Reconcile, ReconcileDeleted, ReconcileChanged, ReconcileNew, ReconcileReports,
                Activate, ReconcilerTyped
  <2>4. \/ reconcile' \in {reconcile, Idle, [step |-> "start", seen |-> config]}
        \/ reconcile' = [reconcile EXCEPT !.step = "report"]
    BY <1>3 DEF Reconcile, ReconcileDeleted, ReconcileChanged, ReconcileNew, ReconcileReports,
                Activate
  <2>5. reconcile' \in [step : {"idle", "start", "report"}, seen : Specs \cup {NoSpec}]
    BY <2>4 DEF Idle, ReconcilerTyped
  <2>6. QED
    BY <2>1, <2>2, <2>3, <2>5 DEF ReconcilerTyped
<1>4. QED
  BY <1>1, <1>2, <1>3, StepsSorted, ReconcilerKept DEF vars, environment, reconciler

LEMMA ShortLengths ==
  ASSUME NEW a, NEW b
  PROVE  Len(<<>>) <= 2 /\ Len(<<a>>) <= 2 /\ Len(<<b>>) <= 2 /\ Len(<<a, b>>) <= 2
OBVIOUS

\* At most two calls come of an event.
LEMMA FewCalls ==
  ASSUME IInv, NEW r \in Resources, NEW new \in StagesOf(r)
  PROVE  Len(mapCRDToRequests(r, new)) <= 2
<1> DEFINE a == Call(r, seen[r])
           b == Call(r, new)
<1>1. mapCRDToRequests(r, new) \in {<<>>, <<a>>, <<b>>, <<a, b>>}
  BY DEF mapCRDToRequests
<1> HIDE DEF a, b
<1>2. QED
  BY <1>1, ShortLengths

LEMMA QueuesBoundedNext == IInv /\ QueuesBounded /\ IInv' /\ [Next]_vars => QueuesBounded'
<1> SUFFICES ASSUME IInv, QueuesBounded, IInv', [Next]_vars PROVE QueuesBounded'
  OBVIOUS
<1>0. calls' \in Seq(Changes) /\ \A w \in States : queue'[w] \in Seq(Changes)
  <2>1. Justifiable' \subseteq Changes
    BY DEF Justifiable
  <2>2. QED
    BY <2>1, SeqGrows DEF IInv, CallsJustified
<1>1. CASE UNCHANGED <<calls, queue>>
  BY <1>1 DEF QueuesBounded
<1>2. CASE \E r \in Resources : Deliver(r) \/ Relist(r)
  <2>1. PICK r \in Resources : Deliver(r) \/ Relist(r)
    BY <1>2
  <2>2. queue' = queue
    BY <2>1 DEF Deliver, Relist, buffer
  <2>3. news[r] \in Seq(StagesOf(r)) /\ cluster[r] \in StagesOf(r)
    BY DEF IInv, Typed, StagesGone, StagesOf
  <2>4. CASE Deliver(r)
    <3>1. Head(news[r]) \in StagesOf(r) /\ calls' = mapCRDToRequests(r, Head(news[r]))
      BY <2>3, <2>4 DEF Deliver
    <3>2. QED
      BY <1>0, <2>2, <3>1, FewCalls DEF QueuesBounded
  <2>5. CASE Relist(r)
    <3>1. calls' = <<>> \/ calls' = mapCRDToRequests(r, cluster[r])
      BY <2>5 DEF Relist
    <3>2. Len(calls') <= 2
      BY <2>3, <3>1, FewCalls
    <3>3. QED
      BY <1>0, <2>2, <3>2 DEF QueuesBounded
  <2>6. QED
    BY <2>1, <2>4, <2>5
<1>3. CASE HandleCRDEvent
  <2>1. calls # <<>> /\ calls' = Tail(calls)
    BY <1>3 DEF HandleCRDEvent
  <2>2. Len(calls') <= 2
    BY <2>1 DEF QueuesBounded
  <2> DEFINE w == activeConfigs
             c == Head(calls)
  <2>3. \/ queue' = queue
        \/ Len(queue[w]) # BufferSize /\ queue' = [queue EXCEPT ![w] = Append(@, c)]
    BY <1>3 DEF HandleCRDEvent
  <2> HIDE DEF w, c
  <2>4. ASSUME NEW x \in States
        PROVE  Len(queue'[x]) <= BufferSize
    <3>1. queue[x] \in Seq(Changes) /\ Len(queue[x]) <= BufferSize
      BY DEF QueuesBounded
    <3>2. CASE queue'[x] = queue[x]
      BY <3>1, <3>2
    <3>3. CASE Len(queue[x]) # BufferSize /\ queue'[x] = Append(queue[x], c)
      BY <3>1, <3>3, ConstantsOK
    <3>4. QED
      BY <2>3, <3>2, <3>3 DEF IInv, Typed
  <2>5. QED
    BY <1>0, <2>2, <2>4 DEF QueuesBounded
<1>4. CASE \E w \in States : Recv(w) \/ Return(w) \/ EndFlush(w)
  <2>1. PICK w \in States : Recv(w) \/ Return(w) \/ EndFlush(w)
    BY <1>4
  <2>2. calls' = calls
    BY <2>1 DEF Recv, Return, EndFlush, informer
  <2>3. \/ queue[w] # <<>> /\ queue' = [queue EXCEPT ![w] = Tail(@)]
        \/ queue' = [queue EXCEPT ![w] = <<>>]
        \/ queue' = [queue EXCEPT ![w] = @]
    BY <2>1 DEF Recv, Return, EndFlush
  <2>4. ASSUME NEW x \in States
        PROVE  Len(queue'[x]) <= BufferSize
    <3>1. queue[x] \in Seq(Changes) /\ Len(queue[x]) <= BufferSize
      BY DEF QueuesBounded
    <3>2. CASE queue'[x] = queue[x]
      BY <3>1, <3>2
    <3>3. CASE queue[x] # <<>> /\ queue'[x] = Tail(queue[x])
      BY <3>1, <3>3, ConstantsOK
    <3>4. CASE queue'[x] = <<>>
      BY <3>4, ConstantsOK
    <3>5. QED
      BY <2>3, <3>2, <3>3, <3>4 DEF IInv, Typed
  <2>5. QED
    BY <1>0, <2>2, <2>4 DEF QueuesBounded
<1>5. CASE Exit
  BY <1>0, <1>5, ConstantsOK DEF Exit, QueuesBounded
<1>6. CASE Environment /\ ~Exit
  BY <1>1, <1>0, <1>6 DEF Environment, Change, Edit, informer, buffer
<1>7. CASE Reconcile
  BY <1>1, <1>7 DEF Reconcile, ReconcileDeleted, ReconcileChanged, ReconcileNew, ReconcileReports,
                    Activate, informer, buffer
<1>8. CASE Elsewhere
  BY <1>1, <1>2, <1>3, <1>4, <1>8
  DEF Elsewhere, Flush, ListCluster, ListFails, ListMCP, EndStartup, Sends, ScanOk, ScanFails,
      ScanRetries, DeleteOk, DeleteFails, DeleteRetries, Analyse, AnalysisFails, informer, buffer
<1>9. QED
  BY <1>1, <1>5, <1>6, <1>7, <1>8, StepsSorted DEF vars, informer, buffer

\* The requests of a flush change only by its own, by its beginning and its end.
LEMMA FlushWorkMoves ==
  ASSUME IInv, Elsewhere, NEW w \in States
  PROVE  \/ work'[FlushOf(w)] = work[FlushOf(w)]
         \/ Under(FlushOf(w)) /\ loop'[w] = loop[w]
         \/ Flush(w) \/ EndFlush(w)
<1> DEFINE f == FlushOf(w)
<1>1. f \in Jobs /\ \A x \in States : f # StartupOf(x) /\ (f = FlushOf(x) => x = w)
  BY DEF FlushOf, StartupOf, Jobs
<1>2. work \in [Jobs -> Works]
  BY DEF IInv, Typed
<1>3. CASE \E j \in Jobs : Sends(j)
  <2>1. PICK j \in Jobs : Sends(j)
    BY <1>3
  <2>2. Under(j) /\ loop' = loop
    BY <2>1 DEF Sends, ScanOk, ScanFails, ScanRetries, DeleteOk, DeleteFails, DeleteRetries, buffer
  <2>3. CASE j = f
    BY <2>2, <2>3
  <2>4. CASE j # f
    <3> HIDE DEF f
    <3>1. \/ work' = work \/ work' = ScanDone(j) \/ work' = AsFailed(j, ScanDone(j))
          \/ \E r \in Resources : work' = DeleteDone(j, r) \/ work' = AsFailed(j, DeleteDone(j, r))
      BY <2>1 DEF Sends, ScanOk, ScanFails, ScanRetries, DeleteOk, DeleteFails, DeleteRetries
    <3>2. work'[f] = work[f]
      BY <1>1, <1>2, <2>4, <3>1 DEF ScanDone, AsFailed, DeleteDone
    <3>3. QED
      BY <3>2 DEF f
  <2>5. QED
    BY <2>3, <2>4
<1>4. CASE \E x \in States : (Flush(x) \/ EndFlush(x)) /\ x # w
  <2> HIDE DEF f
  <2>1. work'[f] = work[f]
    BY <1>1, <1>2, <1>4 DEF Flush, EndFlush
  <2>2. QED
    BY <2>1 DEF f
<1>5. CASE \E x \in States : ListMCP(x) \/ EndStartup(x)
  <2> HIDE DEF f
  <2>1. work'[f] = work[f]
    BY <1>1, <1>2, <1>5 DEF ListMCP, EndStartup
  <2>2. QED
    BY <2>1 DEF f
<1>6. CASE \/ HandleCRDEvent
           \/ \E r \in Resources : Deliver(r) \/ Relist(r) \/ Analyse(r) \/ AnalysisFails(r)
           \/ \E x \in States : \/ Recv(x) \/ Return(x) \/ ListFails(x)
                                \/ \E S \in SUBSET Resources : ListCluster(x, S)
  BY <1>6 DEF HandleCRDEvent, Deliver, Relist, Analyse, AnalysisFails, Recv, Return, ListCluster,
              ListFails
<1>7. QED
  BY <1>3, <1>4, <1>5, <1>6 DEF Elsewhere

\* A loop is left by its own steps only.
LEMMA LoopMoves ==
  ASSUME LoopsTyped, Elsewhere
  PROVE  /\ loop' \in [States -> {"off", "select", "flush", "final"}]
         /\ \A w \in States :
              \/ loop'[w] = loop[w] \/ Flush(w) \/ EndFlush(w)
              \/ loop[w] = "select" /\ loop'[w] = "off"
<1>1. CASE loop' = loop
  BY <1>1 DEF LoopsTyped
<1>2. CASE \E w \in States : Flush(w) \/ EndFlush(w) \/ Return(w)
  BY <1>2 DEF Flush, EndFlush, Return, LoopsTyped
<1>3. QED
  BY <1>1, <1>2
  DEF Elsewhere, HandleCRDEvent, Deliver, Relist, Recv, ListCluster, ListFails, ListMCP, EndStartup,
      Sends, ScanOk, ScanFails, ScanRetries, DeleteOk, DeleteFails, DeleteRetries, Analyse,
      AnalysisFails, buffer

LEMMA LoopsTypedNext == IInv /\ LoopsTyped /\ [Next]_vars => LoopsTyped'
<1> SUFFICES ASSUME IInv, LoopsTyped, [Next]_vars PROVE LoopsTyped'
  OBVIOUS
<1>1. CASE UNCHANGED <<loop, work>>
  BY <1>1 DEF LoopsTyped, FlushAlone, FlushOf, NoWork
<1>2. CASE Exit
  BY <1>2 DEF Exit, LoopsTyped, FlushAlone, FlushOf, NoWork, Jobs
<1>3. CASE \E w \in States : Activate(w)
  <2>1. PICK w \in States : /\ loop[w] = "off" /\ loop' = [loop EXCEPT ![w] = "select"]
                           /\ work' = work
    BY <1>3 DEF Activate, Ended
  <2>2. QED
    BY <2>1 DEF LoopsTyped, FlushAlone, FlushOf, NoWork
<1>4. CASE Elsewhere
  <2>1. ASSUME NEW w \in States, loop'[w] \notin {"flush", "final"}
        PROVE  work'[FlushOf(w)] = NoWork
    <3>1. FlushOf(w) \in Jobs /\ work \in [Jobs -> Works]
      BY DEF FlushOf, Jobs, IInv, Typed
    <3>2. CASE EndFlush(w)
      BY <3>1, <3>2 DEF EndFlush
    <3>3. CASE Flush(w)
      BY <2>1, <3>3 DEF Flush, LoopsTyped
    <3>4. CASE ~EndFlush(w) /\ ~Flush(w)
      <4>1. loop[w] \notin {"flush", "final"}
        BY <1>4, <2>1, <3>4, LoopMoves
      <4>2. ~Under(FlushOf(w)) /\ work[FlushOf(w)] = NoWork
        BY <4>1 DEF Under, FlushOf, LoopsTyped, FlushAlone
      <4>3. QED
        BY <1>4, <3>4, <4>2, FlushWorkMoves
    <3>5. QED
      BY <3>2, <3>3, <3>4
  <2>2. loop' \in [States -> {"off", "select", "flush", "final"}]
    BY <1>4, LoopMoves
  <2>3. QED
    BY <2>1, <2>2 DEF LoopsTyped, FlushAlone, FlushOf, NoWork
<1>5. CASE Environment /\ ~Exit
  BY <1>1, <1>5 DEF Environment, Change, Edit, buffer
<1>6. CASE Reconcile
  BY <1>1, <1>3, <1>6 DEF Reconcile, ReconcileDeleted, ReconcileChanged, ReconcileNew,
                          ReconcileReports, buffer
<1>7. QED
  BY <1>1, <1>2, <1>4, <1>5, <1>6, StepsSorted DEF vars, buffer

\* What is excused is a resource of an event, a request, an analysis or a listing.
LEMMA ExcusedTyped ==
  ASSUME IInv, QueuesBounded, excused \subseteq Resources, Elsewhere
  PROVE  excused' \subseteq Resources
<1>1. \A S \in SUBSET Resources : Lost(S) \subseteq Resources
  BY DEF Lost
<1>2. CASE excused' = excused
  BY <1>2
<1>3. CASE HandleCRDEvent
  <2>1. Head(calls) \in Changes
    BY <1>3 DEF HandleCRDEvent, QueuesBounded
  <2>2. {Head(calls).id} \in SUBSET Resources
    BY <2>1 DEF Changes
  <2>3. excused' = excused \/ excused' = Lost({Head(calls).id})
    BY <1>3 DEF HandleCRDEvent
  <2>4. QED
    BY <1>1, <1>2, <2>2, <2>3
<1>4. CASE \E r \in Resources : Deliver(r) \/ Relist(r) \/ Analyse(r) \/ AnalysisFails(r)
  <2>1. PICK r \in Resources : Deliver(r) \/ Relist(r) \/ Analyse(r) \/ AnalysisFails(r)
    BY <1>4
  <2>2. \/ excused' = excused \/ excused' = Lost({r})
        \/ excused' = excused \ {r} \/ excused' = excused \cup {r}
    BY <2>1 DEF Deliver, Relist, Analyse, AnalysisFails, history
  <2>3. {r} \in SUBSET Resources
    OBVIOUS
  <2>4. QED
    BY <1>1, <2>2, <2>3
<1>5. CASE \E w \in States : \/ Recv(w) \/ Flush(w) \/ Return(w) \/ EndFlush(w) \/ ListMCP(w)
                             \/ EndStartup(w)
  BY <1>2, <1>5 DEF Recv, Flush, Return, EndFlush, ListMCP, EndStartup, history
<1>6. CASE \E w \in States : ListFails(w) \/ \E S \in SUBSET Resources : ListCluster(w, S)
  <2>1. excused' = excused \/ excused' = Lost(Resources) \/ excused' \subseteq Resources
    BY <1>6 DEF ListFails, ListCluster, Present
  <2>2. QED
    BY <1>1, <2>1
<1>7. CASE \E j \in Jobs : Sends(j)
  <2>1. PICK j \in Jobs : Sends(j)
    BY <1>7
  <2>2. work[j].scans \in SUBSET Resources /\ \A r \in Resources : {r} \in SUBSET Resources
    BY DEF IInv, Typed, Works
  <2>3. \/ excused' = excused \/ \E S \in SUBSET Resources : excused' = Lost(S)
        \/ \E r \in Resources : excused' = excused \cup {r} \/ excused' = excused \ {r}
    BY <2>1, <2>2 DEF Sends, ScanOk, ScanFails, ScanRetries, DeleteOk, DeleteFails, DeleteRetries,
                      Excuses, Late, history
  <2>4. QED
    BY <1>1, <2>3
<1>8. QED
  BY <1>3, <1>4, <1>5, <1>6, <1>7 DEF Elsewhere

LEMMA HistoryTypedNext ==
  IInv /\ QueuesBounded /\ HistoryTyped /\ [Next]_vars => HistoryTyped'
<1> SUFFICES ASSUME IInv, QueuesBounded, HistoryTyped, [Next]_vars PROVE HistoryTyped'
  OBVIOUS
<1>1. CASE UNCHANGED history
  BY <1>1 DEF history, HistoryTyped
<1>2. CASE Environment
  BY <1>1, <1>2 DEF Environment, Change, Edit, Exit, NotThere, HistoryTyped
<1>3. CASE Reconcile
  BY <1>1, <1>3 DEF Reconcile, ReconcileDeleted, ReconcileChanged, ReconcileNew, ReconcileReports,
                    Activate
<1>4. CASE Elsewhere
  <2>1. gone' = gone /\ unlisted' \subseteq Resources
    BY <1>4 DEF Elsewhere, HandleCRDEvent, Deliver, Relist, Recv, Flush, Return, EndFlush,
       ListCluster, ListFails, ListMCP, EndStartup, Sends, ScanOk, ScanFails, ScanRetries, DeleteOk,
       DeleteFails, DeleteRetries, Analyse, AnalysisFails, Present, history, HistoryTyped
  <2>2. QED
    BY <1>4, <2>1, ExcusedTyped DEF HistoryTyped
<1>5. QED
  BY <1>1, <1>2, <1>3, <1>4, StepsSorted DEF vars

\* The values a write may leave in the status, whoever writes it.
LEMMA StatusWrites ==
  ASSUME StatusOK,
         \/ status' = status \/ updateStatus(TRUE) \/ updateStatus(FALSE) \/ updateLastScanTime
         \/ status' = [ready |-> FALSE, lastError |-> FALSE]
  PROVE  StatusOK'
<1> DEFINE ready  == [ready |-> TRUE, lastError |-> FALSE]
           failed == [ready |-> FALSE, lastError |-> TRUE]
           empty  == [ready |-> FALSE, lastError |-> FALSE]
           passed == [status EXCEPT !.lastError = FALSE]
<1>1. /\ ready \in [ready : BOOLEAN, lastError : BOOLEAN] /\ ~ready.lastError
      /\ failed \in [ready : BOOLEAN, lastError : BOOLEAN] /\ ~failed.ready
      /\ empty \in [ready : BOOLEAN, lastError : BOOLEAN] /\ ~empty.ready
      /\ passed \in [ready : BOOLEAN, lastError : BOOLEAN] /\ ~passed.lastError
  BY DEF StatusOK
<1>2. status' \in {status, ready, failed, empty, passed}
  BY DEF updateStatus, updateLastScanTime
<1> HIDE DEF ready, failed, empty, passed
<1>3. QED
  BY <1>1, <1>2 DEF StatusOK, ReadyIsClean

LEMMA StatusOKNext == StatusOK /\ [Next]_vars => StatusOK'
<1> SUFFICES ASSUME StatusOK, [Next]_vars PROVE StatusOK'
  OBVIOUS
<1>1. CASE status' = status
  BY <1>1, StatusWrites
<1>2. CASE Environment
  <2>1. status' = status \/ status' = [ready |-> FALSE, lastError |-> FALSE]
    BY <1>2 DEF Environment, Change, Edit, Exit
  <2>2. QED
    BY <2>1, StatusWrites
<1>3. CASE Reconcile
  <2>1. status' = status \/ updateStatus(TRUE)
    BY <1>3 DEF Reconcile, ReconcileDeleted, ReconcileChanged, ReconcileNew, ReconcileReports, Activate
  <2>2. QED
    BY <2>1, StatusWrites
<1>4. CASE Elsewhere
  <2>1. status' = status \/ updateStatus(FALSE) \/ updateLastScanTime
    BY <1>4 DEF Elsewhere, HandleCRDEvent, Deliver, Relist, Recv, Flush, Return, EndFlush,
       ListCluster, ListFails, ListMCP, EndStartup, Sends, ScanOk, ScanFails, ScanRetries, DeleteOk,
       DeleteFails, DeleteRetries, Analyse, AnalysisFails
  <2>2. QED
    BY <2>1, StatusWrites
<1>5. QED
  BY <1>1, <1>2, <1>3, <1>4, StepsSorted DEF vars

TInv ==
  /\ IInv /\ MCPTyped /\ ReconcilerTyped /\ QueuesBounded /\ LoopsTyped /\ HistoryTyped /\ StatusOK

LEMMA TypesInit == Init => TInv
<1> SUFFICES ASSUME Init PROVE TInv
  OBVIOUS
<1>1. IInv /\ MCPTyped
  BY InvInit DEF Init, MCPTyped
<1>2. config \in Specs
  BY ConstantsOK DEF Init
<1>3. ReconcilerTyped
  BY <1>2, ConstantsOK DEF Init, ReconcilerTyped, Idle
<1>4. QueuesBounded
  BY ConstantsOK DEF Init, QueuesBounded
<1>5. LoopsTyped
  BY DEF Init, LoopsTyped, FlushAlone, FlushOf, Jobs
<1>6. HistoryTyped
  BY DEF Init, HistoryTyped, NotThere
<1>7. StatusOK
  BY DEF Init, StatusOK, ReadyIsClean
<1>8. QED
  BY <1>1, <1>3, <1>4, <1>5, <1>6, <1>7 DEF TInv

LEMMA TypesNext == TInv /\ [Next]_vars => TInv'
BY InvNext, MCPTypedNext, ReconcilerTypedNext, QueuesBoundedNext, LoopsTypedNext, HistoryTypedNext,
   StatusOKNext DEF TInv

LEMMA TypesImply == TInv => TypeOK
<1> SUFFICES ASSUME TInv PROVE TypeOK
  OBVIOUS
<1>1. ASSUME NEW j \in Jobs, ~Under(j)
      PROVE  work[j] = NoWork
  <2>1. PICK w \in States : j = FlushOf(w) \/ j = StartupOf(w)
    BY DEF Jobs, FlushOf, StartupOf
  <2>2. CASE j = FlushOf(w)
    BY <1>1, <2>2 DEF TInv, LoopsTyped, FlushAlone, Under, FlushOf
  <2>3. CASE j = StartupOf(w)
    BY <1>1, <2>3 DEF TInv, IInv, StartupAlone, Under, StartupOf
  <2>4. QED
    BY <2>1, <2>2, <2>3
<1>2. news \in [Resources -> Seq(Stages)]
  <2>1. \A r \in Resources : StagesOf(r) \subseteq Stages
    BY DEF StagesOf
  <2>2. \A r \in Resources : news[r] \in Seq(Stages)
    BY <2>1, SeqGrows DEF TInv, IInv, StagesGone
  <2>3. QED
    BY <2>2 DEF TInv, IInv, Typed
<1>3. queue \in [States -> Seq(Changes)] /\ \A w \in States : Len(queue[w]) <= BufferSize
  BY DEF TInv, IInv, Typed, QueuesBounded
<1>4. QED
  BY <1>1, <1>2, <1>3 DEF TInv, IInv, Typed, MCPTyped, ReconcilerTyped, QueuesBounded, LoopsTyped,
     HistoryTyped, StatusOK, Works, TypeOK

LEMMA TypesHold == Safety => []TInv
BY TypesInit, TypesNext, PTL DEF Safety

\* A change queue never holds more than it may, at most two calls come of one CRD event,
\* and nobody has requests to send when his flush or startup reconciliation is over,
\* whatever is still running of earlier activations.
THEOREM TypeCorrect == Safety => []TypeOK
BY TypesHold, TypesImply, PTL

\* Whoever wrote the status last, a flush or a startup reconciliation of this or an
\* earlier activation or Reconcile: a config that is Ready shows no error.
THEOREM ReadyShowsNoError == Safety => []ReadyIsClean
BY TypesHold, PTL DEF TInv, StatusOK
=============================================================================
