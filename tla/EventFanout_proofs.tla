------------------------- MODULE EventFanout_proofs -------------------------
(***************************************************************************)
(* Proofs about EventFanout, for any number of subscribers, any capacities *)
(* and any number of events.                                               *)
(***************************************************************************)
EXTENDS EventFanout, SequenceTheorems, TLAPS

\* What push_bounded_event does to a queue it finds within its capacity: the queue stays
\* within it, ends with the pushed event, and either kept every entry or got a marker.
LEMMA PushProperties ==
    ASSUME NEW q \in Seq(Entries), NEW c \in Nat, c >= 2, Len(q) <= c,
           NEW n \in Nat
    PROVE  LET r == PushBoundedEvent(q, c, Event(n))
           IN  /\ r \in Seq(Entries)
               /\ r # <<>>
               /\ Len(r) <= c
               /\ r[Len(r)] = Event(n)
               /\ \/ \A i \in DOMAIN q : i \in DOMAIN r /\ r[i] = q[i]
                  \/ \E i \in DOMAIN r : IsMarker(r[i])
<1> DEFINE r == PushBoundedEvent(q, c, Event(n))
<1>0. Event(n) \in Entries /\ ~IsMarker(Event(n))
  BY DEF Event, Entries, IsMarker
<1>1. CASE Len(q) < c
  <2>1. r = Append(q, Event(n))
    BY <1>1 DEF PushBoundedEvent
  <2> QED
    BY <1>0, <1>1, <2>1
<1>2. CASE ~(Len(q) < c)
  <2> DEFINE kept == SubSeq(q, 3, Len(q))
             m == Marker(2)
             pair == <<m, Event(n)>>
  <2>1. Len(q) = c
    BY <1>2
  <2>2. DroppedEvents(q, c, Event(n)) = 2
    BY <1>0, <2>1 DEF DroppedEvents, RequiredSlots
  <2>3. r = kept \o pair
    BY <1>0, <1>2, <2>2 DEF PushBoundedEvent, Displace
  <2>4. m \in Entries /\ IsMarker(m)
    BY DEF Marker, Entries, IsMarker
  <2>5. kept \in Seq(Entries) /\ Len(kept) = c - 2
    BY <2>1
  <2>6. pair \in Seq(Entries) /\ Len(pair) = 2 /\ pair[1] = m /\ pair[2] = Event(n)
    BY <1>0, <2>4
  <2> HIDE DEF r, kept, m, pair
  <2>7. /\ r \in Seq(Entries)
        /\ Len(r) = Len(kept) + Len(pair)
        /\ \A i \in 1 .. Len(kept) + Len(pair) :
              r[i] = IF i <= Len(kept) THEN kept[i] ELSE pair[i - Len(kept)]
    BY <2>3, <2>5, <2>6, ConcatProperties, Zenon
  <2>8. Len(r) = c /\ r[c - 1] = m /\ r[c] = Event(n)
    BY <2>5, <2>6, <2>7
  <2>9. c - 1 \in DOMAIN r
    BY <2>7, <2>8
  <2> QED
    BY <2>4, <2>7, <2>8, <2>9 DEF r
<1> QED
  BY <1>1, <1>2

-----------------------------------------------------------------------------
(* The inductive invariant *)

\* Every queue has seen the events before the one being fanned out; those the loop has
\* passed have seen that one too.
Progress ==
    /\ emitter = "fanning" => downstream > 0
    /\ \A s \in Subscribers :
          delivered[s] = IF emitter = "fanning" /\ target <= s
                         THEN downstream - 1 ELSE downstream

\* What a worker's place in its loop says about its flag, its queue and its batch.
Control ==
    \A s \in Subscribers :
        /\ (batch[s] # <<>>) <=> (worker[s] \in {"handle", "handle_last"})
        /\ worker[s] \in {"final_drain", "handle_last", "done"} => stopFlag[s]
        /\ worker[s] \in {"handle_last", "done"} => queue[s] = <<>>
        /\ stopFlag[s] => emitter = "finished"
        /\ s < stopping => worker[s] = "done"

\* The newest event ends the queue, or, once drained, the batch, or what was handled.
NewestEnds ==
    \A s \in Subscribers :
        /\ queue[s] = <<>> /\ batch[s] # <<>> => Last(batch[s]) = Event(delivered[s])
        /\ queue[s] = <<>> /\ batch[s] = <<>> /\ delivered[s] > 0
              => handled[s] # <<>> /\ Last(handled[s]) = Event(delivered[s])

\* A drain empties the queue of everything it counts as drained.
DrainedBefore == \A s \in Subscribers : drained[s] <= delivered[s]

Inv == /\ TypeOK /\ QueueBounded /\ NoSilentLoss /\ NewestSurvives
       /\ Progress /\ Control /\ NewestEnds /\ DrainedBefore

LEMMA CapacityFacts ==
    \A s \in Subscribers : Capacity(s) \in Nat /\ Capacity(s) >= 2
BY CapacityAssumption DEF Capacity, MinCapacity, Subscribers

\* Initially every queue is empty and nothing has been emitted.
LEMMA InitInv == Init => Inv
BY CapacityFacts, SubscribersAssumption
   DEF Init, Inv, TypeOK, QueueBounded, NoSilentLoss, NewestSurvives, Progress, Control,
       NewestEnds, DrainedBefore, Subscribers, WorkerStates

\* The steps of the emitter preserve the invariant.
LEMMA EmitterInv == Inv /\ Emitter => Inv'
<1> SUFFICES ASSUME Inv, Emitter PROVE Inv'
  OBVIOUS
<1> USE SubscribersAssumption DEF Subscribers
<1>1. CASE EmitDownstream
  BY <1>1 DEF EmitDownstream, Inv, TypeOK, QueueBounded, NoSilentLoss, NewestSurvives,
       Progress, Control, NewestEnds, DrainedBefore, Capacity
<1>2. CASE RunReturns
  BY <1>2 DEF RunReturns, Inv, TypeOK, QueueBounded, NoSilentLoss, NewestSurvives,
       Progress, Control, NewestEnds, DrainedBefore, Capacity
<1>3. ASSUME NEW s \in Subscribers, Deliver(s) PROVE Inv'
  <2> DEFINE q == queue[s]
             r == PushBoundedEvent(q, Capacity(s), Event(downstream))
  <2>1. /\ r \in Seq(Entries) /\ r # <<>> /\ Len(r) <= Capacity(s)
        /\ r[Len(r)] = Event(downstream)
        /\ \/ \A i \in DOMAIN q : i \in DOMAIN r /\ r[i] = q[i]
           \/ \E i \in DOMAIN r : IsMarker(r[i])
    <3>1. q \in Seq(Entries) /\ Len(q) <= Capacity(s) /\ downstream \in Nat
      BY DEF Inv, TypeOK, QueueBounded
    <3>2. Capacity(s) \in Nat /\ Capacity(s) >= 2
      BY CapacityFacts
    <3> QED
      BY <3>1, <3>2, PushProperties
  <2> HIDE DEF r
  <2>2. queue' = [queue EXCEPT ![s] = r] /\ delivered' = [delivered EXCEPT ![s] = downstream]
    BY <1>3 DEF Deliver, r
  <2>3. /\ emitter = "fanning" /\ target = s
        /\ downstream' = downstream /\ drained' = drained /\ worker' = worker
        /\ batch' = batch /\ handled' = handled /\ stopFlag' = stopFlag
        /\ stopping' = stopping
    BY <1>3 DEF Deliver
  <2>4. IF s = NumSubscribers THEN emitter' = "idle" /\ target' = 1
                              ELSE emitter' = emitter /\ target' = s + 1
    BY <1>3 DEF Deliver, NextTarget
  <2>5. queue'[s] = r /\ delivered'[s] = downstream
        /\ \A t \in Subscribers : t # s => queue'[t] = queue[t] /\ delivered'[t] = delivered[t]
    BY <2>2 DEF Inv, TypeOK
  <2>6. delivered[s] = downstream - 1 /\ downstream > 0 /\ downstream \in Nat
    BY <2>3 DEF Inv, TypeOK, Progress
  <2>7. TypeOK'
    <3>1. queue' \in [Subscribers -> Seq(Entries)] /\ delivered' \in [Subscribers -> Nat]
      BY <2>1, <2>2, <2>6 DEF Inv, TypeOK
    <3>2. emitter' \in {"idle", "fanning", "finished"} /\ target' \in Subscribers
      BY <2>3, <2>4
    <3> QED
      BY <2>3, <3>1, <3>2 DEF Inv, TypeOK
  <2>8. QueueBounded'
    BY <2>1, <2>5 DEF Inv, QueueBounded, Capacity
  <2>9. NewestSurvives'
    BY <2>1, <2>5 DEF Inv, NewestSurvives, Last
  <2>10. NoSilentLoss'
    <3> SUFFICES ASSUME NEW n \in (drained[s] + 1)..downstream
                 PROVE  \/ \E i \in DOMAIN r : r[i] = Event(n)
                        \/ \E i \in DOMAIN r : IsMarker(r[i])
      BY <2>3, <2>5 DEF Inv, NoSilentLoss
    <3>1. CASE n = downstream
      BY <2>1, <3>1
    <3>2. CASE n # downstream
      <4>1. n \in (drained[s] + 1)..delivered[s]
        BY <2>6, <3>2 DEF Inv, TypeOK
      <4>2. \/ \E i \in DOMAIN q : q[i] = Event(n)
            \/ \E i \in DOMAIN q : IsMarker(q[i])
        BY <4>1 DEF Inv, NoSilentLoss
      <4> QED
        BY <2>1, <4>2
    <3> QED
      BY <3>1, <3>2
  <2>11. Progress'
    <3>1. ASSUME NEW t \in Subscribers
          PROVE  delivered'[t] = IF emitter' = "fanning" /\ target' <= t
                                 THEN downstream' - 1 ELSE downstream'
      <4>1. delivered[t] = IF target <= t THEN downstream - 1 ELSE downstream
        BY <2>3 DEF Inv, Progress
      <4>2. CASE s = NumSubscribers
        BY <2>3, <2>4, <2>5, <4>1, <4>2
      <4>3. CASE s # NumSubscribers
        BY <2>3, <2>4, <2>5, <2>6, <4>1, <4>3
      <4> QED
        BY <4>2, <4>3
    <3> QED
      BY <2>3, <2>6, <3>1 DEF Progress
  <2>12. Control'
    BY <2>3, <2>4, <2>5 DEF Inv, Control
  <2>13. NewestEnds'
    BY <2>1, <2>3, <2>5 DEF Inv, NewestEnds
  <2>14. DrainedBefore'
    <3>1. drained[s] <= downstream
      <4>1. drained[s] \in Nat /\ drained[s] <= delivered[s]
        BY DEF Inv, TypeOK, DrainedBefore
      <4> QED
        BY <2>6, <4>1
    <3> QED
      BY <2>3, <2>5, <3>1 DEF Inv, DrainedBefore
  <2> QED
    BY <2>7, <2>8, <2>9, <2>10, <2>11, <2>12, <2>13, <2>14 DEF Inv
<1> QED
  BY <1>1, <1>2, <1>3 DEF Emitter

\* Emptying the queue into the batch, in either place of the loop.
LEMMA DrainInv ==
    ASSUME Inv, NEW s \in Subscribers, WaitForEvents(s) \/ FinalDrain(s)
    PROVE  Inv'
<1> USE DEF Subscribers
<1>1. /\ queue' = [queue EXCEPT ![s] = <<>>] /\ batch' = [batch EXCEPT ![s] = queue[s]]
      /\ drained' = [drained EXCEPT ![s] = delivered[s]]
      /\ downstream' = downstream /\ emitter' = emitter /\ target' = target
      /\ handled' = handled /\ stopFlag' = stopFlag /\ stopping' = stopping
      /\ delivered' = delivered
  BY DEF WaitForEvents, FinalDrain, Drain
<1>2. /\ queue'[s] = <<>> /\ batch'[s] = queue[s] /\ drained'[s] = delivered[s]
      /\ \A t \in Subscribers : t # s => /\ queue'[t] = queue[t] /\ batch'[t] = batch[t]
                                       /\ drained'[t] = drained[t]
  BY <1>1 DEF Inv, TypeOK
<1>3. /\ worker[s] \in {"wait", "final_drain"}
      /\ worker' = [worker EXCEPT ![s] =
            IF worker[s] = "wait"
            THEN IF queue[s] = <<>> THEN "check" ELSE "handle"
            ELSE IF queue[s] = <<>> THEN "done" ELSE "handle_last"]
  BY DEF WaitForEvents, FinalDrain
<1>4. \A t \in Subscribers : t # s => worker'[t] = worker[t]
  BY <1>3 DEF Inv, TypeOK
<1>5. worker'[s] = IF worker[s] = "wait"
                   THEN IF queue[s] = <<>> THEN "check" ELSE "handle"
                   ELSE IF queue[s] = <<>> THEN "done" ELSE "handle_last"
  BY <1>3 DEF Inv, TypeOK
<1>6. TypeOK'
  BY <1>1, <1>3 DEF Inv, TypeOK, WorkerStates
<1>7. QueueBounded'
  BY <1>2, CapacityFacts DEF Inv, QueueBounded, Capacity
<1>8. NoSilentLoss'
  <2>1. \A n \in (drained'[s] + 1)..delivered'[s] : FALSE
    BY <1>1, <1>2 DEF Inv, TypeOK
  <2> QED
    BY <1>1, <1>2, <2>1 DEF Inv, NoSilentLoss
<1>9. NewestSurvives'
  BY <1>1, <1>2 DEF Inv, NewestSurvives
<1>10. Progress'
  BY <1>1 DEF Inv, Progress
<1>11. Control'
  BY <1>1, <1>2, <1>3, <1>4, <1>5 DEF Inv, Control
<1>12. NewestEnds'
  BY <1>1, <1>2, <1>3 DEF Inv, NewestEnds, NewestSurvives, Control
<1>13. DrainedBefore'
  BY <1>1, <1>2 DEF Inv, TypeOK, DrainedBefore
<1> QED
  BY <1>6, <1>7, <1>8, <1>9, <1>10, <1>11, <1>12, <1>13 DEF Inv

\* Handling the first entry of the batch.
LEMMA HandleInv ==
    ASSUME Inv, NEW s \in Subscribers, Handle(s)
    PROVE  Inv'
<1> USE DEF Subscribers
<1> DEFINE b == batch[s]
<1>1. /\ handled' = [handled EXCEPT ![s] = Append(handled[s], Head(b))]
      /\ batch' = [batch EXCEPT ![s] = Tail(b)]
      /\ worker' = [worker EXCEPT ![s] = IF Len(b) = 1 THEN AfterBatch(worker[s]) ELSE worker[s]]
      /\ downstream' = downstream /\ emitter' = emitter /\ target' = target
      /\ queue' = queue /\ stopFlag' = stopFlag /\ stopping' = stopping
      /\ delivered' = delivered /\ drained' = drained
      /\ worker[s] \in {"handle", "handle_last"}
  BY DEF Handle
<1>2. b \in Seq(Entries) /\ b # <<>> /\ handled[s] \in Seq(Entries)
  BY <1>1 DEF Inv, TypeOK, Control
<1>3. /\ Head(b) \in Entries /\ Tail(b) \in Seq(Entries) /\ Head(b) = b[1]
      /\ Len(Tail(b)) = Len(b) - 1 /\ Len(b) \in Nat \ {0}
      /\ Tail(b) # <<>> => Tail(b)[Len(Tail(b))] = b[Len(b)]
      /\ (Tail(b) = <<>>) <=> (Len(b) = 1)
  <2>1. /\ Head(b) \in Entries /\ Tail(b) \in Seq(Entries) /\ Head(b) = b[1]
        /\ Len(Tail(b)) = Len(b) - 1 /\ Len(b) \in Nat \ {0}
        /\ \A i \in 1 .. Len(Tail(b)) : Tail(b)[i] = b[i + 1]
    BY <1>2
  <2>2. (Tail(b) = <<>>) <=> (Len(Tail(b)) = 0)
    BY <2>1, EmptySeq
  <2> HIDE DEF b
  <2>3. Tail(b) # <<>> => Tail(b)[Len(Tail(b))] = b[Len(b)]
    BY <2>1, <2>2
  <2> QED
    BY <2>1, <2>2, <2>3
<1>4. /\ Append(handled[s], Head(b)) \in Seq(Entries)
      /\ Append(handled[s], Head(b)) # <<>>
      /\ LET h == Append(handled[s], Head(b)) IN h[Len(h)] = Head(b)
  BY <1>2, <1>3
<1>5. /\ batch'[s] = Tail(b) /\ handled'[s] = Append(handled[s], Head(b))
      /\ worker'[s] = IF Len(b) = 1 THEN AfterBatch(worker[s]) ELSE worker[s]
      /\ \A t \in Subscribers : t # s => /\ batch'[t] = batch[t] /\ handled'[t] = handled[t]
                                       /\ worker'[t] = worker[t]
  BY <1>1 DEF Inv, TypeOK
<1>6. TypeOK'
  <2>1. AfterBatch(worker[s]) \in WorkerStates /\ worker[s] \in WorkerStates
    BY DEF Inv, TypeOK, AfterBatch, WorkerStates
  <2> QED
    BY <1>1, <1>3, <1>4, <2>1 DEF Inv, TypeOK
<1>7. QueueBounded' /\ NoSilentLoss' /\ NewestSurvives' /\ Progress' /\ DrainedBefore'
  BY <1>1 DEF Inv, QueueBounded, NoSilentLoss, NewestSurvives, Progress, DrainedBefore, Capacity
<1>8. Control'
  <2>1. AfterBatch(worker[s]) = IF worker[s] = "handle_last" THEN "done" ELSE "check"
    BY DEF AfterBatch
  <2>2. (batch'[s] # <<>>) <=> (worker'[s] \in {"handle", "handle_last"})
    BY <1>1, <1>3, <1>5, <2>1
  <2>3. worker'[s] \in {"final_drain", "handle_last", "done"} => worker[s] = "handle_last"
    BY <1>1, <1>5, <2>1
  <2>4. ~(s < stopping)
    BY <1>1 DEF Inv, Control
  <2> QED
    BY <1>1, <1>5, <2>2, <2>3, <2>4 DEF Inv, Control
<1>9. NewestEnds'
  <2>1. CASE queue[s] = <<>>
    <3>1. b[Len(b)] = Event(delivered[s])
      BY <1>2, <2>1 DEF Inv, NewestEnds, Last
    <3> QED
      BY <1>1, <1>3, <1>4, <1>5, <3>1, SMTT(30) DEF Inv, NewestEnds, Last
  <2>2. CASE queue[s] # <<>>
    BY <1>1, <1>5, <2>2 DEF Inv, NewestEnds
  <2> QED
    BY <2>1, <2>2
<1> QED
  BY <1>6, <1>7, <1>8, <1>9 DEF Inv

\* The remaining steps: reading the stop flag, setting it, joining a worker.
LEMMA StopInv ==
    ASSUME Inv, NEW s \in Subscribers, CheckStop(s) \/ StopWorker(s) \/ JoinWorker(s)
    PROVE  Inv'
<1> USE DEF Subscribers
<1>1. QueueBounded' /\ NoSilentLoss' /\ NewestSurvives' /\ Progress' /\ DrainedBefore' /\ NewestEnds'
  BY DEF CheckStop, StopWorker, JoinWorker, Inv, QueueBounded, NoSilentLoss, NewestSurvives,
         Progress, DrainedBefore, NewestEnds, Capacity
<1>2. CASE CheckStop(s)
  <2>1. worker' = [worker EXCEPT ![s] = IF stopFlag[s] THEN "final_drain" ELSE "wait"]
    BY <1>2 DEF CheckStop
  <2>2. TypeOK'
    BY <1>2, <2>1 DEF CheckStop, Inv, TypeOK, WorkerStates
  <2>3. /\ worker'[s] = IF stopFlag[s] THEN "final_drain" ELSE "wait"
        /\ \A t \in Subscribers : t # s => worker'[t] = worker[t]
    BY <2>1 DEF Inv, TypeOK
  <2>4. Control'
    BY <1>2, <2>3 DEF CheckStop, Inv, Control
  <2> QED
    BY <1>1, <2>2, <2>4 DEF Inv
<1>3. CASE StopWorker(s)
  <2>1. /\ stopFlag'[s] /\ \A t \in Subscribers : t # s => stopFlag'[t] = stopFlag[t]
        /\ stopFlag' \in [Subscribers -> BOOLEAN]
    BY <1>3 DEF StopWorker, Inv, TypeOK
  <2>2. TypeOK'
    BY <1>3, <2>1, SMTT(30) DEF StopWorker, Inv, TypeOK
  <2>3. Control'
    BY <1>3, <2>1 DEF StopWorker, Inv, Control
  <2> QED
    BY <1>1, <2>2, <2>3 DEF Inv
<1>4. CASE JoinWorker(s)
  <2>1. stopping' = s + 1 /\ worker[s] = "done" /\ stopping = s
    BY <1>4 DEF JoinWorker
  <2>2. TypeOK'
    BY <1>4, <2>1, SubscribersAssumption, SMTT(30) DEF JoinWorker, Inv, TypeOK
  <2>3. \A t \in Subscribers : t < stopping' => worker[t] = "done"
    BY <2>1 DEF Inv, Control
  <2>4. Control'
    BY <1>4, <2>3 DEF JoinWorker, Inv, Control
  <2> QED
    BY <1>1, <2>2, <2>4 DEF Inv
<1> QED
  BY <1>2, <1>3, <1>4

-----------------------------------------------------------------------------
(* Theorems *)

THEOREM Invariant == Spec => []Inv
<1>1. Init => Inv
  BY InitInv
<1>2. Inv /\ [Next]_vars => Inv'
  <2> SUFFICES ASSUME Inv, [Next]_vars PROVE Inv'
    OBVIOUS
  <2>1. CASE Emitter
    BY <2>1, EmitterInv
  <2>2. ASSUME NEW s \in Subscribers, Worker(s) PROVE Inv'
    BY <2>2, DrainInv, HandleInv, StopInv DEF Worker
  <2>3. CASE Owner
    BY <2>3, StopInv DEF Owner
  <2>4. CASE UNCHANGED vars
    BY <2>4 DEF vars, Inv, TypeOK, QueueBounded, NoSilentLoss, NewestSurvives, Progress,
       Control, NewestEnds, DrainedBefore, Capacity
  <2> QED
    BY <2>1, <2>2, <2>3, <2>4 DEF Next, Terminated
<1> QED
  BY <1>1, <1>2, PTL DEF Spec

\* The variables of the fan-out keep their types.
THEOREM TypeCorrect == Spec => []TypeOK
BY Invariant, PTL DEF Inv

\* No queue outgrows its capacity, whatever the number of events and the speed of workers.
THEOREM Bounded == Spec => []QueueBounded
BY Invariant, PTL DEF Inv

\* An event lost since the last drain is accounted for by a marker in the queue.
THEOREM LossIsMarked == Spec => []NoSilentLoss
BY Invariant, PTL DEF Inv

\* An overflow never drops the newest event.
THEOREM NewestKept == Spec => []NewestSurvives
BY Invariant, PTL DEF Inv

\* A joined worker has handled the last event of the run and left nothing queued.
THEOREM CaughtUp == Spec => []JoinedIsCaughtUp
<1>1. Inv => JoinedIsCaughtUp
  <2> SUFFICES ASSUME Inv, NEW s \in Subscribers, s < stopping
               PROVE  /\ queue[s] = <<>> /\ batch[s] = <<>>
                      /\ downstream > 0 => /\ handled[s] # <<>>
                                           /\ Last(handled[s]) = Event(downstream)
    BY DEF JoinedIsCaughtUp
  <2>1. worker[s] = "done" /\ emitter = "finished" /\ queue[s] = <<>> /\ batch[s] = <<>>
    BY DEF Inv, Control
  <2>2. delivered[s] = downstream
    BY <2>1 DEF Inv, Progress
  <2> QED
    BY <2>1, <2>2 DEF Inv, NewestEnds
<1> QED
  BY <1>1, Invariant, PTL

-----------------------------------------------------------------------------
(* Order.  An invariant of its own, kept beside Inv: no event is before an earlier one, and   *)
(* none is newer than the newest that was pushed.                                             *)

\* The events of a sequence of entries come in the order of their numbers, each once.
Ascending(q) ==
    \A i, j \in DOMAIN q : i < j /\ ~IsMarker(q[i]) /\ ~IsMarker(q[j]) => q[i].n < q[j].n

\* None of its events is newer than n.
UpTo(q, n) == \A i \in DOMAIN q : ~IsMarker(q[i]) => q[i].n <= n

Ordered == \A s \in Subscribers : Ascending(Stream(s)) /\ UpTo(Stream(s), delivered[s])

\* Pushing a newer event behind what is handled and drained keeps the order, also when the
\* queue overflows: what is left of it stays in its order.
LEMMA PushAscending ==
    ASSUME NEW h \in Seq(Entries), NEW q \in Seq(Entries), NEW c \in Nat, c >= 2, Len(q) <= c,
           NEW n \in Nat, NEW m \in Nat, m < n, Ascending(h \o q), UpTo(h \o q, m)
    PROVE  /\ Ascending(h \o PushBoundedEvent(q, c, Event(n)))
           /\ UpTo(h \o PushBoundedEvent(q, c, Event(n)), n)
<1> DEFINE e == Event(n)
           r == PushBoundedEvent(q, c, e)
           s == h \o q
<1>1. e \in Entries /\ ~IsMarker(e) /\ e.n = n
  BY DEF Event, Entries, IsMarker
<1>2. /\ s \in Seq(Entries) /\ Len(s) = Len(h) + Len(q) /\ DOMAIN s = 1..Len(s)
      /\ Len(s) \in Nat /\ Len(h) \in Nat
      /\ \A i \in 1..Len(s) : s[i] = IF i <= Len(h) THEN h[i] ELSE q[i - Len(h)]
  BY ConcatProperties, LenProperties
<1>3. \A i \in DOMAIN s : s[i] \in Entries /\ s[i].n \in Nat
  <2> HIDE DEF s
  <2>1. \A i \in DOMAIN s : s[i] \in Entries
    BY <1>2, ElementOfSeq
  <2> QED
    BY <2>1 DEF Entries
<1>4. CASE Len(q) < c
  <2>1. r = Append(q, e)
    BY <1>4 DEF PushBoundedEvent
  <2>2. h \o r = Append(s, e)
    <3>1. Append(q, e) = q \o <<e>> /\ Append(s, e) = s \o <<e>> /\ <<e>> \in Seq(Entries)
      BY <1>1, <1>2, AppendIsConcat
    <3> QED
      BY <2>1, <3>1, ConcatAssociative
  <2> DEFINE t == Append(s, e)
  <2> HIDE DEF s
  <2>3. /\ Len(t) = Len(s) + 1 /\ DOMAIN t = 1..(Len(s) + 1) /\ t[Len(s) + 1] = e
        /\ \A i \in 1..Len(s) : t[i] = s[i]
    <3>1. s \in Seq(Entries) /\ e \in Entries
      BY <1>1, <1>2
    <3>2. /\ t \in Seq(Entries) /\ Len(t) = Len(s) + 1 /\ t[Len(s) + 1] = e
          /\ \A i \in 1..Len(s) : t[i] = s[i]
      BY <3>1, AppendProperties
    <3> HIDE DEF t
    <3> QED
      BY <3>2, LenProperties
  <2> HIDE DEF t, e
  <2>4. ASSUME NEW i \in DOMAIN t, ~IsMarker(t[i])
        PROVE  t[i].n <= n /\ (i # Len(s) + 1 => i \in DOMAIN s /\ t[i] = s[i] /\ t[i].n < n)
    <3>1. CASE i = Len(s) + 1
      BY <1>1, <2>3, <3>1
    <3>2. CASE i # Len(s) + 1
      <4>1. i \in 1..Len(s) /\ t[i] = s[i]
        <5>1. Len(s) \in Nat
          BY <1>2
        <5>2. i \in 1..(Len(s) + 1)
          BY <2>3
        <5>3. i \in 1..Len(s)
          BY <3>2, <5>1, <5>2
        <5> QED
          BY <2>3, <5>3
      <4>2. s[i].n <= m /\ s[i].n \in Nat
        BY <1>2, <1>3, <2>4, <4>1 DEF UpTo, s
      <4> QED
        BY <1>2, <4>1, <4>2
    <3> QED
      BY <3>1, <3>2
  <2>5. Ascending(t)
    <3> SUFFICES ASSUME NEW i \in DOMAIN t, NEW j \in DOMAIN t, i < j,
                        ~IsMarker(t[i]), ~IsMarker(t[j])
                 PROVE  t[i].n < t[j].n
      BY DEF Ascending
    <3>1. i # Len(s) + 1
      BY <1>2, <2>3
    <3>2. i \in DOMAIN s /\ t[i] = s[i] /\ t[i].n < n
      BY <2>4, <3>1
    <3>3. CASE j = Len(s) + 1
      BY <1>1, <2>3, <3>2, <3>3
    <3>4. CASE j # Len(s) + 1
      <4>1. j \in DOMAIN s /\ t[j] = s[j]
        BY <2>4, <3>4
      <4> QED
        BY <3>2, <4>1 DEF Ascending, s
    <3> QED
      BY <3>3, <3>4
  <2>6. UpTo(t, n)
    BY <2>4 DEF UpTo
  <2> QED
    BY <2>2, <2>5, <2>6 DEF t, e
<1>5. CASE ~(Len(q) < c)
  <2> DEFINE kept == SubSeq(q, 3, Len(q))
             pair == <<Marker(2), e>>
             t == h \o r
             old(i) == IF i <= Len(h) THEN i ELSE i + 2
  <2>1. r = kept \o pair /\ Len(q) = c
    <3>1. Len(q) = c
      BY <1>5
    <3>2. DroppedEvents(q, c, e) = 2
      BY <1>1, <3>1 DEF DroppedEvents, RequiredSlots
    <3> QED
      BY <1>1, <1>5, <3>1, <3>2 DEF PushBoundedEvent, Displace
  <2>2. /\ kept \in Seq(Entries) /\ Len(kept) = c - 2
        /\ \A i \in 1..(c - 2) : kept[i] = q[i + 2]
    BY <2>1
  <2>3. /\ pair \in Seq(Entries) /\ Len(pair) = 2 /\ pair[1] = Marker(2) /\ pair[2] = e
        /\ IsMarker(Marker(2))
    BY <1>1 DEF Marker, Entries, IsMarker
  <2> HIDE DEF r, kept, pair, s, t, e, old
  <2>4. /\ r \in Seq(Entries) /\ Len(r) = c
        /\ \A i \in 1..c : r[i] = IF i <= c - 2 THEN kept[i] ELSE pair[i - (c - 2)]
    <3>1. /\ r \in Seq(Entries) /\ Len(r) = Len(kept) + Len(pair)
          /\ \A i \in 1 .. Len(kept) + Len(pair) :
                r[i] = IF i <= Len(kept) THEN kept[i] ELSE pair[i - Len(kept)]
      BY <2>1, <2>2, <2>3, ConcatProperties, ZenonT(60)
    <3> QED
      BY <2>2, <2>3, <3>1
  <2> USE DEF t
  <2>5. /\ DOMAIN t = 1..Len(s) /\ Len(s) \in Nat /\ Len(s) = Len(h) + c
        /\ \A i \in 1..Len(s) : t[i] = IF i <= Len(h) THEN h[i] ELSE r[i - Len(h)]
    <3>1. /\ h \o r \in Seq(Entries) /\ Len(h \o r) = Len(h) + Len(r)
          /\ \A i \in 1 .. Len(h) + Len(r) :
                (h \o r)[i] = IF i <= Len(h) THEN h[i] ELSE r[i - Len(h)]
      BY <2>4, ConcatProperties, ZenonT(60)
    <3> QED
      BY <1>2, <2>1, <2>4, <3>1
  <2> HIDE DEF t
  <2> USE DEF old
  <2>6. ASSUME NEW i \in DOMAIN t, ~IsMarker(t[i])
        PROVE  /\ i = Len(s) => t[i] = e
               /\ i # Len(s) => i <= Len(s) - 2 /\ old(i) \in DOMAIN s /\ t[i] = s[old(i)]
    <3>1. i \in 1..Len(s) /\ Len(s) \in Nat /\ Len(s) = Len(h) + c
      BY <2>5
    <3>2. Len(h) \in Nat /\ DOMAIN s = 1..Len(s)
      BY <1>2
    <3>3. CASE i <= Len(h)
      <4>1. old(i) \in 1..Len(s) /\ old(i) = i /\ i # Len(s) /\ i <= Len(s) - 2
        BY <3>1, <3>2, <3>3
      <4>2. t[i] = h[i] /\ s[i] = h[i]
        BY <1>2, <2>5, <3>1, <3>3
      <4> QED
        BY <3>2, <4>1, <4>2
    <3>4. CASE ~(i <= Len(h))
      <4>1. i - Len(h) \in 1..c
        BY <3>1, <3>2, <3>4
      <4>2. t[i] = r[i - Len(h)]
        BY <2>5, <3>1, <3>4
      <4>3. CASE i - Len(h) <= c - 2
        <5>1. t[i] = q[i - Len(h) + 2]
          <6>1. i - Len(h) \in 1..(c - 2)
            BY <4>1, <4>3
          <6>2. r[i - Len(h)] = kept[i - Len(h)]
            BY <2>4, <4>1, <4>3
          <6> QED
            BY <2>2, <4>2, <6>1, <6>2
        <5>2. /\ old(i) \in 1..Len(s) /\ old(i) = i + 2 /\ ~(old(i) <= Len(h))
              /\ i # Len(s) /\ i <= Len(s) - 2 /\ old(i) - Len(h) = i - Len(h) + 2
          BY <3>1, <3>2, <3>4, <4>3
        <5>3. s[old(i)] = q[old(i) - Len(h)]
          BY <1>2, <5>2
        <5> QED
          BY <3>2, <5>1, <5>2, <5>3
      <4>4. CASE ~(i - Len(h) <= c - 2)
        <5>1. i - Len(h) - (c - 2) \in {1, 2}
          BY <3>1, <3>2, <4>1, <4>4
        <5>2. t[i] = pair[i - Len(h) - (c - 2)]
          BY <2>4, <4>1, <4>2, <4>4
        <5>3. i - Len(h) - (c - 2) = 2
          BY <2>3, <2>6, <5>1, <5>2
        <5>4. i = Len(s)
          BY <3>1, <3>2, <5>3
        <5> QED
          BY <2>3, <5>2, <5>3, <5>4
      <4> QED
        BY <4>3, <4>4
    <3> QED
      BY <3>3, <3>4
  <2>7. UpTo(t, n)
    <3> SUFFICES ASSUME NEW i \in DOMAIN t, ~IsMarker(t[i]) PROVE t[i].n <= n
      BY DEF UpTo
    <3>1. CASE i = Len(s)
      BY <1>1, <2>6, <3>1
    <3>2. CASE i # Len(s)
      <4>1. old(i) \in DOMAIN s /\ t[i] = s[old(i)]
        BY <2>6, <3>2
      <4>2. s[old(i)].n <= m /\ s[old(i)].n \in Nat
        BY <1>3, <4>1 DEF UpTo, s
      <4> QED
        BY <4>1, <4>2
    <3> QED
      BY <3>1, <3>2
  <2>8. Ascending(t)
    <3> SUFFICES ASSUME NEW i \in DOMAIN t, NEW j \in DOMAIN t, i < j,
                        ~IsMarker(t[i]), ~IsMarker(t[j])
                 PROVE  t[i].n < t[j].n
      BY DEF Ascending
    <3>1. i # Len(s)
      BY <2>5
    <3>2. old(i) \in DOMAIN s /\ t[i] = s[old(i)]
      BY <2>6, <3>1
    <3>3. s[old(i)].n <= m /\ s[old(i)].n \in Nat
      BY <1>3, <3>2 DEF UpTo, s
    <3>4. CASE j = Len(s)
      BY <1>1, <2>6, <3>2, <3>3, <3>4
    <3>5. CASE j # Len(s)
      <4>1. old(j) \in DOMAIN s /\ t[j] = s[old(j)]
        BY <2>6, <3>5
      <4>2. old(i) < old(j)
        BY <2>5
      <4> HIDE DEF old
      <4> QED
        BY <3>2, <4>1, <4>2 DEF Ascending, s
    <3> QED
      BY <3>4, <3>5
  <2> QED
    BY <2>7, <2>8 DEF t, e, r
<1> QED
  BY <1>4, <1>5

\* An entry that goes from the head of the batch to what is handled stays where it was.
LEMMA HandleKeepsStream ==
    ASSUME NEW h \in Seq(Entries), NEW b \in Seq(Entries), b # <<>>
    PROVE  Append(h, Head(b)) \o Tail(b) = h \o b
<1>1. Head(b) \in Entries /\ Tail(b) \in Seq(Entries) /\ <<Head(b)>> \in Seq(Entries)
  BY HeadTailProperties
<1>2. b = <<Head(b)>> \o Tail(b)
  <2> DEFINE t == <<Head(b)>> \o Tail(b)
  <2>1. Len(b) \in Nat \ {0} /\ Head(b) = b[1] /\ Len(Tail(b)) = Len(b) - 1
        /\ \A i \in 1..(Len(b) - 1) : Tail(b)[i] = b[i + 1]
    BY EmptySeq, HeadTailProperties
  <2>2. /\ t \in Seq(Entries) /\ Len(t) = Len(<<Head(b)>>) + Len(Tail(b))
        /\ \A i \in 1..(Len(<<Head(b)>>) + Len(Tail(b))) :
              t[i] = IF i <= Len(<<Head(b)>>) THEN <<Head(b)>>[i] ELSE Tail(b)[i - Len(<<Head(b)>>)]
    BY <1>1, ConcatProperties, Zenon
  <2> HIDE DEF t
  <2>3. Len(t) = Len(b) /\ \A i \in 1..Len(b) : t[i] = b[i]
    BY <2>1, <2>2
  <2> QED
    BY <2>2, <2>3, SeqEqual DEF t
<1>3. Append(h, Head(b)) = h \o <<Head(b)>>
  BY <1>1, AppendIsConcat
<1> QED
  BY <1>1, <1>2, <1>3, ConcatAssociative

\* Every step keeps the order of what a subscriber gets.
LEMMA OrderedStep == Inv /\ Ordered /\ [Next]_vars => Ordered'
<1> SUFFICES ASSUME Inv, Ordered, [Next]_vars PROVE Ordered'
  OBVIOUS
<1>1. \A s \in Subscribers : /\ handled[s] \in Seq(Entries) /\ batch[s] \in Seq(Entries)
                             /\ queue[s] \in Seq(Entries) /\ delivered[s] \in Nat
                             /\ handled[s] \o batch[s] \in Seq(Entries)
  BY ConcatProperties DEF Inv, TypeOK
<1>2. CASE UNCHANGED <<handled, batch, queue, delivered>>
  BY <1>2 DEF Ordered, Stream, UpTo
<1>3. ASSUME NEW s \in Subscribers, Deliver(s) PROVE Ordered'
  <2> DEFINE h == handled[s] \o batch[s]
             r == PushBoundedEvent(queue[s], Capacity(s), Event(downstream))
  <2>1. /\ queue' = [queue EXCEPT ![s] = r] /\ delivered' = [delivered EXCEPT ![s] = downstream]
        /\ emitter = "fanning" /\ target = s /\ UNCHANGED <<handled, batch>>
    BY <1>3 DEF Deliver
  <2>2. /\ queue'[s] = r /\ delivered'[s] = downstream
        /\ \A t \in Subscribers : t # s => queue'[t] = queue[t] /\ delivered'[t] = delivered[t]
    BY <2>1 DEF Inv, TypeOK
  <2>3. downstream \in Nat /\ delivered[s] < downstream
    BY <2>1 DEF Inv, TypeOK, Progress, Subscribers
  <2>4. Len(queue[s]) <= Capacity(s) /\ Capacity(s) \in Nat /\ Capacity(s) >= 2
    BY CapacityFacts DEF Inv, QueueBounded
  <2>5. Ascending(h \o queue[s]) /\ UpTo(h \o queue[s], delivered[s])
    BY DEF Ordered, Stream
  <2>6. Ascending(h \o r) /\ UpTo(h \o r, downstream)
    BY <1>1, <2>3, <2>4, <2>5, PushAscending
  <2>7. Stream(s)' = h \o r
    BY <2>1, <2>2 DEF Stream
  <2>8. \A t \in Subscribers : t # s => Stream(t)' = Stream(t)
    BY <2>1, <2>2 DEF Stream
  <2> HIDE DEF h, r
  <2> QED
    BY <2>2, <2>6, <2>7, <2>8 DEF Ordered, UpTo, Ascending
<1>4. ASSUME NEW s \in Subscribers, WaitForEvents(s) \/ FinalDrain(s) PROVE Ordered'
  <2>1. /\ queue' = [queue EXCEPT ![s] = <<>>] /\ batch' = [batch EXCEPT ![s] = queue[s]]
        /\ UNCHANGED <<handled, delivered>> /\ worker[s] \in {"wait", "final_drain"}
    BY <1>4 DEF WaitForEvents, FinalDrain, Drain
  <2>2. batch[s] = <<>>
    BY <2>1 DEF Inv, Control
  <2>3. /\ queue'[s] = <<>> /\ batch'[s] = queue[s]
        /\ \A t \in Subscribers : t # s => queue'[t] = queue[t] /\ batch'[t] = batch[t]
    BY <2>1 DEF Inv, TypeOK
  <2>4. /\ handled[s] \o batch[s] = handled[s]
        /\ (handled[s] \o queue[s]) \o <<>> = handled[s] \o queue[s]
    BY <1>1, <2>2, ConcatEmptySeq, ConcatProperties
  <2>5. Stream(s)' = Stream(s)
    BY <2>1, <2>3, <2>4 DEF Stream
  <2>6. \A t \in Subscribers : Stream(t)' = Stream(t)
    BY <2>1, <2>3, <2>5 DEF Stream
  <2> QED
    BY <2>1, <2>6 DEF Ordered, Ascending, UpTo
<1>5. ASSUME NEW s \in Subscribers, Handle(s) PROVE Ordered'
  <2>1. /\ handled' = [handled EXCEPT ![s] = Append(handled[s], Head(batch[s]))]
        /\ batch' = [batch EXCEPT ![s] = Tail(batch[s])]
        /\ UNCHANGED <<queue, delivered>> /\ worker[s] \in {"handle", "handle_last"}
    BY <1>5 DEF Handle
  <2>2. batch[s] # <<>>
    BY <2>1 DEF Inv, Control
  <2>3. /\ handled'[s] = Append(handled[s], Head(batch[s])) /\ batch'[s] = Tail(batch[s])
        /\ \A t \in Subscribers : t # s => handled'[t] = handled[t] /\ batch'[t] = batch[t]
    BY <2>1 DEF Inv, TypeOK
  <2>4. Append(handled[s], Head(batch[s])) \o Tail(batch[s]) = handled[s] \o batch[s]
    BY <1>1, <2>2, HandleKeepsStream
  <2>5. \A t \in Subscribers : Stream(t)' = Stream(t)
    BY <2>1, <2>3, <2>4 DEF Stream
  <2> QED
    BY <2>1, <2>5 DEF Ordered, Ascending, UpTo
<1>6. CASE UNCHANGED vars
  BY <1>2, <1>6 DEF vars
<1>7. CASE Next
  <2>1. CASE EmitDownstream \/ RunReturns \/ Owner \/ Terminated
    BY <1>2, <2>1 DEF EmitDownstream, RunReturns, Owner, StopWorker, JoinWorker, Terminated, vars
  <2>2. ASSUME NEW s \in Subscribers, CheckStop(s) PROVE Ordered'
    BY <1>2, <2>2 DEF CheckStop
  <2> QED
    BY <1>3, <1>4, <1>5, <1>7, <2>1, <2>2 DEF Next, Emitter, Worker
<1> QED
  BY <1>6, <1>7

\* Handlers see events in the order they were emitted and none twice.
THEOREM InOrder == Spec => []HandledInOrder
<1>1. Init => Ordered
  <2> SUFFICES ASSUME Init, NEW s \in Subscribers PROVE Stream(s) = <<>>
    BY DEF Ordered, Ascending, UpTo
  <2> QED
    BY ConcatEmptySeq, EmptySeq DEF Init, Stream
<1>2. Ordered => HandledInOrder
  BY DEF Ordered, Ascending, HandledInOrder
<1> QED
  BY Invariant, OrderedStep, <1>1, <1>2, PTL DEF Spec
=============================================================================
