---------------------------- MODULE EventFanout ----------------------------
(***************************************************************************)
(* The runtime event fan-out of quorp_agent_core (runtime.rs): one emitter *)
(* (the agent run) hands every event to a downstream sink and then to the  *)
(* bounded queue of each subscriber; one worker thread per subscriber      *)
(* drains its queue and handles the events; the owner stops the workers    *)
(* one after the other when the run has returned.                          *)
(*                                                                         *)
(* Every subscriber is registered before the run emits its first event, so *)
(* registration is part of Init.  Payloads are abstracted to the number of *)
(* the event; the text of a backpressure marker to its count.              *)
(***************************************************************************)
EXTENDS Integers, Sequences, SequencesExt

CONSTANTS NumSubscribers,   \* subscribers, numbered in registration order
          RequestedCapacity,\* capacity asked for, per subscriber
          MaxEvents         \* bound: events the emitter emits

ASSUME SubscribersAssumption == NumSubscribers \in Nat \ {0}
ASSUME CapacityAssumption == RequestedCapacity \in [1..NumSubscribers -> Nat]
ASSUME MaxEventsAssumption == MaxEvents \in Nat

Subscribers == 1..NumSubscribers

\* MIN_RUNTIME_EVENT_QUEUE_CAPACITY: a smaller request is raised to 2, the room a
\* marker and the event that displaced the others need.
MinCapacity == 2
Capacity(s) == IF RequestedCapacity[s] < MinCapacity
               THEN MinCapacity ELSE RequestedCapacity[s]

VARIABLES
    downstream, \* events the downstream sink has recorded
    emitter,    \* "idle", "fanning" (holds the fan-out lock) or "finished"
    target,     \* the subscriber the fan-out loop serves next
    queue,      \* queue[s]: bounded queue of the subscription
    worker,     \* worker[s]: where the worker thread is
    batch,      \* batch[s]: drained entries still to be handled
    handled,    \* handled[s]: entries the handler was called with, in order
    stopFlag,   \* stopFlag[s]: the worker's stop flag
    stopping,   \* the worker the owner stops or joins next
    delivered,  \* history: newest event pushed into the queue of s
    drained     \* history: value of delivered[s] when s last drained its queue

vars == <<downstream, emitter, target, queue, worker, batch, handled,
          stopFlag, stopping, delivered, drained>>

Event(n) == [kind |-> "event", n |-> n]
Marker(d) == [kind |-> "backpressure", n |-> d]
Entries == [kind : {"event", "backpressure"}, n : Nat]
IsMarker(e) == e.kind = "backpressure"

\* Fault for RequiredSlots: the slot of the marker is forgotten.
RequiredSlotsWithoutMarker(e) == 1

\* Slots a displaced queue must free: the event and, for an ordinary event, its marker.
RequiredSlots(e) == IF IsMarker(e) THEN 1 ELSE 2

DroppedEvents(q, capacity, e) == Len(q) + RequiredSlots(e) - capacity

\* Fault for Displace: the marker is left out.
DisplaceSilently(q, dropped, e) == Append(SubSeq(q, dropped + 1, Len(q)), e)

\* The oldest entries make room; one marker says how many went.
Displace(q, dropped, e) ==
    SubSeq(q, dropped + 1, Len(q))
        \o (IF IsMarker(e) THEN <<e>> ELSE <<Marker(dropped), e>>)

\* Fault for PushBoundedEvent: a full queue refuses the new event instead of the oldest.
PushUnlessFull(q, capacity, e) == IF Len(q) < capacity THEN Append(q, e) ELSE q

PushBoundedEvent(q, capacity, e) ==
    IF Len(q) < capacity
    THEN Append(q, e)
    ELSE Displace(q, DroppedEvents(q, capacity, e), e)

Init ==
    /\ downstream = 0
    /\ emitter = "idle"
    /\ target = 1
    /\ queue = [s \in Subscribers |-> <<>>]
    /\ worker = [s \in Subscribers |-> "check"]
    /\ batch = [s \in Subscribers |-> <<>>]
    /\ handled = [s \in Subscribers |-> <<>>]
    /\ stopFlag = [s \in Subscribers |-> FALSE]
    /\ stopping = 1
    /\ delivered = [s \in Subscribers |-> 0]
    /\ drained = [s \in Subscribers |-> 0]

-----------------------------------------------------------------------------
(* The emitter *)

\* The downstream sink sees an event before any queue does; then the fan-out lock is taken.
EmitDownstream ==
    /\ emitter = "idle"
    /\ downstream < MaxEvents
    /\ downstream' = downstream + 1
    /\ emitter' = "fanning"
    /\ target' = 1
    /\ UNCHANGED <<queue, worker, batch, handled, stopFlag, stopping, delivered, drained>>

\* Fault for NextTarget: the loop does not end at the last subscriber.
NextTargetPastEnd(s) == s + 1

NextTarget(s) == IF s = NumSubscribers THEN 1 ELSE s + 1

\* One turn of the loop over the subscribers, under the lock of that queue.
Deliver(s) ==
    /\ emitter = "fanning"
    /\ target = s
    /\ queue' = [queue EXCEPT ![s] = PushBoundedEvent(@, Capacity(s), Event(downstream))]
    /\ delivered' = [delivered EXCEPT ![s] = downstream]
    /\ emitter' = IF s = NumSubscribers THEN "idle" ELSE emitter
    /\ target' = NextTarget(s)
    /\ UNCHANGED <<downstream, worker, batch, handled, stopFlag, stopping, drained>>

\* run_agent_task has returned: nothing is emitted any more.
RunReturns ==
    /\ emitter = "idle"
    /\ emitter' = "finished"
    /\ UNCHANGED <<downstream, target, queue, worker, batch, handled, stopFlag,
                   stopping, delivered, drained>>

-----------------------------------------------------------------------------
(* A worker thread *)

\* Fault for CheckStop: the stop flag ends the worker without a final drain.
CheckStopWithoutDrain(s) ==
    /\ worker[s] = "check"
    /\ worker' = [worker EXCEPT ![s] = IF stopFlag[s] THEN "done" ELSE "wait"]
    /\ UNCHANGED <<downstream, emitter, target, queue, batch, handled, stopFlag,
                   stopping, delivered, drained>>

\* Top of the loop: the stop flag is read without the queue lock.
CheckStop(s) ==
    /\ worker[s] = "check"
    /\ worker' = [worker EXCEPT ![s] = IF stopFlag[s] THEN "final_drain" ELSE "wait"]
    /\ UNCHANGED <<downstream, emitter, target, queue, batch, handled, stopFlag,
                   stopping, delivered, drained>>

\* Fault for Drain: the entries are copied and stay in the queue.
DrainCopies(s) ==
    /\ batch' = [batch EXCEPT ![s] = queue[s]]
    /\ queue' = queue
    /\ drained' = [drained EXCEPT ![s] = delivered[s]]

\* drain() takes the whole queue under its lock.
Drain(s) ==
    /\ batch' = [batch EXCEPT ![s] = queue[s]]
    /\ queue' = [queue EXCEPT ![s] = <<>>]
    /\ drained' = [drained EXCEPT ![s] = delivered[s]]

\* Fault for WaitForEvents: the wait has no timeout.
WaitWithoutTimeout(s) ==
    /\ worker[s] = "wait"
    /\ queue[s] # <<>>
    /\ Drain(s)
    /\ worker' = [worker EXCEPT ![s] = "handle"]
    /\ UNCHANGED <<downstream, emitter, target, handled, stopFlag, stopping, delivered>>

\* wait_for_events: returns with what is queued, or with nothing after its timeout.
WaitForEvents(s) ==
    /\ worker[s] = "wait"
    /\ Drain(s)
    /\ worker' = [worker EXCEPT ![s] = IF queue[s] = <<>> THEN "check" ELSE "handle"]
    /\ UNCHANGED <<downstream, emitter, target, handled, stopFlag, stopping, delivered>>

FinalDrain(s) ==
    /\ worker[s] = "final_drain"
    /\ Drain(s)
    /\ worker' = [worker EXCEPT ![s] = IF queue[s] = <<>> THEN "done" ELSE "handle_last"]
    /\ UNCHANGED <<downstream, emitter, target, handled, stopFlag, stopping, delivered>>

\* After the last entry of a batch the loop goes round, or ends after the final drain.
AfterBatch(pc) == IF pc = "handle_last" THEN "done" ELSE "check"

Handle(s) ==
    /\ worker[s] \in {"handle", "handle_last"}
    /\ handled' = [handled EXCEPT ![s] = Append(@, Head(batch[s]))]
    /\ batch' = [batch EXCEPT ![s] = Tail(@)]
    /\ worker' = [worker EXCEPT ![s] = IF Len(batch[s]) = 1 THEN AfterBatch(@) ELSE @]
    /\ UNCHANGED <<downstream, emitter, target, queue, stopFlag, stopping, delivered, drained>>

-----------------------------------------------------------------------------
(* The owner: DurableRuntimeConsumers::stop, after the run has returned *)

StopWorker(s) ==
    /\ emitter = "finished"
    /\ stopping = s
    /\ ~stopFlag[s]
    /\ stopFlag' = [stopFlag EXCEPT ![s] = TRUE]
    /\ UNCHANGED <<downstream, emitter, target, queue, worker, batch, handled,
                   stopping, delivered, drained>>

JoinWorker(s) ==
    /\ stopping = s
    /\ stopFlag[s]
    /\ worker[s] = "done"
    /\ stopping' = s + 1
    /\ UNCHANGED <<downstream, emitter, target, queue, worker, batch, handled,
                   stopFlag, delivered, drained>>

-----------------------------------------------------------------------------
Emitter == EmitDownstream \/ (\E s \in Subscribers : Deliver(s)) \/ RunReturns
Worker(s) == CheckStop(s) \/ WaitForEvents(s) \/ FinalDrain(s) \/ Handle(s)
Owner == \E s \in Subscribers : StopWorker(s) \/ JoinWorker(s)

\* stop() has returned for every worker.
Stopped == stopping = NumSubscribers + 1
Terminated == Stopped /\ UNCHANGED vars

Next == Emitter \/ (\E s \in Subscribers : Worker(s)) \/ Owner \/ Terminated

Spec == Init /\ [][Next]_vars

\* The threads are scheduled: the run emits and returns, each worker runs on, the owner
\* goes on with its loop.
FairSpec ==
    /\ Spec
    /\ WF_vars(Emitter)
    /\ \A s \in Subscribers : WF_vars(Worker(s))
    /\ WF_vars(Owner)

-----------------------------------------------------------------------------
(* Properties *)

WorkerStates == {"check", "wait", "handle", "final_drain", "handle_last", "done"}

\* Type invariant.
TypeOK ==
    /\ downstream \in Nat
    /\ emitter \in {"idle", "fanning", "finished"}
    /\ target \in Subscribers
    /\ queue \in [Subscribers -> Seq(Entries)]
    /\ worker \in [Subscribers -> WorkerStates]
    /\ batch \in [Subscribers -> Seq(Entries)]
    /\ handled \in [Subscribers -> Seq(Entries)]
    /\ stopFlag \in [Subscribers -> BOOLEAN]
    /\ stopping \in 1..(NumSubscribers + 1)
    /\ delivered \in [Subscribers -> Nat]
    /\ drained \in [Subscribers -> Nat]

\* A slow subscriber costs at most its capacity: push_bounded_event never lets a queue
\* grow past it, the marker it adds included.
QueueBounded == \A s \in Subscribers : Len(queue[s]) <= Capacity(s)

\* Nothing disappears unnoticed: of the events pushed since the subscriber last drained
\* its queue, each is still queued or the queue holds a backpressure marker -- also after
\* repeated overflows, which drop earlier markers.
NoSilentLoss ==
    \A s \in Subscribers : \A n \in (drained[s] + 1)..delivered[s] :
        \/ \E i \in DOMAIN queue[s] : queue[s][i] = Event(n)
        \/ \E i \in DOMAIN queue[s] : IsMarker(queue[s][i])

\* What an overflow drops is never the newest event: a queue that is not empty ends with
\* the event pushed last (so RunFinished always reaches the worker).
NewestSurvives ==
    \A s \in Subscribers : queue[s] # <<>> => Last(queue[s]) = Event(delivered[s])

\* Everything the handler of s has seen, is about to see, or will find in its queue.
Stream(s) == handled[s] \o batch[s] \o queue[s]

\* Handlers see events in the order they were emitted and none twice, over any number of
\* drains and overflows.
HandledInOrder ==
    \A s \in Subscribers :
        \A i, j \in DOMAIN Stream(s) :
            i < j /\ ~IsMarker(Stream(s)[i]) /\ ~IsMarker(Stream(s)[j])
                => Stream(s)[i].n < Stream(s)[j].n

\* A worker that has been joined left nothing behind: the stop flag may be seen while the
\* queue still holds events, and the final drain handles them, the last event among them.
JoinedIsCaughtUp ==
    \A s \in Subscribers : s < stopping =>
        /\ queue[s] = <<>> /\ batch[s] = <<>>
        /\ downstream > 0 => handled[s] # <<>> /\ Last(handled[s]) = Event(downstream)

\* stop() returns: no worker waits forever for an event that does not come.
StopReturns == <>Stopped
=============================================================================
