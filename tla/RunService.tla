----------------------------- MODULE RunService -----------------------------
(***************************************************************************)
(* The desktop's run service: every start registers an entry under an id   *)
(* and spawns a task that tells the run's channel of its progress.  A demo *)
(* run sends two batches of its own.  A real run puts the agent on a       *)
(* blocking thread; its runtime events go through a pipe to a drainer task *)
(* that numbers and batches them.  cancel_run() finds the entry by the id; *)
(* so does mark_finished() when the task is done.                          *)
(*                                                                         *)
(* The fields of an entry have a lock each: mark_finished() writes three   *)
(* of them one after the other, cancel_run() the flag and then the phase,  *)
(* and status() may come between.  All three hold the registry's lock for  *)
(* reading until they return, so no start registers meanwhile; status()    *)
(* holds the field locks it took as well, so what it returns is what the   *)
(* entry is when it takes the last of them.                                *)
(*                                                                         *)
(* An id is the millisecond of the start, so two starts may share one.     *)
(* What the agent does is AgentRun's; here it emits events and returns.    *)
(***************************************************************************)
EXTENDS Integers, Sequences, FiniteSets

CONSTANTS MaxStarts,  \* bound: the calls of start_demo_run and start_real_run
          Kinds,      \* bound: Kinds[s]: the kinds, "demo" or "real", start s may be of
          Labels,     \* bound: stop reasons of the agent
          BatchLimit, \* events the drainer puts in one batch at most (128)
          NoRun,
          MaxEvents,  \* bound: runtime events of a real run
          MaxTicks,   \* bound: milliseconds that pass
          MaxClosed,  \* bound: channels that lose their receiver
          MaxCancelled \* bound: runs that are cancelled, each as often as one likes

\* Starts are numbered in their order.
Starts == 1..MaxStarts

\* map_stop_reason: the labels of the agent's stop reasons, as the desktop reports them.
StopReasonOf ==
    [Success |-> "Completed", Cancelled |-> "Cancelled", BudgetExhausted |-> "BudgetExhausted",
     TimeBudgetExhausted |-> "Timeout", MaxIterations |-> "Completed",
     PendingValidation |-> "Completed", FatalError |-> "UnknownError"]

\* Fault for Reported: the agent's own label is passed on.
ReportedVerbatim(label) == label

Reported(label) == StopReasonOf[label]

Reasons == {"Completed", "Cancelled", "BudgetExhausted", "Timeout", "UnknownError", "FatalError"}

ASSUME RunServiceAssumption ==
    /\ MaxStarts \in Nat
    /\ Kinds \in [Starts -> SUBSET {"demo", "real"}]
    /\ Labels \subseteq DOMAIN StopReasonOf
    /\ BatchLimit \in Nat \ {0}
    /\ NoRun \notin Starts
    /\ {MaxEvents, MaxTicks, MaxClosed, MaxCancelled} \subseteq Nat

DemoBatches == 2
Unminted == -1
RunIds == 0..MaxTicks

VARIABLES
    clock,     \* the millisecond
    minted,    \* minted[s]: id of the run that s started, or Unminted
    kind,      \* kind[s]: "demo" or "real"
    registry,  \* registry[id]: the start whose entry is registered under id
    task,      \* task[s]: how far the spawned task is
    cancelled, \* cancelled[s]: the cancellation flag
    phase,     \* phase[s], finished[s], reason[s]: the entry, as status() reads it
    finished,
    reason,
    marked,    \* marked[s]: how many of its three writes the mark_finished of s has done
    cancelling,\* the runs whose flag a cancel_run has stored, and not yet their phase
    open,      \* open[s]: whether the run's channel has a receiver
    sent,      \* sent[s]: the events sent to it
    batches,   \* batches[s]: the batch_seq of the next batch
    emitted,   \* emitted[s]: runtime events of the agent
    numbered,   \* numbered[s]: those the drainer has numbered
    drainer,   \* drainer[s]: "off", "running" or "done"
    ended,     \* ended[s]: how the run ended, as the task has it
    early      \* history: runs whose phase a cancel_run had set before their task set Running

entry == <<phase, finished, reason, marked, cancelling>>
agent == <<batches, emitted, numbered, drainer>>
runVars == <<clock, minted, kind, registry, task, cancelled, entry, open, sent, agent, ended,
             early>>

RunInit ==
    /\ clock = 0
    /\ minted = [s \in Starts |-> Unminted]
    /\ kind = [s \in Starts |-> "demo"]
    /\ registry = [i \in RunIds |-> NoRun]
    /\ task = [s \in Starts |-> "none"]
    /\ cancelled = [s \in Starts |-> FALSE]
    /\ phase = [s \in Starts |-> "Starting"]
    /\ finished = [s \in Starts |-> FALSE]
    /\ reason = [s \in Starts |-> "none"]
    /\ marked = [s \in Starts |-> 0]
    /\ cancelling = {}
    /\ open = [s \in Starts |-> TRUE]
    /\ sent = [s \in Starts |-> <<>>]
    /\ batches = [s \in Starts |-> 0]
    /\ emitted = [s \in Starts |-> 0]
    /\ numbered = [s \in Starts |-> 0]
    /\ drainer = [s \in Starts |-> "off"]
    /\ ended = [s \in Starts |-> "none"]
    /\ early = {}

\* An event of a run: its kind, its batch_seq, and the seq of its first and last runtime event.
Event(k, batch, first, last) == [kind |-> k, batch |-> batch, first |-> first, last |-> last]
Milestone(k) == Event(k, 0, 0, 0)

\* What is sent to a channel without a receiver is gone.
Send(s, e) == sent' = IF open[s] THEN [sent EXCEPT ![s] = Append(@, e)] ELSE sent

\* A batch of the run; whoever sends it counts it, whether or not anybody listens.
SendBatch(s, first, last) ==
    /\ Send(s, Event("Runtime", batches[s], first, last))
    /\ batches' = [batches EXCEPT ![s] = @ + 1]

Step(s, from, to) ==
    /\ task[s] = from
    /\ task' = [task EXCEPT ![s] = to]

-----------------------------------------------------------------------------
(* Starting and cancelling *)

\* Bound: the clock is of interest only to starts that are to come.
Tick ==
    /\ clock < MaxTicks
    /\ \E s \in Starts : task[s] = "none"
    /\ clock' = clock + 1
    /\ UNCHANGED <<minted, kind, registry, task, cancelled, entry, open, sent, agent, ended, early>>

\* Nobody holds the lock of the registry: no cancel_run and no mark_finished is under way.
RegistryFree == cancelling = {} /\ \A s \in Starts : marked[s] \in {0, 3}

\* The entry goes to the map under its id, over the one that is there if any.
Start(s, k) ==
    /\ RegistryFree
    /\ Step(s, "none", "spawned")
    /\ \A earlier \in 1..(s - 1) : task[earlier] # "none"
    /\ minted' = [minted EXCEPT ![s] = clock]
    /\ kind' = [kind EXCEPT ![s] = k]
    /\ registry' = [registry EXCEPT ![clock] = s]
    /\ UNCHANGED <<clock, cancelled, entry, open, sent, agent, ended, early>>

\* Fault for CancelRun: the flag is not set.
CancelRunInName(i) ==
    /\ registry[i] # NoRun
    /\ cancelling' = cancelling \cup {registry[i]}
    /\ UNCHANGED <<clock, minted, kind, registry, task, cancelled, phase, finished, reason, marked,
                   open, sent, agent, ended, early>>

\* Whatever the phase is, finished or not; the phase is still to be written.
CancelRun(i) ==
    /\ registry[i] # NoRun
    /\ Cardinality({s \in Starts : cancelled[s]} \ {registry[i]}) < MaxCancelled
    /\ cancelled' = [cancelled EXCEPT ![registry[i]] = TRUE]
    /\ cancelling' = cancelling \cup {registry[i]}
    /\ UNCHANGED <<clock, minted, kind, registry, task, phase, finished, reason, marked, open, sent,
                   agent, ended, early>>

CancelPhase(s) ==
    /\ s \in cancelling
    /\ cancelling' = cancelling \ {s}
    /\ phase' = [phase EXCEPT ![s] = "Cancelling"]
    /\ early' = IF task[s] \in {"spawned", "announced"} THEN early \cup {s} ELSE early
    /\ UNCHANGED <<clock, minted, kind, registry, task, cancelled, finished, reason, marked, open,
                   sent, agent, ended>>

\* Bound: after the last event it makes no difference.
CloseChannel(s) ==
    /\ open[s] /\ task[s] \notin {"none", "over"}
    /\ Cardinality({other \in Starts : ~open[other]}) < MaxClosed
    /\ open' = [open EXCEPT ![s] = FALSE]
    /\ UNCHANGED <<clock, minted, kind, registry, task, cancelled, entry, sent, agent, ended, early>>

-----------------------------------------------------------------------------
(* The task of a run *)

\* The task is done; closed says that it found its channel closed.
Finishing(s, from, outcome, closed) ==
    /\ Step(s, from, IF closed THEN "markingQuietly" ELSE "marking")
    /\ ended' = [ended EXCEPT ![s] = outcome]

\* Only a demo run minds that nobody listens.
AnnounceRun(s) ==
    /\ Send(s, Milestone("RunStarted"))
    /\ IF kind[s] = "demo" /\ ~open[s]
       THEN Finishing(s, "spawned", "UnknownError", TRUE)
       ELSE Step(s, "spawned", "announced") /\ UNCHANGED ended
    /\ UNCHANGED <<clock, minted, kind, registry, cancelled, entry, open, agent, early>>

SetRunning(s) ==
    /\ Step(s, "announced", "driving")
    /\ phase' = [phase EXCEPT ![s] = "Running"]
    /\ drainer' = [drainer EXCEPT ![s] = IF kind[s] = "real" THEN "running" ELSE "off"]
    /\ UNCHANGED <<clock, minted, kind, registry, cancelled, finished, reason, marked, cancelling,
                   open, sent, batches, emitted, numbered, ended, early>>

\* Before each of its batches a demo run looks at its flag.
DemoBatch(s) ==
    /\ kind[s] = "demo" /\ task[s] = "driving"
    /\ batches[s] < DemoBatches
    /\ IF cancelled[s]
       THEN Finishing(s, "driving", "Cancelled", FALSE) /\ UNCHANGED <<sent, batches>>
       ELSE IF ~open[s]
       THEN Finishing(s, "driving", "UnknownError", TRUE) /\ UNCHANGED <<sent, batches>>
       ELSE SendBatch(s, 2 * batches[s], 2 * batches[s] + 1) /\ UNCHANGED <<task, ended>>
    /\ UNCHANGED <<clock, minted, kind, registry, cancelled, entry, open, emitted, numbered, drainer, early>>

DemoDone(s) ==
    /\ kind[s] = "demo"
    /\ batches[s] = DemoBatches
    /\ Finishing(s, "driving", "Completed", FALSE)
    /\ UNCHANGED <<clock, minted, kind, registry, cancelled, entry, open, sent, agent, early>>

AgentEmits(s) ==
    /\ kind[s] = "real" /\ task[s] = "driving"
    /\ emitted[s] < MaxEvents
    /\ emitted' = [emitted EXCEPT ![s] = @ + 1]
    /\ UNCHANGED <<clock, minted, kind, registry, task, cancelled, entry, open, sent, batches,
                   numbered, drainer, ended, early>>

\* The agent stops as Cancelled when it finds the flag, which it need not; the setup of the
\* run may fail, or the thread of the agent panic: FatalError.
AgentReturns(s) ==
    /\ kind[s] = "real"
    /\ Step(s, "driving", "returned")
    /\ \/ \E label \in Labels :
             /\ label = "Cancelled" => cancelled[s]
             /\ ended' = [ended EXCEPT ![s] = Reported(label)]
       \/ ended' = [ended EXCEPT ![s] = "FatalError"]
    /\ UNCHANGED <<clock, minted, kind, registry, cancelled, entry, open, sent, agent, early>>

\* Everything that is queued, up to the limit, becomes one batch.
Drain(s) ==
    /\ drainer[s] = "running"
    /\ numbered[s] < emitted[s]
    /\ LET last == IF emitted[s] - numbered[s] > BatchLimit THEN numbered[s] + BatchLimit
                                                          ELSE emitted[s]
       IN /\ SendBatch(s, numbered[s], last - 1)
          /\ numbered' = [numbered EXCEPT ![s] = last]
    /\ UNCHANGED <<clock, minted, kind, registry, task, cancelled, entry, open, emitted, drainer,
                   ended, early>>

\* Fault for PipeClosed: the task keeps its sink while it waits for the drainer.
PipeClosedLate(s) == task[s] = "marking"

\* The pipe is closed: the agent has returned, and the task has dropped its own sink.
PipeClosed(s) == task[s] = "returned"

DrainerEnds(s) ==
    /\ drainer[s] = "running"
    /\ numbered[s] = emitted[s]
    /\ PipeClosed(s)
    /\ drainer' = [drainer EXCEPT ![s] = "done"]
    /\ UNCHANGED <<clock, minted, kind, registry, task, cancelled, entry, open, sent, batches,
                   emitted, numbered, ended, early>>

\* Fault for JoinDrainer: the task does not wait.
JoinDrainerAtOnce(s) ==
    /\ Step(s, "returned", "marking")
    /\ UNCHANGED <<clock, minted, kind, registry, cancelled, entry, open, sent, agent, ended, early>>

JoinDrainer(s) ==
    /\ drainer[s] = "done"
    /\ Step(s, "returned", "marking")
    /\ UNCHANGED <<clock, minted, kind, registry, cancelled, entry, open, sent, agent, ended, early>>

\* mark_finished: the entry of the id, which a later start of the same id has replaced.
Marking(s) == task[s] \in {"marking", "markingQuietly"}
EntryOf(s) == registry[minted[s]]
Mark(s, from, to) ==
    /\ Marking(s)
    /\ marked[s] = from
    /\ marked' = [marked EXCEPT ![s] = to]
    /\ UNCHANGED <<clock, minted, kind, registry, cancelled, cancelling, open, sent, agent, ended,
                   early>>

MarkPhase(s) ==
    /\ Mark(s, 0, 1)
    /\ phase' = [phase EXCEPT ![EntryOf(s)] = IF ended[s] = "Cancelled" THEN "Cancelling"
                                                                       ELSE "Finished"]
    /\ UNCHANGED <<task, finished, reason>>

MarkTime(s) ==
    /\ Mark(s, 1, 2)
    /\ finished' = [finished EXCEPT ![EntryOf(s)] = TRUE]
    /\ UNCHANGED <<task, phase, reason>>

MarkReason(s) ==
    /\ Mark(s, 2, 3)
    /\ reason' = [reason EXCEPT ![EntryOf(s)] = ended[s]]
    /\ task' = [task EXCEPT ![s] = IF task[s] = "marking" THEN "telling" ELSE "over"]
    /\ UNCHANGED <<phase, finished>>

MarkFinished(s) == MarkPhase(s) \/ MarkTime(s) \/ MarkReason(s)

Tell(s) ==
    /\ Step(s, "telling", "over")
    /\ Send(s, Milestone(IF ended[s] = "FatalError" THEN "RunFailed" ELSE "RunFinished"))
    /\ UNCHANGED <<clock, minted, kind, registry, cancelled, entry, open, agent, ended, early>>

-----------------------------------------------------------------------------
RunTask(s) == \/ AnnounceRun(s) \/ SetRunning(s) \/ DemoBatch(s) \/ DemoDone(s) \/ AgentReturns(s)
              \/ JoinDrainer(s) \/ MarkFinished(s) \/ Tell(s)
Drainer(s) == Drain(s) \/ DrainerEnds(s)

RunNext ==
    \/ Tick
    \/ \E s \in Starts : \/ \E k \in Kinds[s] : Start(s, k)
                         \/ CloseChannel(s) \/ AgentEmits(s) \/ RunTask(s) \/ Drainer(s)
                         \/ CancelPhase(s)
    \/ \E i \in RunIds : CancelRun(i)

RunSpec == RunInit /\ [][RunNext]_runVars

-----------------------------------------------------------------------------
(* Properties *)

\* Every variable keeps its type.
RunTypeOK ==
    /\ clock \in RunIds
    /\ minted \in [Starts -> RunIds \cup {Unminted}]
    /\ kind \in [Starts -> {"demo", "real"}]
    /\ registry \in [RunIds -> Starts \cup {NoRun}]
    /\ task \in [Starts -> {"none", "spawned", "announced", "driving", "returned", "marking",
                            "markingQuietly", "telling", "over"}]
    /\ cancelled \in [Starts -> BOOLEAN] /\ finished \in [Starts -> BOOLEAN]
    /\ open \in [Starts -> BOOLEAN]
    /\ phase \in [Starts -> {"Starting", "Running", "Cancelling", "Finished"}]
    /\ reason \in [Starts -> Reasons \cup {"none"}]
    /\ ended \in [Starts -> Reasons \cup {"none"}]
    /\ \A s \in Starts : batches[s] \in 0..(DemoBatches + MaxEvents)
    /\ emitted \in [Starts -> 0..MaxEvents] /\ numbered \in [Starts -> 0..MaxEvents]
    /\ drainer \in [Starts -> {"off", "running", "done"}]
    /\ marked \in [Starts -> 0..3]
    /\ cancelling \subseteq Starts /\ early \subseteq Starts
    /\ \A s \in Starts : \A i \in DOMAIN sent[s] : DOMAIN sent[s][i] = DOMAIN Milestone("none")

Terminal == {"RunFinished", "RunFailed"}

\* "Wait for it before announcing terminal events": RunStarted comes first, batches and their
\* events are numbered without a gap, and the terminal event is the last; a channel that was
\* open all along has every event of the agent by then.
StreamInOrder ==
    \A s \in Starts :
        LET stream == sent[s] IN
        /\ \A i \in DOMAIN stream :
              /\ stream[i].kind = "RunStarted" <=> i = 1
              /\ stream[i].kind \in Terminal => i = Len(stream)
              /\ stream[i].kind = "Runtime" =>
                    /\ stream[i].batch = i - 2
                    /\ stream[i].first = IF i = 2 THEN 0 ELSE stream[i - 1].last + 1
        /\ open[s] /\ kind[s] = "real" /\ task[s] = "over" =>
              LET last == stream[Len(stream) - 1] IN
              IF emitted[s] = 0 THEN last.kind = "RunStarted" ELSE last.last = emitted[s] - 1

\* No other start has the id of s.
Alone(s) == \A other \in Starts \ {s} : minted[other] # minted[s]

\* What status() says of a run that shares its id with no other, also between the three writes
\* of mark_finished and the two of cancel_run: it has an end, or is Finished, only once its task
\* is marking it; a reason says how the task ended and comes with an end; when the task tells the
\* end, both are there.  It is Cancelling after its end only if somebody cancelled it, and one that
\* is Running although cancelled is about to be set Cancelling, or was before its task set Running
\* (the task overwrites the phase, and cancel_run() that of a finished run).
StatusTracksTask ==
    \A s \in Starts : Alone(s) =>
        /\ finished[s] \/ phase[s] = "Finished" => Marking(s) \/ task[s] \in {"telling", "over"}
        /\ reason[s] # "none" => finished[s] /\ reason[s] = ended[s]
        /\ task[s] \in {"telling", "over"} => finished[s] /\ reason[s] # "none"
        /\ finished[s] /\ phase[s] # "Finished" => cancelled[s]
        /\ ~finished[s] /\ phase[s] = "Running" /\ cancelled[s] => s \in early \cup cancelling
        /\ reason[s] = "Cancelled" => cancelled[s]

\* To be so in the end: every run that is started ends and is marked, the drainer included, given
\* that the agent returns, whoever cancels it, however often, or stops listening.
RunsSettled == \A s \in Starts : task[s] \in {"none", "over"}
=============================================================================
