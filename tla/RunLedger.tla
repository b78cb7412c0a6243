----------------------------- MODULE RunLedger -----------------------------
(***************************************************************************)
(* The run ledger (run-ledger.jsonl) and its durable consumers: the        *)
(* recorder appends one line per runtime event; each consumer follows the  *)
(* ledger from the cursor it keeps on disk, takes the effects of an event  *)
(* (its own journal, memory, rule forge) and then commits the cursor.      *)
(*                                                                         *)
(* A session is a first run or a resume.  It catches every consumer up,    *)
(* starts one worker per consumer, runs the agent, joins the workers and   *)
(* catches the consumers up a last time.  The process may be killed        *)
(* between any two steps; what is on disk stays.                           *)
(*                                                                         *)
(* Events are numbered in ledger order; the hash chain holds by            *)
(* construction and is abstracted to "every line parses".  The queue of    *)
(* wake signals is EventFanout's; here it is a count.                      *)
(***************************************************************************)
EXTENDS Integers

CONSTANTS NumConsumers, \* durable consumers, in the order they are spawned
          ReadLimit,    \* events one read returns at most (1024)
          MaxAttempts,  \* attempts of a pass (3)
          MaxEvents,    \* bound: events of a session
          MaxSessions,  \* bound: sessions of a run
          MaxFailures   \* bound: failed reads and writes

ASSUME ConsumersAssumption == NumConsumers \in Nat \ {0}
ASSUME ReadLimitAssumption == ReadLimit \in Nat \ {0}
ASSUME AttemptsAssumption == MaxAttempts \in Nat \ {0}
ASSUME BoundsAssumption == {MaxEvents, MaxSessions, MaxFailures} \subseteq Nat

Consumers == 1..NumConsumers

\* A cursor file that was truncated and not written again does not parse.
Torn == -1

VARIABLES
    phase,    \* of the session, or how the last one ended
    next,     \* the consumer that is spawned or caught up next
    sessions, \* sessions so far
    saved,    \* "none" or "checkpoint": whether there is a checkpoint.json
    events,   \* events the session has emitted
    recorder, \* "idle" or "writing": in the middle of a line
    log,      \* events whose line is in the ledger
    tail,     \* "clean", "partial" or "whole" (no newline) last line, or "glued"
    wakes,    \* wakes[c]: wake signals queued for the worker of c
    cursor,   \* cursor[c]: cursor.json of c
    pass,     \* pass[c]: where c is in process_missing_runtime_ledger_events
    attempt,  \* attempt[c]: failed attempts of the pass
    position, \* position[c]: the pass's own copy of the cursor
    upto,     \* upto[c]: last event the pass has read
    taken,    \* history: the event whose effects c took last
    failures, \* history: failed reads and writes
    lost      \* history: events that never reached the ledger

session == <<phase, next, sessions, saved>>
ledger == <<events, recorder, log, tail, lost>>
vars == <<phase, next, sessions, saved, events, recorder, log, tail, wakes, cursor, pass,
          attempt, position, upto, taken, failures, lost>>

Init ==
    /\ phase = "spawning"
    /\ next = 1
    /\ sessions = 1
    /\ saved = "none"
    /\ events = 0
    /\ recorder = "idle"
    /\ log = 0
    /\ tail = "clean"
    /\ wakes = [c \in Consumers |-> 0]
    /\ cursor = [c \in Consumers |-> 0]
    /\ pass = [c \in Consumers |-> "none"]
    /\ attempt = [c \in Consumers |-> 0]
    /\ position = [c \in Consumers |-> 0]
    /\ upto = [c \in Consumers |-> 0]
    /\ taken = [c \in Consumers |-> 0]
    /\ failures = 0
    /\ lost = 0

\* validate_hash_chain accepts a last line without its newline.
Readable == tail \in {"clean", "whole"}

MayFail == failures < MaxFailures

-----------------------------------------------------------------------------
(* The recorder: append_event_record opens (and validates) the ledger for each event, *)
(* writes the line, then its newline; an error is only logged                         *)

Emitting ==
    /\ phase = "running"
    /\ recorder = "idle"
    /\ events < MaxEvents
    /\ events' = events + 1

\* The fan-out wakes every worker, whatever became of the record.
WakeAll == wakes' = [c \in Consumers |-> wakes[c] + 1]

BeginLine ==
    /\ Emitting
    /\ Readable
    /\ recorder' = "writing"
    /\ tail' = IF tail = "whole" THEN "glued" ELSE "partial"
    /\ UNCHANGED <<session, log, lost, wakes, cursor, pass, attempt, position, upto,
                   taken, failures>>

\* Nothing can be appended to a ledger that does not validate.
AppendRefused ==
    /\ Emitting
    /\ ~Readable
    /\ lost' = lost + 1
    /\ WakeAll
    /\ UNCHANGED <<session, recorder, log, tail, cursor, pass, attempt, position, upto,
                   taken, failures>>

AppendFails ==
    /\ Emitting
    /\ Readable /\ MayFail
    /\ failures' = failures + 1
    /\ lost' = lost + 1
    /\ WakeAll
    /\ UNCHANGED <<session, recorder, log, tail, cursor, pass, attempt, position, upto, taken>>

\* The line parses from its last byte on.
EndLine ==
    /\ recorder = "writing"
    /\ tail = "partial"
    /\ tail' = "whole"
    /\ log' = log + 1
    /\ UNCHANGED <<session, events, recorder, lost, wakes, cursor, pass, attempt, position,
                   upto, taken, failures>>

\* The append returns; a line glued to an unfinished one never parses.
EndAppend ==
    /\ recorder = "writing"
    /\ tail \in {"whole", "glued"}
    /\ recorder' = "idle"
    /\ tail' = IF tail = "whole" THEN "clean" ELSE tail
    /\ lost' = IF tail = "whole" THEN lost ELSE lost + 1
    /\ WakeAll
    /\ UNCHANGED <<session, events, log, cursor, pass, attempt, position, upto, taken, failures>>

\* The disk refuses the rest of the line, or its newline.
LineFails ==
    /\ recorder = "writing" /\ MayFail
    /\ recorder' = "idle"
    /\ failures' = failures + 1
    /\ lost' = IF tail = "whole" THEN lost ELSE lost + 1
    /\ WakeAll
    /\ UNCHANGED <<session, events, log, tail, cursor, pass, attempt, position, upto, taken>>

-----------------------------------------------------------------------------
(* A pass of consumer c over what it is missing, retried by                    *)
(* process_missing_runtime_ledger_events_with_retry                            *)

BeginPass(c) ==
    /\ pass[c] = "none"
    /\ pass' = [pass EXCEPT ![c] = "read"]
    /\ attempt' = [attempt EXCEPT ![c] = 0]

\* A worker passes on every wake; while it is joined it works off those still queued.
Wake(c) ==
    /\ phase \in {"running", "joining"}
    /\ wakes[c] > 0
    /\ wakes' = [wakes EXCEPT ![c] = @ - 1]
    /\ BeginPass(c)
    /\ UNCHANGED <<session, ledger, cursor, position, upto, taken, failures>>

\* Fault for EndPass: a catch-up that gave up does not fail the run.
EndPassRegardless(c, ok) ==
    /\ pass' = [pass EXCEPT ![c] = "none"]
    /\ IF phase \in {"spawning", "catching"}
       THEN /\ next' = IF c = NumConsumers THEN 1 ELSE c + 1
            /\ phase' = IF c < NumConsumers THEN phase
                        ELSE IF phase = "spawning" THEN "running" ELSE "done"
       ELSE UNCHANGED <<phase, next>>

\* A pass that gives up is only logged, by the worker and while the consumers are spawned;
\* the last catch-up fails the run.
EndPass(c, ok) ==
    /\ pass' = [pass EXCEPT ![c] = "none"]
    /\ IF phase = "catching" /\ ~ok
       THEN phase' = "failed" /\ UNCHANGED next
       ELSE IF phase \in {"spawning", "catching"}
       THEN /\ next' = IF c = NumConsumers THEN 1 ELSE c + 1
            /\ phase' = IF c < NumConsumers THEN phase
                        ELSE IF phase = "spawning" THEN "running" ELSE "done"
       ELSE UNCHANGED <<phase, next>>

\* Fault for FailAttempt: failed attempts are not counted.
FailAttemptForever(c) ==
    /\ pass' = [pass EXCEPT ![c] = "read"]
    /\ UNCHANGED <<phase, next, attempt>>

\* Fault for FailAttempt: one attempt too many.
FailAttemptLate(c) ==
    IF attempt[c] < MaxAttempts
    THEN /\ attempt' = [attempt EXCEPT ![c] = @ + 1]
         /\ pass' = [pass EXCEPT ![c] = "read"]
         /\ UNCHANGED <<phase, next>>
    ELSE EndPass(c, FALSE) /\ UNCHANGED attempt

\* An attempt that fails starts again from the cursor on disk, at most MaxAttempts times.
FailAttempt(c) ==
    IF attempt[c] + 1 < MaxAttempts
    THEN /\ attempt' = [attempt EXCEPT ![c] = @ + 1]
         /\ pass' = [pass EXCEPT ![c] = "read"]
         /\ UNCHANGED <<phase, next>>
    ELSE EndPass(c, FALSE) /\ UNCHANGED attempt

ReadFails(c) ==
    /\ pass[c] = "read"
    /\ ~Readable \/ cursor[c] = Torn
    /\ FailAttempt(c)
    /\ UNCHANGED <<sessions, saved, ledger, wakes, cursor, position, upto, taken, failures>>

\* Fault for ReadEvents: the batch starts one event late.
ReadEventsLate(c) ==
    /\ pass[c] = "read"
    /\ Readable /\ cursor[c] # Torn /\ cursor[c] < log
    /\ position' = [position EXCEPT ![c] = IF cursor[c] + 1 < log THEN cursor[c] + 1 ELSE cursor[c]]
    /\ upto' = [upto EXCEPT ![c] = log]
    /\ pass' = [pass EXCEPT ![c] = "apply"]
    /\ UNCHANGED <<session, ledger, wakes, cursor, attempt, taken, failures>>

\* The events after the cursor, at most ReadLimit of them.
ReadEvents(c) ==
    /\ pass[c] = "read"
    /\ Readable /\ cursor[c] # Torn /\ cursor[c] < log
    /\ position' = [position EXCEPT ![c] = cursor[c]]
    /\ upto' = [upto EXCEPT ![c] = IF log - cursor[c] > ReadLimit
                                   THEN cursor[c] + ReadLimit ELSE log]
    /\ pass' = [pass EXCEPT ![c] = "apply"]
    /\ UNCHANGED <<session, ledger, wakes, cursor, attempt, taken, failures>>

\* Nothing is missing: the pass succeeds.
ReadNothing(c) ==
    /\ pass[c] = "read"
    /\ Readable /\ cursor[c] # Torn /\ cursor[c] >= log
    /\ EndPass(c, TRUE)
    /\ UNCHANGED <<sessions, saved, ledger, wakes, cursor, attempt, position, upto, taken, failures>>

\* process_runtime_ledger_event: the journal of c, memory and the rule forge.
TakeEffects(c) ==
    /\ pass[c] = "apply"
    /\ taken' = [taken EXCEPT ![c] = position[c] + 1]
    /\ pass' = [pass EXCEPT ![c] = "truncate"]
    /\ UNCHANGED <<session, ledger, wakes, cursor, attempt, position, upto, failures>>

\* SubscriberCursor::store is fs::write: truncate, then write.
TruncateCursor(c) ==
    /\ pass[c] = "truncate"
    /\ cursor' = [cursor EXCEPT ![c] = Torn]
    /\ pass' = [pass EXCEPT ![c] = "store"]
    /\ UNCHANGED <<session, ledger, wakes, attempt, position, upto, taken, failures>>

\* Fault for StoreCursor: the cursor the read returned is committed, that of the last event.
StoreBatchCursor(c) ==
    /\ pass[c] = "store"
    /\ cursor' = [cursor EXCEPT ![c] = upto[c]]
    /\ position' = [position EXCEPT ![c] = @ + 1]
    /\ pass' = [pass EXCEPT ![c] = IF position[c] + 1 = upto[c] THEN "read" ELSE "apply"]
    /\ UNCHANGED <<session, ledger, wakes, attempt, upto, taken, failures>>

\* When the batch is done the ledger is read again.
StoreCursor(c) ==
    /\ pass[c] = "store"
    /\ cursor' = [cursor EXCEPT ![c] = position[c] + 1]
    /\ position' = [position EXCEPT ![c] = @ + 1]
    /\ pass' = [pass EXCEPT ![c] = IF position[c] + 1 = upto[c] THEN "read" ELSE "apply"]
    /\ UNCHANGED <<session, ledger, wakes, attempt, upto, taken, failures>>

\* Any read or write of the pass may fail.
PassStepFails(c) ==
    /\ pass[c] # "none" /\ MayFail
    /\ failures' = failures + 1
    /\ FailAttempt(c)
    /\ UNCHANGED <<sessions, saved, ledger, wakes, cursor, position, upto, taken>>

Pass(c) ==
    \/ ReadFails(c) \/ ReadEvents(c) \/ ReadNothing(c) \/ TakeEffects(c)
    \/ TruncateCursor(c) \/ StoreCursor(c) \/ PassStepFails(c)

-----------------------------------------------------------------------------
(* The session *)

\* While spawning and in the last catch-up the owner itself passes, one consumer at a time.
CatchUp ==
    /\ phase \in {"spawning", "catching"}
    /\ BeginPass(next)
    /\ UNCHANGED <<session, ledger, wakes, cursor, position, upto, taken, failures>>

\* The first turn ends: CheckpointSaved goes to checkpoint.json, not to the ledger.
SaveCheckpoint ==
    /\ phase = "running"
    /\ recorder = "idle" /\ events > 0
    /\ saved = "none"
    /\ saved' = "checkpoint"
    /\ UNCHANGED <<phase, next, sessions, ledger, wakes, cursor, pass, attempt, position, upto,
                   taken, failures>>

\* run_agent_task returns after its last event (RunFinished).
RunReturns ==
    /\ phase = "running"
    /\ recorder = "idle" /\ events > 0
    /\ phase' = "joining"
    /\ UNCHANGED <<next, sessions, saved, ledger, wakes, cursor, pass, attempt, position, upto,
                   taken, failures>>

\* A joined worker has worked off its wakes.
JoinWorkers ==
    /\ phase = "joining"
    /\ \A c \in Consumers : wakes[c] = 0 /\ pass[c] = "none"
    /\ phase' = "catching"
    /\ UNCHANGED <<next, sessions, saved, ledger, wakes, cursor, pass, attempt, position, upto,
                   taken, failures>>

Active == phase \in {"spawning", "running", "joining", "catching"}

\* The process is killed: queues, passes and the line in progress are gone.
Crash ==
    /\ Active
    /\ phase' = "crashed"
    /\ recorder' = "idle"
    /\ lost' = IF recorder = "writing" /\ tail # "whole" THEN lost + 1 ELSE lost
    /\ wakes' = [c \in Consumers |-> 0]
    /\ pass' = [c \in Consumers |-> "none"]
    /\ UNCHANGED <<next, sessions, saved, events, log, tail, cursor, attempt, position,
                   upto, taken, failures>>

\* resume_headless_agent needs a checkpoint; the recorder appends to the same ledger.
Resume ==
    /\ ~Active
    /\ saved = "checkpoint"
    /\ sessions < MaxSessions
    /\ sessions' = sessions + 1
    /\ phase' = "spawning"
    /\ next' = 1
    /\ events' = 0
    /\ UNCHANGED <<saved, recorder, log, tail, lost, wakes, cursor, pass, attempt, position,
                   upto, taken, failures>>

-----------------------------------------------------------------------------
Recorder == BeginLine \/ AppendRefused \/ AppendFails \/ EndLine \/ EndAppend \/ LineFails
Owner == CatchUp \/ RunReturns \/ JoinWorkers

Next ==
    \/ Recorder \/ Owner \/ SaveCheckpoint \/ Crash \/ Resume
    \/ \E c \in Consumers : Wake(c) \/ Pass(c)

Spec == Init /\ [][Next]_vars

\* The run and the workers are scheduled, the owner goes on.
FairSpec ==
    /\ Spec
    /\ WF_vars(Recorder \/ Owner)
    /\ \A c \in Consumers : WF_vars(Wake(c) \/ Pass(c))

-----------------------------------------------------------------------------
(* Properties *)

\* Every variable keeps its type.
TypeOK ==
    /\ phase \in {"spawning", "running", "joining", "catching", "done", "failed", "crashed"}
    /\ next \in Consumers
    /\ sessions \in Nat /\ events \in Nat /\ log \in Nat /\ failures \in Nat /\ lost \in Nat
    /\ recorder \in {"idle", "writing"} /\ saved \in {"none", "checkpoint"}
    /\ tail \in {"clean", "partial", "whole", "glued"}
    /\ wakes \in [Consumers -> Nat]
    /\ cursor \in [Consumers -> Nat \cup {Torn}]
    /\ pass \in [Consumers -> {"none", "read", "apply", "truncate", "store"}]
    /\ attempt \in [Consumers -> 0..(MaxAttempts - 1)]
    /\ position \in [Consumers -> Nat]
    /\ upto \in [Consumers -> Nat]
    /\ taken \in [Consumers -> Nat]

\* "commit subscriber cursors after successful side effects": a cursor on disk never names
\* an event whose effects have not been taken, and falls at most one behind, over retries,
\* failed writes, crashes and resumes.
CommittedAfterEffects ==
    \A c \in Consumers : cursor[c] # Torn => taken[c] \in {cursor[c], cursor[c] + 1}

\* Every consumer takes the events of the ledger in order and skips none: the consumers
\* implement the abstract delivery, retries and redelivery after a crash included.
Delivery == INSTANCE DurableDelivery
Delivers == Delivery!DSpec

\* A session whose stop() reports success left no consumer behind, whatever wakes were
\* missed, passes given up or sessions killed before: each has taken every event and says
\* so on disk.
DoneIsCaughtUp ==
    phase = "done" => \A c \in Consumers : taken[c] = log /\ cursor[c] = log

\* Killing the process loses no event behind the owner's back: only a failed read or write
\* lets a session succeed with an event missing from the ledger.
NothingLostQuietly == phase = "done" /\ failures = 0 => lost = 0

\* A session comes to an end, also over a ledger or a cursor that never parses again.
SessionEnds == Active ~> ~Active

\* "run-ledger.jsonl validates after normal run and resume": of a session that ran to its
\* end without a read or a write failing.
LedgerValidates == phase \in {"done", "failed"} /\ failures = 0 => Readable
=============================================================================
