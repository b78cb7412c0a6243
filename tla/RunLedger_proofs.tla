-------------------------- MODULE RunLedger_proofs --------------------------
(***************************************************************************)
(* Proofs about RunLedger, for any number of consumers, sessions, events,  *)
(* failures and crashes.                                                   *)
(***************************************************************************)
EXTENDS RunLedger, TLAPS

\* What a consumer's place in its pass says about its cursor and its effects.
Place(c) ==
    /\ taken[c] <= log
    /\ cursor[c] # Torn => taken[c] = cursor[c] \/ taken[c] = cursor[c] + 1
    /\ pass[c] \in {"apply", "truncate", "store"} => position[c] < upto[c] /\ upto[c] <= log
    /\ pass[c] \in {"apply", "truncate"} => cursor[c] = position[c]
    /\ pass[c] \in {"truncate", "store"} => taken[c] = position[c] + 1

Places == \A c \in Consumers : Place(c)

\* The recorder writes only while the agent runs; the owner passes alone.
Control ==
    /\ recorder = "writing" => phase = "running"
    /\ ~Active => \A c \in Consumers : pass[c] = "none"
    /\ phase \in {"spawning", "catching"} =>
          \A c \in Consumers : c # next => pass[c] = "none"
    /\ phase \in {"running", "joining"} => next = 1

\* In the last catch-up the consumers already served have everything.
Caught(c) == taken[c] = log /\ cursor[c] = log

Progress ==
    /\ phase = "catching" => \A c \in Consumers : c < next => Caught(c)
    /\ phase = "done" => \A c \in Consumers : Caught(c)

Inv == TypeOK /\ Places /\ Control /\ Progress

-----------------------------------------------------------------------------
LEMMA InitInv == Init => Inv
BY ConsumersAssumption, AttemptsAssumption
   DEF Init, Inv, TypeOK, Places, Place, Control, Progress, Active, Consumers, Torn

\* The recorder moves neither a consumer nor its cursor, and the ledger only grows.
LEMMA RecorderInv == Inv /\ Recorder => Inv'
<1> SUFFICES ASSUME Inv, Recorder PROVE Inv'
  OBVIOUS
<1> USE DEF Torn
<1>1. /\ UNCHANGED <<phase, next, sessions, saved, cursor, pass, attempt, position, upto, taken>>
      /\ phase = "running"
      /\ log' \in Nat /\ log' >= log
  BY DEF Recorder, BeginLine, AppendRefused, AppendFails, EndLine, EndAppend, LineFails,
         Emitting, session, Inv, TypeOK, Control
<1>2. TypeOK'
  BY <1>1 DEF Recorder, BeginLine, AppendRefused, AppendFails, EndLine, EndAppend, LineFails,
         Emitting, WakeAll, session, Inv, TypeOK
<1>3. Places'
  BY <1>1, <1>2 DEF Inv, TypeOK, Places, Place
<1>4. Control'
  BY <1>1 DEF Inv, Control, Active
<1>5. Progress'
  BY <1>1 DEF Progress
<1> QED
  BY <1>2, <1>3, <1>4, <1>5 DEF Inv

\* No event has the number of a torn cursor.
LEMMA TornFact == Torn \notin Nat
BY DEF Torn

\* The consumers are numbered from 1.
LEMMA NextFacts ==
    /\ 1 \in Consumers
    /\ \A c \in Consumers : c \in Nat /\ c >= 1 /\ c <= NumConsumers
    /\ \A c \in Consumers : c # NumConsumers => c + 1 \in Consumers
BY ConsumersAssumption DEF Consumers

\* The owner's own steps, a crash and a resume move no cursor.
LEMMA OwnerInv == Inv /\ (Owner \/ SaveCheckpoint \/ Crash \/ Resume) => Inv'
<1> SUFFICES ASSUME Inv, Owner \/ SaveCheckpoint \/ Crash \/ Resume PROVE Inv'
  OBVIOUS
<1> USE NextFacts, AttemptsAssumption
<1>1. UNCHANGED <<log, tail, cursor, position, upto, taken, failures>>
  BY DEF Owner, CatchUp, RunReturns, JoinWorkers, SaveCheckpoint, Crash, Resume, ledger
<1>2. /\ \A c \in Consumers : pass'[c] = pass[c] \/ pass'[c] \in {"none", "read"}
      /\ pass' \in [Consumers -> {"none", "read", "apply", "truncate", "store"}]
      /\ attempt' \in [Consumers -> 0..(MaxAttempts - 1)]
      /\ wakes' \in [Consumers -> Nat]
  <2>1. CASE CatchUp
    BY <2>1 DEF CatchUp, BeginPass, Inv, TypeOK
  <2>2. CASE Crash
    BY <2>2 DEF Crash, Inv, TypeOK
  <2> QED
    BY <2>1, <2>2 DEF Owner, RunReturns, JoinWorkers, SaveCheckpoint, Resume, Inv, TypeOK
<1>3. /\ phase' \in {"spawning", "running", "joining", "catching", "done", "failed", "crashed"}
      /\ next' \in Consumers
      /\ sessions' \in Nat /\ events' \in Nat /\ lost' \in Nat
      /\ recorder' \in {"idle", "writing"} /\ saved' \in {"none", "checkpoint"}
  BY DEF Owner, CatchUp, RunReturns, JoinWorkers, SaveCheckpoint, Crash, Resume,
         Inv, TypeOK, session, ledger
<1>4. TypeOK'
  BY <1>1, <1>2, <1>3 DEF Inv, TypeOK
<1>5. Places'
  BY <1>1, <1>2 DEF Inv, Places, Place
<1>6. Control' /\ Progress'
  <2>1. CASE CatchUp
    BY <2>1 DEF CatchUp, BeginPass, Inv, TypeOK, Control, Progress, Caught, Active, session, ledger
  <2>2. CASE RunReturns \/ SaveCheckpoint
    BY <2>2 DEF RunReturns, SaveCheckpoint, Inv, TypeOK, Control, Progress, Caught, Active, ledger
  <2>3. CASE JoinWorkers
    BY <2>3 DEF JoinWorkers, Inv, TypeOK, Control, Progress, Caught, Active, ledger
  <2>4. CASE Crash \/ Resume
    BY <2>4 DEF Crash, Resume, Inv, TypeOK, Control, Progress, Active
  <2> QED
    BY <2>1, <2>2, <2>3, <2>4 DEF Owner
<1> QED
  BY <1>4, <1>5, <1>6 DEF Inv

\* How a pass ends: the attempts are used up, or nothing is left to read.
LEMMA EndInv ==
    ASSUME Inv, NEW c \in Consumers, NEW ok \in BOOLEAN,
           pass[c] # "none",
           EndPass(c, ok),
           ok => Caught(c),
           UNCHANGED <<sessions, saved, ledger, wakes, cursor, attempt, position, upto, taken>>,
           failures' \in Nat
    PROVE  Inv'
<1> USE NextFacts
<1>1. /\ pass' \in [Consumers -> {"none", "read", "apply", "truncate", "store"}]
      /\ pass'[c] = "none"
      /\ \A d \in Consumers : d # c => pass'[d] = pass[d]
  BY DEF EndPass, Inv, TypeOK
<1>2. Active
  BY DEF Inv, Control
<1>3. CASE phase \in {"running", "joining"}
  <2>1. UNCHANGED <<phase, next>>
    BY <1>3 DEF EndPass
  <2> QED
    BY <1>1, <1>3, <2>1 DEF Inv, TypeOK, Places, Place, Control, Progress, Caught, Active, ledger
<1>4. CASE phase = "catching" /\ ~ok
  <2>1. phase' = "failed" /\ next' = next /\ c = next
    BY <1>4 DEF EndPass, Inv, Control
  <2>2. \A d \in Consumers : pass'[d] = "none"
    BY <1>1, <1>4, <2>1 DEF Inv, Control
  <2> QED
    BY <1>1, <1>4, <2>1, <2>2 DEF Inv, TypeOK, Places, Place, Control, Progress, Active, ledger
<1>5. CASE phase = "spawning" \/ (phase = "catching" /\ ok)
  <2>1. /\ next' = IF c = NumConsumers THEN 1 ELSE c + 1
        /\ phase' = IF c < NumConsumers THEN phase
                    ELSE IF phase = "spawning" THEN "running" ELSE "done"
        /\ c = next
    BY <1>5 DEF EndPass, Inv, Control
  <2>2. \A d \in Consumers : pass'[d] = "none"
    BY <1>1, <1>5, <2>1 DEF Inv, Control
  <2>3. TypeOK'
    BY <1>1, <1>5, <2>1 DEF Inv, TypeOK, ledger
  <2>4. Places'
    BY <2>2 DEF Inv, Places, Place, ledger
  <2>5. recorder' # "writing"
    BY <1>5 DEF Inv, TypeOK, Control, ledger
  <2>6. Control'
    BY ConsumersAssumption, <1>5, <2>1, <2>2, <2>5 DEF Control, Active
  <2>7. Progress'
    <3>1. ASSUME phase = "catching", ok, NEW d \in Consumers, d < c + 1
          PROVE  Caught(d)'
      BY <2>1, <3>1 DEF Inv, Progress, Caught, ledger
    <3> QED
      BY ConsumersAssumption, <1>5, <2>1, <3>1 DEF Progress
  <2> QED
    BY <2>3, <2>4, <2>6, <2>7 DEF Inv
<1> QED
  BY <1>2, <1>3, <1>4, <1>5 DEF Active

\* An attempt that fails begins again, or the pass ends.
LEMMA FailInv ==
    ASSUME Inv, NEW c \in Consumers,
           pass[c] # "none",
           FailAttempt(c),
           UNCHANGED <<sessions, saved, ledger, wakes, cursor, position, upto, taken>>,
           failures' \in Nat
    PROVE  Inv'
<1>1. CASE attempt[c] + 1 < MaxAttempts
  <2>1. /\ UNCHANGED <<phase, next>>
        /\ pass' = [pass EXCEPT ![c] = "read"]
        /\ attempt' = [attempt EXCEPT ![c] = @ + 1]
    BY <1>1 DEF FailAttempt
  <2>2. attempt' \in [Consumers -> 0..(MaxAttempts - 1)]
    BY <1>1, <2>1, AttemptsAssumption DEF Inv, TypeOK
  <2>3. /\ pass' \in [Consumers -> {"none", "read", "apply", "truncate", "store"}]
        /\ pass'[c] = "read"
        /\ \A d \in Consumers : d # c => pass'[d] = pass[d]
    BY <2>1 DEF Inv, TypeOK
  <2>4. TypeOK'
    BY <2>1, <2>2, <2>3 DEF Inv, TypeOK, ledger
  <2>5. Places'
    BY <2>3 DEF Inv, Places, Place, ledger
  <2>6. Control' /\ Progress'
    BY <2>1, <2>3 DEF Inv, Control, Progress, Caught, Active, ledger
  <2> QED
    BY <2>4, <2>5, <2>6 DEF Inv
<1>2. CASE ~(attempt[c] + 1 < MaxAttempts)
  BY <1>2, EndInv DEF FailAttempt
<1> QED
  BY <1>1, <1>2

\* A worker that wakes begins a pass.
LEMMA WakeInv == ASSUME Inv, NEW c \in Consumers, Wake(c) PROVE Inv'
<1> USE AttemptsAssumption
<1>1. wakes' \in [Consumers -> Nat]
  BY DEF Wake, Inv, TypeOK
<1>2. /\ pass' \in [Consumers -> {"none", "read", "apply", "truncate", "store"}]
      /\ \A d \in Consumers : pass'[d] = pass[d] \/ pass'[d] = "read"
  BY DEF Wake, BeginPass, Inv, TypeOK
<1>3. attempt' \in [Consumers -> 0..(MaxAttempts - 1)]
  BY DEF Wake, BeginPass, Inv, TypeOK
<1>4. UNCHANGED <<phase, next, sessions, saved, events, recorder, log, tail, lost, cursor,
                  position, upto, taken, failures>>
  BY DEF Wake, session, ledger
<1>5. TypeOK'
  BY <1>1, <1>2, <1>3, <1>4 DEF Inv, TypeOK
<1>6. Places'
  BY <1>2, <1>4 DEF Inv, Places, Place
<1>7. Control' /\ Progress'
  BY <1>4 DEF Wake, Inv, Control, Progress, Caught, Active
<1> QED
  BY <1>5, <1>6, <1>7 DEF Inv

\* The steps of a pass.
LEMMA PassInv == ASSUME Inv, NEW c \in Consumers, Pass(c) PROVE Inv'
<1>1. CASE ReadFails(c) \/ PassStepFails(c)
  <2>1. failures' \in Nat
    BY <1>1 DEF ReadFails, PassStepFails, Inv, TypeOK
  <2> QED
    BY <1>1, <2>1, FailInv DEF ReadFails, PassStepFails
<1>2. CASE ReadNothing(c)
  <2>1. /\ cursor[c] \in Nat /\ taken[c] \in Nat /\ log \in Nat /\ cursor[c] # Torn
        /\ cursor[c] >= log
    BY <1>2, TornFact DEF ReadNothing, Inv, TypeOK
  <2>2. Caught(c)
    BY <2>1 DEF Inv, Places, Place, Caught
  <2>3. failures' \in Nat
    BY <1>2 DEF ReadNothing, Inv, TypeOK
  <2> QED
    BY <1>2, <2>2, <2>3, EndInv DEF ReadNothing
<1>3. CASE ReadEvents(c) \/ TakeEffects(c) \/ TruncateCursor(c) \/ StoreCursor(c)
  <2> USE <1>3 DEF ReadEvents, TakeEffects, TruncateCursor, StoreCursor
  <2>1. UNCHANGED <<session, ledger, wakes, attempt, failures>>
    OBVIOUS
  <2>2. ASSUME NEW d \in Consumers, d # c
        PROVE  /\ cursor'[d] = cursor[d] /\ pass'[d] = pass[d] /\ position'[d] = position[d]
               /\ upto'[d] = upto[d] /\ taken'[d] = taken[d]
    BY <2>2 DEF Inv, TypeOK
  <2>3. /\ log \in Nat /\ position[c] \in Nat /\ upto[c] \in Nat /\ taken[c] \in Nat
        /\ cursor[c] \in Nat \/ cursor[c] = Torn
        /\ Place(c)
    BY DEF Inv, TypeOK, Places
  <2>4. TypeOK' /\ Place(c)' /\ pass[c] # "none"
    <3>1. CASE ReadEvents(c)
      <4>1. /\ position' = [position EXCEPT ![c] = cursor[c]]
            /\ upto' = [upto EXCEPT ![c] = IF log - cursor[c] > ReadLimit
                                           THEN cursor[c] + ReadLimit ELSE log]
            /\ pass' = [pass EXCEPT ![c] = "apply"]
            /\ UNCHANGED <<cursor, taken>>
            /\ cursor[c] \in Nat /\ cursor[c] < log /\ pass[c] = "read"
        BY <2>3, <3>1
      <4>2. upto'[c] \in Nat /\ cursor[c] < upto'[c] /\ upto'[c] <= log
        BY <2>3, <4>1, ReadLimitAssumption DEF Inv, TypeOK
      <4>3. /\ position' \in [Consumers -> Nat] /\ position'[c] = cursor[c]
            /\ pass' \in [Consumers -> {"none", "read", "apply", "truncate", "store"}]
            /\ pass'[c] = "apply"
        BY <4>1 DEF Inv, TypeOK
      <4>4. upto' \in [Consumers -> Nat]
        BY <4>1, <4>2 DEF Inv, TypeOK
      <4> QED
        BY <2>1, <2>3, <4>1, <4>2, <4>3, <4>4 DEF Inv, TypeOK, Place, session, ledger
    <3>2. CASE TakeEffects(c)
      <4>1. /\ taken' = [taken EXCEPT ![c] = position[c] + 1]
            /\ pass' = [pass EXCEPT ![c] = "truncate"]
            /\ UNCHANGED <<cursor, position, upto>>
            /\ pass[c] = "apply"
        BY <3>2
      <4>2. /\ taken' \in [Consumers -> Nat] /\ taken'[c] = position[c] + 1
            /\ pass' \in [Consumers -> {"none", "read", "apply", "truncate", "store"}]
            /\ pass'[c] = "truncate"
        BY <2>3, <4>1 DEF Inv, TypeOK
      <4> QED
        BY <2>1, <2>3, <4>1, <4>2 DEF Inv, TypeOK, Place, session, ledger
    <3>3. CASE TruncateCursor(c)
      <4>1. /\ cursor' = [cursor EXCEPT ![c] = Torn]
            /\ pass' = [pass EXCEPT ![c] = "store"]
            /\ UNCHANGED <<taken, position, upto>>
            /\ pass[c] = "truncate"
        BY <3>3
      <4>2. /\ cursor' \in [Consumers -> Nat \cup {Torn}] /\ cursor'[c] = Torn
            /\ pass' \in [Consumers -> {"none", "read", "apply", "truncate", "store"}]
            /\ pass'[c] = "store"
        BY <4>1 DEF Inv, TypeOK
      <4> QED
        BY <2>1, <2>3, <4>1, <4>2 DEF Inv, TypeOK, Place, session, ledger
    <3>4. CASE StoreCursor(c)
      <4>1. /\ cursor' = [cursor EXCEPT ![c] = position[c] + 1]
            /\ position' = [position EXCEPT ![c] = @ + 1]
            /\ pass' = [pass EXCEPT ![c] = IF position[c] + 1 = upto[c] THEN "read" ELSE "apply"]
            /\ UNCHANGED <<taken, upto>>
            /\ pass[c] = "store"
        BY <3>4
      <4>2. /\ cursor' \in [Consumers -> Nat \cup {Torn}] /\ cursor'[c] = position[c] + 1
            /\ position' \in [Consumers -> Nat] /\ position'[c] = position[c] + 1
        BY <2>3, <4>1 DEF Inv, TypeOK
      <4>3. /\ pass' \in [Consumers -> {"none", "read", "apply", "truncate", "store"}]
            /\ pass'[c] = IF position[c] + 1 = upto[c] THEN "read" ELSE "apply"
        BY <4>1 DEF Inv, TypeOK
      <4>4. TypeOK'
        BY <2>1, <4>1, <4>2, <4>3 DEF Inv, TypeOK, session, ledger
      <4> QED
        BY <2>1, <2>3, <4>1, <4>2, <4>3, <4>4 DEF Place, session, ledger
    <3> QED
      BY <3>1, <3>2, <3>3, <3>4
  <2>5. Places'
    BY <2>1, <2>2, <2>4 DEF Inv, Places, Place, ledger
  <2>6. Control'
    BY <2>1, <2>2, <2>4 DEF Inv, Control, Active, session, ledger
  <2>7. Progress'
    <3>1. phase # "done" /\ (phase = "catching" => c = next)
      BY <2>4 DEF Inv, Control, Active
    <3>2. ASSUME phase = "catching", NEW d \in Consumers, d < next
          PROVE  Caught(d)'
      BY <2>1, <2>2, <3>1, <3>2, NextFacts DEF Inv, Progress, Caught, session, ledger
    <3> QED
      BY <2>1, <3>1, <3>2 DEF Progress, session
  <2> QED
    BY <2>4, <2>5, <2>6, <2>7 DEF Inv
<1> QED
  BY <1>1, <1>2, <1>3 DEF Pass

\* Every reachable state satisfies the inductive invariant.
THEOREM Invariant == Spec => []Inv
<1>1. Inv /\ [Next]_vars => Inv'
  <2> SUFFICES ASSUME Inv, [Next]_vars PROVE Inv'
    OBVIOUS
  <2>1. CASE Next
    BY <2>1, RecorderInv, OwnerInv, WakeInv, PassInv DEF Next
  <2>2. CASE UNCHANGED vars
    BY <2>2 DEF vars, Inv, TypeOK, Places, Place, Control, Progress, Caught, Active
  <2> QED
    BY <2>1, <2>2
<1> QED
  BY InitInv, <1>1, PTL DEF Spec

-----------------------------------------------------------------------------
(* The properties *)

\* Type correctness.
THEOREM TypeCorrect == Spec => []TypeOK
BY Invariant, PTL DEF Inv

\* A cursor is committed after the effects of its event, for any retries and crashes.
THEOREM Committed == Spec => []CommittedAfterEffects
<1>1. Inv => CommittedAfterEffects
  BY DEF Inv, Places, Place, CommittedAfterEffects
<1> QED
  BY Invariant, <1>1, PTL

\* A session that reports success has caught every consumer up.
THEOREM CaughtUp == Spec => []DoneIsCaughtUp
<1>1. Inv => DoneIsCaughtUp
  BY DEF Inv, Progress, Caught, DoneIsCaughtUp
<1> QED
  BY Invariant, <1>1, PTL

\* The consumers implement the abstract delivery: no event is skipped or taken out of order.
THEOREM Delivered == Spec => Delivers
<1> USE DEF Delivery!dvars
<1>1. Init => Delivery!DInit
  BY DEF Init, Delivery!DInit
<1>2. Inv /\ [Next]_vars => [Delivery!DNext]_(Delivery!dvars)
  <2> SUFFICES ASSUME Inv, [Next]_vars PROVE [Delivery!DNext]_(Delivery!dvars)
    OBVIOUS
  <2>1. CASE EndLine
    BY <2>1 DEF EndLine, Delivery!DNext, Delivery!Record
  <2>2. ASSUME NEW c \in Consumers, TakeEffects(c)
        PROVE  [Delivery!DNext]_(Delivery!dvars)
    <3>1. /\ taken[c] = position[c] \/ taken[c] = position[c] + 1
          /\ position[c] < log
          /\ cursor[c] # Torn /\ taken \in [Consumers -> Nat] /\ position[c] \in Nat /\ log \in Nat
      BY <2>2 DEF TakeEffects, Inv, TypeOK, Places, Place, Torn
    <3>2. CASE taken[c] = position[c]
      <4>1. Delivery!Take(c)
        BY <2>2, <3>1, <3>2 DEF TakeEffects, ledger, Delivery!Take
      <4> QED
        BY <4>1 DEF Delivery!DNext
    <3>3. CASE taken[c] = position[c] + 1
      BY <2>2, <3>1, <3>3 DEF TakeEffects, ledger
    <3> QED
      BY <3>1, <3>2, <3>3
  <2>3. CASE UNCHANGED <<log, taken>>
    BY <2>3
  <2> QED
    BY <2>1, <2>2, <2>3 DEF Next, Recorder, Owner, Pass, BeginLine, AppendRefused, AppendFails,
       EndAppend, LineFails, CatchUp, RunReturns, JoinWorkers, SaveCheckpoint, Crash, Resume,
       Wake, ReadFails, ReadEvents, ReadNothing, TruncateCursor, StoreCursor, PassStepFails,
       session, ledger, vars
<1> QED
  BY Invariant, <1>1, <1>2, PTL DEF Spec, Delivers, Delivery!DSpec

-----------------------------------------------------------------------------
(* Loss.  Of a run whose reads and writes all succeed: a line can only be lost to a killed     *)
(* process, and then the ledger ends in a line that never parses again.  A clause of its own,  *)
(* since the order of delivery does not need it.                                               *)

Marked ==
    failures = 0 =>
        /\ lost > 0 => ~Readable
        /\ recorder = "writing" => lost = 0 /\ tail # "clean"
        /\ phase = "catching" /\ next > 1 => Readable
        /\ phase = "done" => Readable

\* A line is lost only to a ledger that does not parse, and nothing is ever written to that.
LEMMA RecorderMarked == Inv /\ Marked /\ Recorder => Marked'
<1> SUFFICES ASSUME Inv, Marked, Recorder PROVE Marked'
  OBVIOUS
<1> USE DEF Inv, TypeOK, Control, Marked, Readable, session
<1>1. phase = "running" /\ phase' = "running"
  BY DEF Recorder, BeginLine, AppendRefused, AppendFails, EndLine, EndAppend, LineFails, Emitting
<1>2. CASE BeginLine
  BY <1>1, <1>2 DEF BeginLine, Emitting
<1>3. CASE AppendRefused
  BY <1>1, <1>3 DEF AppendRefused, Emitting
<1>4. CASE AppendFails \/ LineFails
  BY <1>4 DEF AppendFails, LineFails
<1>5. CASE EndLine
  BY <1>1, <1>5 DEF EndLine
<1>6. CASE EndAppend
  BY <1>1, <1>6 DEF EndAppend
<1> QED
  BY <1>2, <1>3, <1>4, <1>5, <1>6 DEF Recorder

\* The owner writes no line; a crash in the middle of one leaves it unfinished.
LEMMA OwnerMarked == Inv /\ Marked /\ (Owner \/ SaveCheckpoint \/ Crash \/ Resume) => Marked'
<1> SUFFICES ASSUME Inv, Marked, Owner \/ SaveCheckpoint \/ Crash \/ Resume PROVE Marked'
  OBVIOUS
<1> USE DEF Inv, TypeOK, Control, Marked, Readable, Active, session, ledger
<1>1. CASE CatchUp
  BY <1>1 DEF CatchUp
<1>2. CASE SaveCheckpoint \/ RunReturns
  BY <1>2 DEF SaveCheckpoint, RunReturns
<1>3. CASE JoinWorkers
  BY <1>3, NextFacts DEF JoinWorkers
<1>4. CASE Crash
  BY <1>4 DEF Crash
<1>5. CASE Resume
  BY <1>5 DEF Resume
<1> QED
  BY <1>1, <1>2, <1>3, <1>4, <1>5 DEF Owner

\* The end of a pass takes the last catch-up further only when the ledger could be read.
LEMMA EndMarked ==
    ASSUME Inv, Marked, NEW c \in Consumers, NEW ok \in BOOLEAN, EndPass(c, ok), pass[c] # "none",
           ok => Readable, ledger' = ledger, failures' = failures
    PROVE  Marked'
<1> USE DEF Inv, TypeOK, Control, Marked, Readable, Active, ledger
<1>1. CASE phase \in {"running", "joining"}
  BY <1>1 DEF EndPass
<1>2. CASE phase = "spawning"
  BY <1>2 DEF EndPass
<1>3. CASE phase = "catching" /\ ~ok
  BY <1>3 DEF EndPass
<1>4. CASE phase = "catching" /\ ok
  BY <1>4 DEF EndPass
<1> QED
  BY <1>1, <1>2, <1>3, <1>4

\* Of the consumers only the end of a pass matters.
LEMMA ConsumerMarked ==
    ASSUME Inv, Marked, NEW c \in Consumers, Wake(c) \/ Pass(c)
    PROVE  Marked'
<1>1. CASE Wake(c) \/ ReadEvents(c) \/ TakeEffects(c) \/ TruncateCursor(c) \/ StoreCursor(c)
  BY <1>1 DEF Wake, ReadEvents, TakeEffects, TruncateCursor, StoreCursor, Marked, Readable,
              session, ledger
<1>2. CASE ReadNothing(c)
  BY <1>2, EndMarked DEF ReadNothing
<1>3. CASE ReadFails(c)
  <2>1. CASE UNCHANGED <<phase, next>>
    BY <1>3, <2>1 DEF ReadFails, Marked, Readable, ledger
  <2>2. CASE EndPass(c, FALSE)
    BY <1>3, <2>2, EndMarked DEF ReadFails
  <2> QED
    BY <1>3, <2>1, <2>2 DEF ReadFails, FailAttempt
<1>4. CASE PassStepFails(c)
  BY <1>4 DEF PassStepFails, Marked, Inv, TypeOK
<1> QED
  BY <1>1, <1>2, <1>3, <1>4 DEF Pass

\* Killing the process loses no event quietly: a session that reports success although an event is
\* missing from its ledger has had a read or a write fail.
THEOREM NoQuietLoss == Spec => []NothingLostQuietly
<1>1. Init => Marked
  BY DEF Init, Marked
<1>2. Inv /\ Marked /\ [Next]_vars => Marked'
  <2>1. CASE UNCHANGED vars
    BY <2>1 DEF vars, Marked, Readable
  <2> QED
    BY <2>1, RecorderMarked, OwnerMarked, ConsumerMarked DEF Next
<1>3. Inv /\ Marked => NothingLostQuietly
  BY DEF Inv, TypeOK, Marked, NothingLostQuietly
<1> QED
  BY Invariant, <1>1, <1>2, <1>3, PTL DEF Spec
=============================================================================
