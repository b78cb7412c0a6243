----------------------------- MODULE Calls_proofs -----------------------------
(***************************************************************************)
(* Proofs about whoever waits for an answer of another.  PermissionBroker, *)
(* for any number of requests: whatever races, an asker returns its own    *)
(* answer, only dropped futures leave an entry behind, and the broker      *)
(* implements CallReply.  RunService, for any number of starts, of any     *)
(* kinds: what status() says of a run that has its id to itself is what    *)
(* its task has come to.  McpClient, for any finite set of callers, any    *)
(* capacity of the pipes and any number of late, repeated and unasked      *)
(* messages, and LanguageServer, for any lookups: the clients implement    *)
(* CallReply.  ManagedProcess, ShellCommand and Completion, for any number *)
(* of tools, bytes, texts and calls: what comes in pieces comes whole, and *)
(* what a call took is given back.  Together they give the properties of   *)
(* MCSpec.                                                                 *)
(***************************************************************************)
EXTENDS MCCalls, FiniteSetTheorems, SequenceTheorems, TLAPS

-----------------------------------------------------------------------------
(* The permission broker and the run service *)

(* The sender of a request is in one hand: the map's, resolve()'s or cancel_all()'s.  While it is *)
(* in any, nothing has been sent and nothing was reported.                                         *)
OneHand(r) ==
    /\ r \in pending => resolver[r] = NoDecision /\ r \notin drained
    /\ resolver[r] # NoDecision => r \notin drained
    /\ r \in pending \cup drained \/ resolver[r] # NoDecision =>
          oneshot[r] = NoDecision /\ accepted[r] = NoDecision /\ asker[r] # "idle"

(* What was sent, against what was reported and what was returned. *)
SentOnce(r) ==
    /\ oneshot[r] \in Decisions => accepted[r] = oneshot[r]
    /\ asker[r] \in {"idle", "elapsed"} => oneshot[r] = NoDecision
    /\ asker[r] = "idle" => accepted[r] = NoDecision
    /\ result[r] # NoDecision => /\ asker[r] = "returned"
                                 /\ result[r] \in {oneshot[r], "TimedOut"}

\* The inductive invariant of the broker.
BrokerInv == /\ BrokerTypeOK /\ OnlyDroppedLeak
             /\ \A r \in Requests : OneHand(r) /\ SentOnce(r)

\* It holds in the beginning.
LEMMA InvInit == BrokerInit => BrokerInv
  BY NoDecisionAssumption
     DEF BrokerInit, BrokerInv, BrokerTypeOK, OnlyDroppedLeak, OneHand, SentOnce, Decisions, Outcomes

\* Every step keeps it.
LEMMA InvNext == BrokerInv /\ [BrokerNext]_brokerVars => BrokerInv'
<1> SUFFICES ASSUME BrokerInv, [BrokerNext]_brokerVars PROVE BrokerInv'
  OBVIOUS
<1> USE NoDecisionAssumption
        DEF BrokerInv, BrokerTypeOK, OnlyDroppedLeak, Registered, OneHand, SentOnce, Decisions, Outcomes
<1>1. ASSUME NEW r \in Requests, Register(r) PROVE BrokerInv'
  BY <1>1 DEF Register
<1>2. ASSUME NEW r \in Requests, Announce(r) PROVE BrokerInv'
  BY <1>2 DEF Announce
<1>3. ASSUME NEW r \in Requests, Disconnected(r) PROVE BrokerInv'
  BY <1>3 DEF Disconnected
<1>4. ASSUME NEW r \in Requests, Hear(r) PROVE BrokerInv'
  BY <1>4 DEF Hear, Returns
<1>5. ASSUME NEW r \in Requests, Elapse(r) PROVE BrokerInv'
  BY <1>5 DEF Elapse
<1>6. ASSUME NEW r \in Requests, Expire(r) PROVE BrokerInv'
  BY <1>6 DEF Expire, Returns
<1>7. ASSUME NEW r \in Requests, Abandon(r) PROVE BrokerInv'
  BY <1>7 DEF Abandon
<1>8. ASSUME NEW r \in Requests, NEW d \in Decisions, TakeSender(r, d) PROVE BrokerInv'
  BY <1>8 DEF TakeSender
<1>9. ASSUME NEW r \in Requests, SendDecision(r) PROVE BrokerInv'
  BY <1>9 DEF SendDecision, Sent
<1>10. ASSUME NEW r \in Requests, SendTimedOut(r) PROVE BrokerInv'
  BY <1>10 DEF SendTimedOut, Sent
<1>11. CASE CancelAll
  BY <1>11 DEF CancelAll
<1>12. CASE FrontendCloses
  BY <1>12 DEF FrontendCloses
<1>13. CASE UNCHANGED brokerVars
  BY <1>13 DEF brokerVars
<1> QED
  BY <1>1, <1>2, <1>3, <1>4, <1>5, <1>6, <1>7, <1>8, <1>9, <1>10, <1>11, <1>12, <1>13
     DEF BrokerNext, Asking, Resolving

\* It holds always.
LEMMA Invariance == BrokerSpec => []BrokerInv
  BY InvInit, InvNext, PTL DEF BrokerSpec

-----------------------------------------------------------------------------
\* The types of the broker's state hold for any number of requests.
THEOREM TypeCorrect == BrokerSpec => []BrokerTypeOK
<1>1. BrokerInv => BrokerTypeOK
  BY DEF BrokerInv
<1> QED
  BY <1>1, Invariance, PTL

\* What request() returns is what resolve() accepted for it, or TimedOut, whatever races with
\* the answer.
LEMMA OwnAnswer == BrokerSpec => []ReturnsOwnAnswer
<1>1. BrokerInv => ReturnsOwnAnswer
  BY NoDecisionAssumption
     DEF BrokerInv, BrokerTypeOK, SentOnce, ReturnsOwnAnswer, Decisions, Outcomes
<1> QED
  BY <1>1, Invariance, PTL

\* After request() has returned, resolve() finds nothing; only dropped futures leave an entry.
LEMMA NothingElseLeaks == BrokerSpec => []OnlyDroppedLeak
<1>1. BrokerInv => OnlyDroppedLeak
  BY DEF BrokerInv
<1> QED
  BY <1>1, Invariance, PTL

\* The permission broker gives an asker its own answer, and forgets only those who went away.
THEOREM Accounted == BrokerSpec => []AnswersAccounted
  BY OwnAnswer, NothingElseLeaks, PTL DEF AnswersAccounted

-----------------------------------------------------------------------------
(* The refinement *)

\* Where the abstract call of a request is.
RequestCall == [r \in Requests |->
            IF asker[r] \in {"registered", "waiting"} THEN "waiting"
            ELSE IF asker[r] = "idle" THEN "idle"
            ELSE IF asker[r] \in {"dropped", "disconnected"} THEN "withdrawn"
            ELSE IF asker[r] = "returned" /\ oneshot[r] # NoDecision THEN "returned"
            ELSE "failed"]

\* A step that moves the abstract call of r alone is a step of CallReply.
LEMMA CallMoves ==
    ASSUME NEW r \in Requests, UNCHANGED oneshot,
           \A s \in Requests \ {r} : asker'[s] = asker[s],
           \/ RequestCall'[r] = RequestCall[r]
           \/ RequestCall[r] = "idle" /\ RequestCall'[r] = "waiting"
           \/ RequestCall[r] = "waiting" /\ RequestCall'[r] = "withdrawn"
           \/ RequestCall[r] = "waiting" /\ oneshot[r] # NoDecision /\ RequestCall'[r] = "returned"
           \/ RequestCall[r] = "waiting" /\ oneshot[r] = NoDecision /\ RequestCall'[r] = "failed"
    PROVE  [Calls!CNext]_(Calls!cvars)
<1>1. \A s \in Requests \ {r} : RequestCall'[s] = RequestCall[s]
  BY DEF RequestCall
<1>2. RequestCall' = [RequestCall EXCEPT ![r] = RequestCall'[r]]
  BY <1>1, ZenonT(60) DEF RequestCall
<1>3. CASE RequestCall'[r] = RequestCall[r]
  <2>1. RequestCall' = RequestCall
    BY <1>2, <1>3 DEF RequestCall
  <2> QED
    BY <2>1 DEF Calls!cvars, RequestCall
<1>4. CASE RequestCall[r] = "idle" /\ RequestCall'[r] = "waiting"
  <2>1. Calls!Begin(r)
    BY <1>2, <1>4 DEF Calls!Begin, RequestCall
  <2> QED
    BY <2>1 DEF Calls!CNext
<1>5. CASE RequestCall[r] = "waiting" /\ RequestCall'[r] = "withdrawn"
  <2>1. Calls!Withdraw(r)
    BY <1>2, <1>5 DEF Calls!Withdraw, RequestCall
  <2> QED
    BY <2>1 DEF Calls!CNext
<1>6. CASE RequestCall[r] = "waiting" /\ oneshot[r] # NoDecision /\ RequestCall'[r] = "returned"
  <2>1. Calls!Return(r)
    BY <1>2, <1>6 DEF Calls!Return, RequestCall
  <2> QED
    BY <2>1 DEF Calls!CNext
<1>7. CASE RequestCall[r] = "waiting" /\ oneshot[r] = NoDecision /\ RequestCall'[r] = "failed"
  <2>1. Calls!GiveUp(r)
    BY <1>2, <1>7 DEF Calls!GiveUp, RequestCall
  <2> QED
    BY <2>1 DEF Calls!CNext
<1> QED
  BY <1>3, <1>4, <1>5, <1>6, <1>7

\* Sending gives the call its reply, or changes nothing when its waiter has left.
LEMMA SendGives ==
    ASSUME BrokerInv, NEW r \in Requests, NEW outcome \in Outcomes, Sent(r, outcome),
           UNCHANGED asker, oneshot[r] = NoDecision
    PROVE  [Calls!CNext]_(Calls!cvars)
<1>1. RequestCall' = RequestCall
  BY DEF RequestCall, Sent, BrokerInv, BrokerTypeOK, SentOnce
<1>2. CASE asker[r] \in {"registered", "waiting"}
  <2>1. Calls!Give(r, outcome)
    BY <1>1, <1>2 DEF Calls!Give, RequestCall, Sent
  <2>2. outcome \in [s \in Requests |-> Outcomes][r]
    OBVIOUS
  <2> QED
    BY <2>1, <2>2 DEF Calls!CNext
<1>3. CASE asker[r] \notin {"registered", "waiting"}
  <2>1. UNCHANGED oneshot
    BY <1>3 DEF Sent
  <2> QED
    BY <1>1, <2>1 DEF Calls!cvars, RequestCall
<1> QED
  BY <1>2, <1>3
\* The broker implements CallReply: each call is replied to at most once, the reply is never
\* revised, and it misses its caller only if that one had left.
THEOREM Replies == BrokerSpec => BrokerReplies
<1>1. BrokerInit => Calls!CInit
  BY DEF BrokerInit, Calls!CInit
<1>2. BrokerInv /\ [BrokerNext]_brokerVars => [Calls!CNext]_(Calls!cvars)
  <2> SUFFICES ASSUME BrokerInv, [BrokerNext]_brokerVars PROVE [Calls!CNext]_(Calls!cvars)
    OBVIOUS
  <2> USE NoDecisionAssumption DEF BrokerInv, BrokerTypeOK
  <2>1. ASSUME NEW r \in Requests, Asking(r) PROVE [Calls!CNext]_(Calls!cvars)
    <3>1. UNCHANGED oneshot /\ \A s \in Requests \ {r} : asker'[s] = asker[s]
      BY <2>1 DEF Asking, Register, Announce, Disconnected, Hear, Elapse, Expire, Abandon, Returns
    <3>2. \/ RequestCall'[r] = RequestCall[r]
          \/ RequestCall[r] = "idle" /\ RequestCall'[r] = "waiting"
          \/ RequestCall[r] = "waiting" /\ RequestCall'[r] = "withdrawn"
          \/ RequestCall[r] = "waiting" /\ oneshot[r] # NoDecision /\ RequestCall'[r] = "returned"
          \/ RequestCall[r] = "waiting" /\ oneshot[r] = NoDecision /\ RequestCall'[r] = "failed"
      BY <2>1 DEF Asking, Register, Announce, Disconnected, Hear, Elapse, Expire, Abandon, Returns,
                  RequestCall, SentOnce
    <3> QED
      BY <3>1, <3>2, CallMoves
  <2>2. ASSUME NEW r \in Requests, NEW d \in Decisions, TakeSender(r, d)
        PROVE  [Calls!CNext]_(Calls!cvars)
    BY <2>2 DEF TakeSender, Calls!cvars
  <2>3. ASSUME NEW r \in Requests, SendDecision(r) PROVE [Calls!CNext]_(Calls!cvars)
    <3>1. resolver[r] \in Outcomes /\ oneshot[r] = NoDecision
      BY <2>3 DEF SendDecision, OneHand, Outcomes
    <3> QED
      BY <2>3, <3>1, SendGives DEF SendDecision
  <2>4. ASSUME NEW r \in Requests, SendTimedOut(r) PROVE [Calls!CNext]_(Calls!cvars)
    <3>1. "TimedOut" \in Outcomes /\ oneshot[r] = NoDecision
      BY <2>4 DEF SendTimedOut, OneHand, Outcomes
    <3> QED
      BY <2>4, <3>1, SendGives DEF SendTimedOut
  <2>5. CASE CancelAll
    BY <2>5 DEF CancelAll, Calls!cvars
  <2>6. CASE FrontendCloses
    BY <2>6 DEF FrontendCloses, Calls!cvars
  <2>7. CASE UNCHANGED brokerVars
    BY <2>7 DEF brokerVars, Calls!cvars
  <2> QED
    BY <2>1, <2>2, <2>3, <2>4, <2>5, <2>6, <2>7 DEF BrokerNext, Resolving
<1> QED
  BY <1>1, <1>2, Invariance, PTL DEF BrokerReplies, BrokerSpec, Calls!CSpec

-----------------------------------------------------------------------------
(* The run service *)

(* Where a task has its outcome. *)
Ending == {"marking", "markingQuietly", "telling", "over"}

(* The types of what decides the status of a run. *)
StatusTypes ==
    /\ clock \in RunIds
    /\ minted \in [Starts -> RunIds \cup {Unminted}]
    /\ registry \in [RunIds -> Starts \cup {NoRun}]
    /\ task \in [Starts -> {"none", "spawned", "announced", "driving", "returned", "marking",
                            "markingQuietly", "telling", "over"}]
    /\ cancelled \in [Starts -> BOOLEAN] /\ finished \in [Starts -> BOOLEAN]
    /\ phase \in [Starts -> {"Starting", "Running", "Cancelling", "Finished"}]
    /\ reason \in [Starts -> Reasons \cup {"none"}]
    /\ ended \in [Starts -> Reasons \cup {"none"}]
    /\ marked \in [Starts -> 0..3]
    /\ cancelling \subseteq Starts /\ early \subseteq Starts

(* The entry under an id is of a run that has the id, and every run that was started finds one. *)
RegistryAgrees ==
    /\ \A i \in RunIds : registry[i] # NoRun => minted[registry[i]] = i
    /\ \A s \in Starts : /\ task[s] = "none" <=> minted[s] = Unminted
                         /\ task[s] # "none" => registry[minted[s]] # NoRun

(* Nothing is said of a run before it starts, and none ends as cancelled unless it was; a task *)
(* has an outcome before it marks it, and marks it before it tells it.                          *)
BeforeTheEnd ==
    \A s \in Starts :
        /\ task[s] = "none" => /\ ~finished[s] /\ ~cancelled[s] /\ s \notin cancelling
                               /\ reason[s] = "none" /\ phase[s] = "Starting"
        /\ task[s] \in {"spawned", "announced"} /\ cancelled[s] => s \in early \cup cancelling
        /\ s \in cancelling => cancelled[s]
        /\ ended[s] = "Cancelled" => cancelled[s]
        /\ task[s] \in Ending \cup {"returned"} => ended[s] \in Reasons
        /\ task[s] \notin Ending => marked[s] = 0
        /\ task[s] \in {"telling", "over"} <=> marked[s] = 3

(* What the writes of mark_finished have made of the entry of a run that is alone under its id. *)
MarkedSoFar(s) ==
    /\ finished[s] <=> marked[s] \in {2, 3}
    /\ reason[s] = IF marked[s] = 3 THEN ended[s] ELSE "none"
    /\ phase[s] = "Finished" => marked[s] # 0
    /\ marked[s] # 0 /\ phase[s] # "Finished" => cancelled[s]
    /\ marked[s] = 0 /\ phase[s] = "Running" /\ cancelled[s] => s \in early \cup cancelling
    /\ phase[s] = "Running" => marked[s] = 0 /\ task[s] \notin {"spawned", "announced"}

(* So it is for each that is. *)
EntriesMarked == \A s \in Starts : Alone(s) => MarkedSoFar(s)

\* The inductive invariant of the status of runs.
StatusInv == StatusTypes /\ RegistryAgrees /\ BeforeTheEnd /\ EntriesMarked

\* The ids are not confused with their absence.
LEMMA Distinct == Unminted \notin RunIds /\ NoRun \notin Starts
<1>1. MaxTicks \in Nat /\ NoRun \notin Starts
  BY RunServiceAssumption
<1> QED
  BY <1>1 DEF RunIds, Unminted

\* It holds in the beginning.
LEMMA StatusInit == RunInit => StatusInv
  BY RunServiceAssumption
     DEF RunInit, StatusInv, StatusTypes, RegistryAgrees, BeforeTheEnd, EntriesMarked, MarkedSoFar, RunIds,
         Reasons, Unminted, Ending

\* A step of the task of one run, or of the agent on its thread, leaves the entries alone.
LEMMA TaskStep ==
    ASSUME StatusInv, NEW s \in Starts, NEW to, NEW cause, NEW now,
           UNCHANGED <<clock, minted, registry, cancelled, finished, reason, marked, cancelling, early>>,
           task' = [task EXCEPT ![s] = to], ended' = [ended EXCEPT ![s] = cause],
           phase' = [phase EXCEPT ![s] = now],
           \/ task[s] = "telling" /\ to = "over" /\ cause = ended[s]
           \/ /\ task[s] \in {"spawned", "announced", "driving", "returned"}
              /\ to \in {"announced", "driving", "returned", "marking", "markingQuietly"}
              /\ to = "announced" => task[s] = "spawned"
              /\ to \in {"returned", "marking", "markingQuietly"} => cause \in Reasons
              /\ cause \in Reasons \cup {"none"} /\ (cause = "Cancelled" => cancelled[s]),
           now = phase[s] \/ (now = "Running" /\ task[s] = "announced" /\ to = "driving")
    PROVE  StatusInv'
<1> USE DEF StatusInv
<1>1. StatusTypes'
  BY DEF StatusTypes
<1>2. RegistryAgrees'
  BY ZenonT(60) DEF StatusTypes, RegistryAgrees
<1>3. BeforeTheEnd'
  <2>1. ASSUME NEW o \in Starts, o # s
        PROVE  task'[o] = task[o] /\ ended'[o] = ended[o] /\ phase'[o] = phase[o]
    BY <2>1 DEF StatusTypes
  <2>2. task'[s] = to /\ ended'[s] = cause /\ phase'[s] = now
    BY DEF StatusTypes
  <2>3. /\ task[s] \notin Ending => marked[s] = 0
        /\ task[s] \in {"telling", "over"} <=> marked[s] = 3
        /\ task[s] \in {"spawned", "announced"} /\ cancelled[s] => s \in early \cup cancelling
        /\ ended[s] = "Cancelled" => cancelled[s]
        /\ task[s] \in Ending \cup {"returned"} => ended[s] \in Reasons
        /\ s \in cancelling => cancelled[s]
    BY DEF BeforeTheEnd
  <2>4. ASSUME NEW o \in Starts
        PROVE  (/\ task[o] = "none" => /\ ~finished[o] /\ ~cancelled[o] /\ o \notin cancelling
                                       /\ reason[o] = "none" /\ phase[o] = "Starting"
                /\ task[o] \in {"spawned", "announced"} /\ cancelled[o] => o \in early \cup cancelling
                /\ o \in cancelling => cancelled[o]
                /\ ended[o] = "Cancelled" => cancelled[o]
                /\ task[o] \in Ending \cup {"returned"} => ended[o] \in Reasons
                /\ task[o] \notin Ending => marked[o] = 0
                /\ task[o] \in {"telling", "over"} <=> marked[o] = 3)'
    <3>1. CASE o # s
      BY <2>1, <3>1 DEF BeforeTheEnd
    <3>2. CASE o = s
      BY <2>2, <2>3, <3>2 DEF Ending
    <3> QED
      BY <3>1, <3>2
  <2> QED
    BY <2>4 DEF BeforeTheEnd
<1>4. EntriesMarked'
  <2> SUFFICES ASSUME NEW o \in Starts, Alone(o) PROVE MarkedSoFar(o)'
    BY DEF EntriesMarked, Alone
  <2>1. MarkedSoFar(o)
    BY DEF EntriesMarked
  <2>2. CASE o # s
    <3>1. task'[o] = task[o] /\ ended'[o] = ended[o] /\ phase'[o] = phase[o]
      BY <2>2 DEF StatusTypes
    <3> QED
      BY <2>1, <3>1 DEF MarkedSoFar
  <2>3. CASE o = s
    <3>1. task'[s] = to /\ ended'[s] = cause /\ phase'[s] = now
      BY DEF StatusTypes
    <3>2. /\ task[s] = "announced" /\ cancelled[s] => s \in early \cup cancelling
          /\ task[s] \in {"telling", "over"} <=> marked[s] = 3
          /\ task[s] \notin Ending => marked[s] = 0
      BY DEF BeforeTheEnd
    <3> QED
      BY <2>1, <2>3, <3>1, <3>2 DEF MarkedSoFar, Ending
  <2> QED
    BY <2>2, <2>3
<1> QED
  BY <1>1, <1>2, <1>3, <1>4

\* What is sent, emitted or drained changes no status.
LEMMA NothingMoves ==
    ASSUME StatusInv, UNCHANGED <<clock, minted, registry, cancelled, early, task, ended, entry>>
    PROVE  StatusInv'
  BY DEF entry, StatusInv, StatusTypes, RegistryAgrees, BeforeTheEnd, EntriesMarked, MarkedSoFar, Alone

\* The outcome that stays is one that the run may have.
LEMMA EndedKept ==
    ASSUME StatusInv, NEW s \in Starts, ended' = ended
    PROVE  \E cause \in Reasons \cup {"none"} : /\ ended' = [ended EXCEPT ![s] = cause]
                                                /\ cause = "Cancelled" => cancelled[s]
                                                /\ cause = ended[s]
<1>1. ended[s] \in Reasons \cup {"none"} /\ ended' = [ended EXCEPT ![s] = ended[s]]
  BY DEF StatusInv, StatusTypes
<1>2. ended[s] = "Cancelled" => cancelled[s]
  BY DEF StatusInv, BeforeTheEnd
<1> QED
  BY <1>1, <1>2

\* The task goes on, and may have its outcome.
LEMMA TaskMoves ==
    ASSUME StatusInv, NEW s \in Starts,
           UNCHANGED <<clock, minted, registry, cancelled, early, entry>>,
           task[s] \in {"spawned", "announced", "driving", "returned"},
           \E to \in {"announced", "driving", "returned", "marking", "markingQuietly"},
              cause \in Reasons \cup {"none"} :
               /\ task' = [task EXCEPT ![s] = to] /\ (to = "announced" => task[s] = "spawned")
               /\ to \in {"returned", "marking", "markingQuietly"} => cause \in Reasons
               /\ ended' = [ended EXCEPT ![s] = cause] /\ (cause = "Cancelled" => cancelled[s])
    PROVE  StatusInv'
<1>1. phase' = [phase EXCEPT ![s] = phase[s]]
  BY DEF entry, StatusInv, StatusTypes
<1>2. PICK to \in {"announced", "driving", "returned", "marking", "markingQuietly"},
           cause \in Reasons \cup {"none"} :
               /\ task' = [task EXCEPT ![s] = to] /\ (to = "announced" => task[s] = "spawned")
               /\ to \in {"returned", "marking", "markingQuietly"} => cause \in Reasons
               /\ ended' = [ended EXCEPT ![s] = cause] /\ (cause = "Cancelled" => cancelled[s])
  OBVIOUS
<1> QED
  BY <1>1, <1>2, TaskStep DEF entry

\* The task is done, and ends as cancelled only if somebody cancelled.
LEMMA TaskFinishes ==
    ASSUME StatusInv, NEW s \in Starts, NEW closed \in BOOLEAN, NEW cause \in Reasons,
           NEW from \in {"spawned", "driving"}, Finishing(s, from, cause, closed),
           cause = "Cancelled" => cancelled[s],
           UNCHANGED <<clock, minted, registry, cancelled, early, entry>>
    PROVE  StatusInv'
<1>1. task[s] = from /\ ended' = [ended EXCEPT ![s] = cause]
  BY DEF Finishing, Step
<1>2. \E to \in {"marking", "markingQuietly"} : task' = [task EXCEPT ![s] = to]
  BY DEF Finishing, Step
<1> QED
  BY <1>1, <1>2, TaskMoves

\* The entry that is found under an id is of a run that was started with it.
LEMMA Found ==
    ASSUME StatusInv, NEW i \in RunIds, registry[i] # NoRun
    PROVE  registry[i] \in Starts /\ minted[registry[i]] = i /\ task[registry[i]] # "none"
<1>1. registry[i] \in Starts
  BY DEF StatusInv, StatusTypes
<1> QED
  BY <1>1, Distinct DEF StatusInv, RegistryAgrees

\* A run that was started finds the entry of one that has its id.
LEMMA FindsEntry ==
    ASSUME StatusInv, NEW s \in Starts, task[s] # "none"
    PROVE  minted[s] \in RunIds /\ registry[minted[s]] # NoRun
<1>1. minted[s] \in RunIds \cup {Unminted}
  BY DEF StatusInv, StatusTypes
<1> QED
  BY <1>1 DEF StatusInv, RegistryAgrees

\* A stop reason is reported as one the desktop knows, and Cancelled only for Cancelled.
LEMMA Labelled ==
    ASSUME NEW label \in Labels
    PROVE  Reported(label) \in Reasons /\ (Reported(label) = "Cancelled" => label = "Cancelled")
  BY RunServiceAssumption DEF Reported, StopReasonOf, Reasons

\* Every step keeps it.
LEMMA StatusNext == StatusInv /\ [RunNext]_runVars => StatusInv'
<1> SUFFICES ASSUME StatusInv, [RunNext]_runVars PROVE StatusInv'
  OBVIOUS
<1> USE DEF entry, agent
<1>1. CASE Tick
  <2>1. clock' \in RunIds
    <3>1. MaxTicks \in Nat
      BY RunServiceAssumption
    <3>2. clock \in RunIds
      BY DEF StatusInv, StatusTypes
    <3> QED
      BY <1>1, <3>1, <3>2 DEF Tick, RunIds
  <2> QED
    BY <1>1, <2>1
       DEF Tick, StatusInv, StatusTypes, RegistryAgrees, BeforeTheEnd, EntriesMarked, MarkedSoFar, Alone
<1>2. ASSUME NEW s \in Starts, NEW k, Start(s, k) PROVE StatusInv'
  <2>1. /\ task[s] = "none" /\ minted[s] = Unminted /\ Unminted \notin RunIds /\ NoRun \notin Starts
    BY <1>2, Distinct DEF Start, Step, StatusInv, RegistryAgrees
  <2> USE <1>2 DEF Start, Step, StatusInv, StatusTypes
  <2>2. StatusTypes'
    BY <2>1
  <2>3. RegistryAgrees'
    <3>1. \A i \in RunIds : registry'[i] # NoRun => minted'[registry'[i]] = i
      <4> SUFFICES ASSUME NEW i \in RunIds, registry'[i] # NoRun PROVE minted'[registry'[i]] = i
        OBVIOUS
      <4>1. CASE i = clock
        BY <4>1
      <4>2. CASE i # clock
        <5>1. registry'[i] = registry[i] /\ registry[i] \in Starts
          BY <4>2
        <5>2. minted[registry[i]] = i /\ registry[i] # s
          BY <2>1, <5>1, Found
        <5> QED
          BY <5>1, <5>2
      <4> QED
        BY <4>1, <4>2
    <3>2. \A t \in Starts : task'[t] # "none" => registry'[minted'[t]] # NoRun
      <4> SUFFICES ASSUME NEW t \in Starts, task'[t] # "none" PROVE registry'[minted'[t]] # NoRun
        OBVIOUS
      <4>1. CASE t = s
        BY <2>1, <4>1
      <4>2. CASE t # s
        <5>1. task[t] # "none" /\ minted'[t] = minted[t]
          BY <4>2
        <5>2. minted[t] \in RunIds /\ registry[minted[t]] # NoRun
          BY <5>1, FindsEntry
        <5> QED
          BY <2>1, <5>1, <5>2
      <4> QED
        BY <4>1, <4>2
    <3>3. \A t \in Starts : task'[t] = "none" <=> minted'[t] = Unminted
      BY <2>1 DEF RegistryAgrees
    <3> QED
      BY <3>1, <3>2, <3>3 DEF RegistryAgrees
  <2>4. BeforeTheEnd'
    BY <2>1 DEF BeforeTheEnd, Ending
  <2>5. EntriesMarked'
    <3> SUFFICES ASSUME NEW t \in Starts, Alone(t)' PROVE MarkedSoFar(t)'
      BY DEF EntriesMarked
    <3>1. CASE task[t] = "none"
      BY <3>1 DEF BeforeTheEnd, MarkedSoFar, Ending
    <3>2. CASE task[t] # "none"
      <4>1. t # s /\ minted'[t] = minted[t] /\ task'[t] = task[t]
        BY <2>1, <3>2
      <4>2. Alone(t)
        BY <2>1, <3>2, <4>1 DEF Alone, RegistryAgrees
      <4>3. MarkedSoFar(t)
        BY <4>2 DEF EntriesMarked
      <4> QED
        BY <4>1, <4>3 DEF MarkedSoFar
    <3> QED
      BY <3>1, <3>2
  <2> QED
    BY <2>2, <2>3, <2>4, <2>5
<1>3. ASSUME NEW i \in RunIds, CancelRun(i) PROVE StatusInv'
  <2> DEFINE s == registry[i]
  <2>1. s \in Starts /\ minted[s] = i /\ task[s] # "none"
    BY <1>3, Found DEF CancelRun
  <2> USE <1>3 DEF CancelRun, StatusInv, StatusTypes
  <2>2. StatusTypes'
    BY <2>1
  <2>3. RegistryAgrees'
    BY <2>1 DEF RegistryAgrees
  <2>4. BeforeTheEnd'
    BY <2>1 DEF BeforeTheEnd
  <2>5. EntriesMarked'
    BY <2>1 DEF EntriesMarked, MarkedSoFar, Alone
  <2> QED
    BY <2>2, <2>3, <2>4, <2>5
<1>14. ASSUME NEW s \in Starts, CancelPhase(s) PROVE StatusInv'
  <2>1. cancelled[s] /\ task[s] # "none"
    BY <1>14 DEF CancelPhase, StatusInv, BeforeTheEnd
  <2> USE <1>14 DEF CancelPhase, StatusInv, StatusTypes
  <2>2. StatusTypes'
    OBVIOUS
  <2>3. RegistryAgrees'
    BY DEF RegistryAgrees
  <2>4. BeforeTheEnd'
    BY <2>1 DEF BeforeTheEnd
  <2>5. EntriesMarked'
    BY <2>1 DEF EntriesMarked, MarkedSoFar, Alone
  <2> QED
    BY <2>2, <2>3, <2>4, <2>5
<1>4. ASSUME NEW s \in Starts, AnnounceRun(s) PROVE StatusInv'
  <2>1. CASE kind[s] = "demo" /\ ~open[s]
    BY <1>4, <2>1, TaskFinishes DEF AnnounceRun, Reasons
  <2>2. CASE ~(kind[s] = "demo" /\ ~open[s])
    BY <1>4, <2>2, TaskMoves, EndedKept DEF AnnounceRun, Step
  <2> QED
    BY <2>1, <2>2
<1>5. ASSUME NEW s \in Starts, SetRunning(s) PROVE StatusInv'
  BY <1>5, EndedKept, TaskStep DEF SetRunning, Step
<1>6. ASSUME NEW s \in Starts, DemoBatch(s) PROVE StatusInv'
  <2>1. CASE cancelled[s]
    BY <1>6, <2>1, TaskFinishes DEF DemoBatch, Reasons
  <2>2. CASE ~cancelled[s] /\ ~open[s]
    BY <1>6, <2>2, TaskFinishes DEF DemoBatch, Reasons
  <2>3. CASE ~cancelled[s] /\ open[s]
    BY <1>6, <2>3, NothingMoves DEF DemoBatch
  <2> QED
    BY <2>1, <2>2, <2>3
<1>7. ASSUME NEW s \in Starts, DemoDone(s) PROVE StatusInv'
  BY <1>7, TaskFinishes DEF DemoDone, Reasons
<1>8. ASSUME NEW s \in Starts, AgentReturns(s) PROVE StatusInv'
  <2>1. PICK cause \in Reasons : ended' = [ended EXCEPT ![s] = cause] /\ (cause = "Cancelled" => cancelled[s])
    BY <1>8, Labelled DEF AgentReturns, Reasons
  <2> QED
    BY <1>8, <2>1, TaskMoves DEF AgentReturns, Step
<1>9. ASSUME NEW s \in Starts, JoinDrainer(s) PROVE StatusInv'
  <2>1. task[s] = "returned" /\ task' = [task EXCEPT ![s] = "marking"] /\ ended' = ended
    BY <1>9 DEF JoinDrainer, Step
  <2>2. ended[s] \in Reasons
    BY <2>1 DEF StatusInv, BeforeTheEnd
  <2> QED
    BY <1>9, <2>1, <2>2, TaskMoves, EndedKept DEF JoinDrainer
<1>10. ASSUME NEW s \in Starts, Tell(s) PROVE StatusInv'
  <2>1. ended' = [ended EXCEPT ![s] = ended[s]] /\ phase' = [phase EXCEPT ![s] = phase[s]]
    BY <1>10 DEF Tell, StatusInv, StatusTypes, entry
  <2>2. task[s] = "telling" /\ task' = [task EXCEPT ![s] = "over"]
    BY <1>10 DEF Tell, Step
  <2>3. UNCHANGED <<clock, minted, registry, cancelled, finished, reason, marked, cancelling, early>>
    BY <1>10 DEF Tell, entry
  <2> QED
    BY <2>1, <2>2, <2>3, TaskStep
<1>11. ASSUME NEW s \in Starts, CloseChannel(s) \/ AgentEmits(s) \/ Drainer(s) PROVE StatusInv'
  BY <1>11, NothingMoves DEF CloseChannel, AgentEmits, Drainer, Drain, DrainerEnds
<1>12. CASE UNCHANGED runVars
  BY <1>12, NothingMoves DEF runVars
<1>13. ASSUME NEW s \in Starts, MarkFinished(s) PROVE StatusInv'
  <2>1. /\ EntryOf(s) \in Starts /\ minted[EntryOf(s)] = minted[s] /\ task[EntryOf(s)] # "none"
        /\ task[s] \in {"marking", "markingQuietly"}
    <3>1. task[s] \in {"marking", "markingQuietly"}
      BY <1>13 DEF MarkFinished, MarkPhase, MarkTime, MarkReason, Mark, Marking
    <3>2. minted[s] \in RunIds /\ registry[minted[s]] # NoRun
      BY <3>1, FindsEntry
    <3> QED
      BY <3>1, <3>2, Found DEF EntryOf
  <2>2. PICK e \in Starts : e = EntryOf(s) /\ minted[e] = minted[s] /\ task[e] # "none"
    BY <2>1
  <2>3. /\ \A t \in Starts : Alone(t) /\ t # s => t # e
        /\ Alone(s) => e = s
    BY <2>2 DEF Alone
  <2> USE DEF StatusInv, StatusTypes, Mark
  <2>4. UNCHANGED <<clock, minted, registry, cancelled, cancelling, early, ended>>
    BY <1>13 DEF MarkFinished, MarkPhase, MarkTime, MarkReason
  <2>5. CASE MarkPhase(s)
    <3>1. /\ marked[s] = 0 /\ marked' = [marked EXCEPT ![s] = 1] /\ UNCHANGED <<task, finished, reason>>
          /\ phase' = [phase EXCEPT ![e] = IF ended[s] = "Cancelled" THEN "Cancelling" ELSE "Finished"]
      BY <2>2, <2>5 DEF MarkPhase
    <3>2. StatusTypes' /\ RegistryAgrees'
      BY <2>4, <3>1 DEF RegistryAgrees
    <3>3. BeforeTheEnd'
      BY <2>1, <2>2, <2>4, <3>1 DEF BeforeTheEnd, Ending
    <3>4. ASSUME NEW t \in Starts, Alone(t) PROVE MarkedSoFar(t)'
      BY <2>1, <2>3, <2>4, <3>1, <3>4 DEF EntriesMarked, MarkedSoFar, BeforeTheEnd
    <3> QED
      BY <2>4, <3>2, <3>3, <3>4 DEF EntriesMarked, Alone
  <2>6. CASE MarkTime(s)
    <3>1. /\ marked[s] = 1 /\ marked' = [marked EXCEPT ![s] = 2] /\ UNCHANGED <<task, phase, reason>>
          /\ finished' = [finished EXCEPT ![e] = TRUE]
      BY <2>2, <2>6 DEF MarkTime
    <3>2. StatusTypes' /\ RegistryAgrees'
      BY <2>4, <3>1 DEF RegistryAgrees
    <3>3. BeforeTheEnd'
      BY <2>1, <2>2, <2>4, <3>1 DEF BeforeTheEnd, Ending
    <3>4. ASSUME NEW t \in Starts, Alone(t) PROVE MarkedSoFar(t)'
      BY <2>1, <2>3, <2>4, <3>1, <3>4 DEF EntriesMarked, MarkedSoFar, BeforeTheEnd
    <3> QED
      BY <2>4, <3>2, <3>3, <3>4 DEF EntriesMarked, Alone
  <2>7. CASE MarkReason(s)
    <3>1. PICK to \in {"telling", "over"} : task' = [task EXCEPT ![s] = to]
      BY <2>7 DEF MarkReason
    <3>2. /\ marked[s] = 2 /\ marked' = [marked EXCEPT ![s] = 3] /\ UNCHANGED <<phase, finished>>
          /\ reason' = [reason EXCEPT ![e] = ended[s]]
      BY <2>2, <2>7 DEF MarkReason
    <3>3. StatusTypes' /\ RegistryAgrees'
      BY <2>1, <2>4, <3>1, <3>2 DEF RegistryAgrees
    <3>4. BeforeTheEnd'
      BY <2>1, <2>2, <2>4, <3>1, <3>2 DEF BeforeTheEnd, Ending
    <3>5. ASSUME NEW t \in Starts, Alone(t) PROVE MarkedSoFar(t)'
      BY <2>1, <2>3, <2>4, <3>1, <3>2, <3>5 DEF EntriesMarked, MarkedSoFar, BeforeTheEnd
    <3> QED
      BY <2>4, <3>3, <3>4, <3>5 DEF EntriesMarked, Alone
  <2> QED
    BY <1>13, <2>5, <2>6, <2>7 DEF MarkFinished
<1> QED
  BY <1>1, <1>2, <1>3, <1>4, <1>5, <1>6, <1>7, <1>8, <1>9, <1>10, <1>11, <1>12, <1>13, <1>14
     DEF RunNext, RunTask

\* What is marked is what status() may say.
LEMMA MarkedTracks == StatusInv => StatusTracksTask
<1> SUFFICES ASSUME StatusInv, NEW s \in Starts, Alone(s)
             PROVE  /\ finished[s] \/ phase[s] = "Finished" => Marking(s) \/ task[s] \in {"telling", "over"}
                    /\ reason[s] # "none" => finished[s] /\ reason[s] = ended[s]
                    /\ task[s] \in {"telling", "over"} => finished[s] /\ reason[s] # "none"
                    /\ finished[s] /\ phase[s] # "Finished" => cancelled[s]
                    /\ ~finished[s] /\ phase[s] = "Running" /\ cancelled[s] => s \in early \cup cancelling
                    /\ reason[s] = "Cancelled" => cancelled[s]
  BY DEF StatusTracksTask
<1>1. MarkedSoFar(s) /\ marked[s] \in 0..3
  BY DEF StatusInv, EntriesMarked, StatusTypes
<1>2. /\ ended[s] = "Cancelled" => cancelled[s]
      /\ task[s] \in Ending => ended[s] \in Reasons
      /\ task[s] \notin Ending => marked[s] = 0
      /\ task[s] \in {"telling", "over"} <=> marked[s] = 3
  BY DEF StatusInv, BeforeTheEnd
<1> QED
  BY <1>1, <1>2 DEF MarkedSoFar, Ending, Reasons, Marking

\* What status() says of a run that shares its id with no other is what its task has come to, also
\* between the writes of mark_finished and of cancel_run, for any number of starts and cancellations.
THEOREM StatusTracks == RunSpec => []StatusTracksTask
  BY MarkedTracks, StatusInit, StatusNext, PTL DEF RunSpec

-----------------------------------------------------------------------------
(* The stream of a run *)

(* What a run's channel may carry. *)
RunEvents == [kind : {"RunStarted", "Runtime"} \cup Terminal, batch : Nat, first : Nat, last : Int]

(* RunStarted comes first, the batches are numbered without a gap, a terminal event is the last. *)
OrderedStream(stream) ==
    \A i \in DOMAIN stream :
        /\ stream[i].kind = "RunStarted" <=> i = 1
        /\ stream[i].kind \in Terminal => i = Len(stream)
        /\ stream[i].kind = "Runtime" =>
              /\ stream[i].batch = i - 2
              /\ stream[i].first = IF i = 2 THEN 0 ELSE stream[i - 1].last + 1

\* No terminal event was sent.
Unended(stream) == \A i \in DOMAIN stream : stream[i].kind \notin Terminal

(* The runtime events that the batches of a run have so far. *)
Upto(s) == IF kind[s] = "real" THEN numbered[s] ELSE 2 * batches[s]

(* The types of what a run's stream is made from. *)
StreamTypes ==
    /\ kind \in [Starts -> {"demo", "real"}]
    /\ task \in [Starts -> {"none", "spawned", "announced", "driving", "returned", "marking",
                            "markingQuietly", "telling", "over"}]
    /\ open \in [Starts -> BOOLEAN]
    /\ sent \in [Starts -> Seq(RunEvents)]
    /\ batches \in [Starts -> Nat] /\ emitted \in [Starts -> Nat] /\ numbered \in [Starts -> Nat]
    /\ drainer \in [Starts -> {"off", "running", "done"}]

(* How far the agent, the drainer and the task of a run are: a real run is marked only when its *)
(* drainer has numbered everything.                                                              *)
RunCounts(s) ==
    /\ task[s] \in {"none", "spawned", "announced"} =>
          batches[s] = 0 /\ emitted[s] = 0 /\ drainer[s] = "off"
    /\ kind[s] = "demo" => emitted[s] = 0 /\ drainer[s] = "off" /\ batches[s] <= DemoBatches
    /\ kind[s] = "real" => /\ task[s] # "markingQuietly"
                           /\ task[s] \in {"marking", "telling", "over"} => drainer[s] = "done"
                           /\ batches[s] <= numbered[s] /\ (batches[s] = 0 => numbered[s] = 0)
    /\ drainer[s] = "running" => task[s] \in {"driving", "returned"}
    /\ drainer[s] = "done" => /\ numbered[s] = emitted[s]
                              /\ task[s] \notin {"none", "spawned", "announced", "driving"}
    /\ numbered[s] <= emitted[s] /\ emitted[s] <= MaxEvents

(* What the channel of a run has, as long as somebody listens: RunStarted and every batch. *)
RunStream(s) ==
    /\ OrderedStream(sent[s])
    /\ task[s] # "over" => Unended(sent[s])
    /\ task[s] \in {"none", "spawned"} => sent[s] = <<>>
    /\ open[s] /\ task[s] \notin {"none", "spawned", "over"} =>
          /\ Len(sent[s]) = 1 + batches[s]
          /\ batches[s] > 0 => sent[s][1 + batches[s]].last = Upto(s) - 1
    /\ open[s] /\ kind[s] = "real" /\ task[s] = "over" =>
          LET last == sent[s][Len(sent[s]) - 1] IN
          IF emitted[s] = 0 THEN last.kind = "RunStarted" ELSE last.last = emitted[s] - 1

\* The inductive invariant of the streams.
StreamInv == StreamTypes /\ \A s \in Starts : RunCounts(s) /\ RunStream(s)

-----------------------------------------------------------------------------
(* What is appended to a stream *)

\* RunStarted is a stream of its own.
LEMMA FirstOfStream ==
    LET stream == Append(<<>>, Milestone("RunStarted"))
    IN  stream \in Seq(RunEvents) /\ Len(stream) = 1 /\ OrderedStream(stream) /\ Unended(stream)
<1> DEFINE e == Milestone("RunStarted")
           q == Append(<<>>, e)
<1>1. e \in RunEvents /\ e.kind = "RunStarted"
  BY DEF Milestone, Event, RunEvents
<1>2. <<>> \in Seq(RunEvents) /\ Len(<<>>) = 0
  OBVIOUS
<1> HIDE DEF e
<1>3. q \in Seq(RunEvents) /\ Len(q) = 1 /\ DOMAIN q = 1..1 /\ q[1] = e
  BY <1>1, <1>2
<1> HIDE DEF q
<1>4. \A i \in DOMAIN q : i = 1 /\ q[i].kind = "RunStarted"
  BY <1>1, <1>3
<1>5. OrderedStream(q) /\ Unended(q)
  BY <1>3, <1>4 DEF OrderedStream, Unended, Terminal
<1> QED
  BY <1>3, <1>5 DEF q, e

\* Whatever is appended, the events before it stay what they were.
LEMMA Appended ==
    ASSUME NEW q \in Seq(RunEvents), NEW e \in RunEvents
    PROVE  /\ Append(q, e) \in Seq(RunEvents)
           /\ Len(q) \in Nat /\ Len(Append(q, e)) = Len(q) + 1
           /\ DOMAIN q = 1..Len(q)
           /\ DOMAIN Append(q, e) = 1..(Len(q) + 1)
           /\ Append(q, e)[Len(q) + 1] = e
           /\ \A i \in 1..Len(q) : Append(q, e)[i] = q[i]
  OBVIOUS

\* A batch that goes on where the last one ended keeps the order.
LEMMA BatchAppended ==
    ASSUME NEW q \in Seq(RunEvents), NEW b \in Nat, NEW first \in Nat, NEW last \in Int,
           OrderedStream(q), Unended(q), Len(q) = 1 + b,
           first = IF b = 0 THEN 0 ELSE q[1 + b].last + 1
    PROVE  LET stream == Append(q, Event("Runtime", b, first, last))
           IN  /\ stream \in Seq(RunEvents) /\ Len(stream) = 2 + b /\ stream[2 + b].last = last
               /\ OrderedStream(stream) /\ Unended(stream)
<1> DEFINE e == Event("Runtime", b, first, last)
           stream == Append(q, e)
<1>1. e \in RunEvents /\ e.kind = "Runtime" /\ e.batch = b /\ e.first = first /\ e.last = last
  BY DEF Event, RunEvents
<1> HIDE DEF e
<1>2. /\ stream \in Seq(RunEvents) /\ Len(stream) = 2 + b /\ DOMAIN stream = 1..(2 + b)
      /\ DOMAIN q = 1..(1 + b) /\ stream[2 + b] = e /\ \A i \in 1..(1 + b) : stream[i] = q[i]
  BY <1>1, Appended
<1> HIDE DEF stream
<1>3. \A i \in 1..(1 + b) : q[i].kind \notin Terminal
  BY <1>2 DEF Unended
<1>4. Unended(stream)
  <2> SUFFICES ASSUME NEW i \in 1..(2 + b) PROVE stream[i].kind \notin Terminal
    BY <1>2 DEF Unended
  <2>1. CASE i = 2 + b
    BY <1>1, <1>2, <2>1 DEF Terminal
  <2>2. CASE i # 2 + b
    BY <1>2, <1>3, <2>2
  <2> QED
    BY <2>1, <2>2
<1>5. OrderedStream(stream)
  <2> SUFFICES ASSUME NEW i \in 1..(2 + b)
               PROVE  /\ stream[i].kind = "RunStarted" <=> i = 1
                      /\ stream[i].kind = "Runtime" =>
                            /\ stream[i].batch = i - 2
                            /\ stream[i].first = IF i = 2 THEN 0 ELSE stream[i - 1].last + 1
    BY <1>2, <1>4 DEF OrderedStream, Unended
  <2>1. CASE i = 2 + b
    <3>1. stream[i] = e /\ i # 1 /\ i - 2 = b /\ (i = 2 <=> b = 0)
      BY <1>2, <2>1
    <3>2. b # 0 => stream[i - 1] = q[1 + b]
      BY <1>2, <2>1
    <3> QED
      BY <1>1, <3>1, <3>2
  <2>2. CASE i # 2 + b
    <3>1. i \in 1..(1 + b) /\ stream[i] = q[i]
      BY <1>2, <2>2
    <3>2. i # 1 => stream[i - 1] = q[i - 1]
      BY <1>2, <3>1
    <3>3. /\ q[i].kind = "RunStarted" <=> i = 1
          /\ q[i].kind = "Runtime" =>
                /\ q[i].batch = i - 2
                /\ q[i].first = IF i = 2 THEN 0 ELSE q[i - 1].last + 1
      BY <1>2, <3>1 DEF OrderedStream
    <3> QED
      BY <3>1, <3>2, <3>3
  <2> QED
    BY <2>1, <2>2
<1> QED
  BY <1>1, <1>2, <1>4, <1>5 DEF stream, e

\* So does a terminal event.
LEMMA EndAppended ==
    ASSUME NEW q \in Seq(RunEvents), NEW k \in Terminal,
           OrderedStream(q), Unended(q), Len(q) >= 1
    PROVE  LET stream == Append(q, Milestone(k))
           IN  /\ stream \in Seq(RunEvents) /\ OrderedStream(stream) /\ Len(stream) = Len(q) + 1
               /\ stream[Len(q)] = q[Len(q)]
<1> DEFINE e == Milestone(k)
           stream == Append(q, e)
           n == Len(q)
<1>1. e \in RunEvents /\ e.kind \in Terminal
  BY DEF Milestone, Event, RunEvents
<1> HIDE DEF e
<1>2. /\ stream \in Seq(RunEvents) /\ n \in Nat /\ Len(stream) = n + 1 /\ DOMAIN stream = 1..(n + 1)
      /\ DOMAIN q = 1..n /\ stream[n + 1] = e /\ \A i \in 1..n : stream[i] = q[i]
  BY <1>1, Appended
<1>3. n >= 1
  OBVIOUS
<1> HIDE DEF stream, n
<1>4. OrderedStream(stream)
  <2> SUFFICES ASSUME NEW i \in 1..(n + 1)
               PROVE  /\ stream[i].kind = "RunStarted" <=> i = 1
                      /\ stream[i].kind \in Terminal => i = n + 1
                      /\ stream[i].kind = "Runtime" =>
                            /\ stream[i].batch = i - 2
                            /\ stream[i].first = IF i = 2 THEN 0 ELSE stream[i - 1].last + 1
    BY <1>2 DEF OrderedStream
  <2>1. CASE i = n + 1
    BY <1>1, <1>2, <1>3, <2>1 DEF Terminal
  <2>2. CASE i # n + 1
    <3>1. i \in 1..n /\ stream[i] = q[i]
      BY <1>2, <2>2
    <3>2. i # 1 => stream[i - 1] = q[i - 1]
      BY <1>2, <3>1
    <3>3. /\ q[i].kind = "RunStarted" <=> i = 1
          /\ q[i].kind \notin Terminal
          /\ q[i].kind = "Runtime" =>
                /\ q[i].batch = i - 2
                /\ q[i].first = IF i = 2 THEN 0 ELSE q[i - 1].last + 1
      BY <1>2, <3>1 DEF OrderedStream, Unended
    <3> QED
      BY <3>1, <3>2, <3>3
  <2> QED
    BY <2>1, <2>2
<1> QED
  BY <1>2, <1>3, <1>4 DEF stream, e, n

-----------------------------------------------------------------------------
(* A step of one run *)

(* What is said of a run's stream does not change for this one. *)
SameRun(t) ==
    /\ kind'[t] = kind[t] /\ task'[t] = task[t] /\ open'[t] = open[t] /\ sent'[t] = sent[t]
    /\ batches'[t] = batches[t] /\ emitted'[t] = emitted[t] /\ numbered'[t] = numbered[t]
    /\ drainer'[t] = drainer[t]

\* A step that keeps every run but one is right when it is right for that one.
LEMMA OneRun ==
    ASSUME StreamInv, NEW s \in Starts, StreamTypes', RunCounts(s)', RunStream(s)',
           \A t \in Starts \ {s} : SameRun(t)
    PROVE  StreamInv'
<1> SUFFICES ASSUME NEW t \in Starts \ {s} PROVE RunCounts(t)' /\ RunStream(t)'
  BY DEF StreamInv
<1>1. SameRun(t) /\ RunCounts(t) /\ RunStream(t)
  BY DEF StreamInv
<1>2. RunCounts(t)'
  BY <1>1 DEF SameRun, RunCounts
<1>3. RunStream(t)'
  BY <1>1 DEF SameRun, RunStream, Upto
<1> QED
  BY <1>2, <1>3

\* Nothing is sent, and the task does not come to where something should have been.
LEMMA StreamStays ==
    ASSUME StreamInv, NEW s \in Starts,
           sent'[s] = sent[s], batches'[s] = batches[s], numbered'[s] = numbered[s],
           open'[s] => open[s],
           task'[s] # "over" => task[s] # "over",
           task'[s] \in {"none", "spawned"} => task[s] \in {"none", "spawned"},
           open'[s] /\ task'[s] \notin {"none", "spawned", "over"} =>
              kind'[s] = kind[s] /\ task[s] \notin {"none", "spawned", "over"},
           open'[s] /\ kind'[s] = "real" /\ task'[s] = "over" =>
              kind'[s] = kind[s] /\ task[s] = "over" /\ emitted'[s] = emitted[s]
    PROVE  RunStream(s)'
<1>1. RunStream(s)
  BY DEF StreamInv
<1>2. OrderedStream(sent'[s]) /\ (task'[s] # "over" => Unended(sent'[s]))
  BY <1>1 DEF RunStream
<1>3. task'[s] \in {"none", "spawned"} => sent'[s] = <<>>
  BY <1>1 DEF RunStream
<1>4. open'[s] /\ task'[s] \notin {"none", "spawned", "over"} =>
          /\ Len(sent'[s]) = 1 + batches'[s]
          /\ batches'[s] > 0 => sent'[s][1 + batches'[s]].last = Upto(s)' - 1
  BY <1>1 DEF RunStream, Upto
<1>5. open'[s] /\ kind'[s] = "real" /\ task'[s] = "over" =>
          LET last == sent'[s][Len(sent'[s]) - 1] IN
          IF emitted'[s] = 0 THEN last.kind = "RunStarted" ELSE last.last = emitted'[s] - 1
  BY <1>1 DEF RunStream
<1> QED
  BY <1>2, <1>3, <1>4, <1>5 DEF RunStream

\* The streams are empty in the beginning.
LEMMA StreamInit == RunInit => StreamInv
<1> SUFFICES ASSUME RunInit PROVE StreamInv
  OBVIOUS
<1>1. MaxEvents \in Nat /\ <<>> \in Seq(RunEvents)
  BY RunServiceAssumption
<1>2. StreamTypes
  BY <1>1 DEF RunInit, StreamTypes
<1>3. ASSUME NEW s \in Starts PROVE RunCounts(s) /\ RunStream(s)
  <2>1. RunCounts(s)
    BY <1>1 DEF RunInit, RunCounts, DemoBatches
  <2>2. sent[s] = <<>> /\ task[s] = "none" /\ DOMAIN <<>> = {}
    BY DEF RunInit
  <2> QED
    BY <2>1, <2>2 DEF RunStream, OrderedStream, Unended
<1> QED
  BY <1>2, <1>3 DEF StreamInv

\* A start sends nothing.
LEMMA StartStream == ASSUME StreamInv, NEW s \in Starts, NEW k \in Kinds[s], Start(s, k) PROVE StreamInv'
<1> USE DEF StreamInv
<1>1. k \in {"demo", "real"}
  BY RunServiceAssumption
<1>2. /\ task[s] = "none" /\ task' = [task EXCEPT ![s] = "spawned"] /\ kind' = [kind EXCEPT ![s] = k]
      /\ UNCHANGED <<open, sent, batches, emitted, numbered, drainer>>
  BY DEF Start, Step, agent
<1>3. StreamTypes' /\ task'[s] = "spawned"
  BY <1>1, <1>2 DEF StreamTypes
<1>4. \A t \in Starts \ {s} : SameRun(t)
  BY <1>2 DEF SameRun, StreamTypes
<1>5. RunCounts(s)'
  <2>1. /\ batches[s] = 0 /\ emitted[s] = 0 /\ drainer[s] = "off" /\ MaxEvents \in Nat
        /\ numbered[s] \in Nat /\ numbered[s] <= emitted[s]
    BY <1>2, RunServiceAssumption DEF StreamTypes, RunCounts
  <2>2. numbered[s] = 0
    BY <2>1
  <2>3. batches'[s] = 0 /\ emitted'[s] = 0 /\ drainer'[s] = "off" /\ numbered'[s] = 0
    BY <1>2, <2>1, <2>2
  <2> HIDE DEF StreamInv
  <2> QED
    BY <1>3, <2>1, <2>3 DEF RunCounts, DemoBatches
<1>6. RunStream(s)'
  BY <1>2, <1>3, StreamStays
<1> QED
  BY <1>3, <1>4, <1>5, <1>6, OneRun

\* A channel that closes keeps what it has.
LEMMA CloseStream == ASSUME StreamInv, NEW s \in Starts, CloseChannel(s) PROVE StreamInv'
<1> USE DEF StreamInv
<1>1. /\ open' = [open EXCEPT ![s] = FALSE]
      /\ UNCHANGED <<kind, task, sent, batches, emitted, numbered, drainer>>
  BY DEF CloseChannel, agent
<1>2. StreamTypes' /\ ~open'[s]
  BY <1>1 DEF StreamTypes
<1>3. \A t \in Starts \ {s} : SameRun(t)
  BY <1>1 DEF SameRun, StreamTypes
<1>4. RunCounts(s)'
  BY <1>1 DEF RunCounts
<1>5. task[s] # "over"
  BY DEF CloseChannel
<1>6. RunStream(s)'
  BY <1>1, <1>2, <1>5, StreamStays
<1> QED
  BY <1>2, <1>3, <1>4, <1>6, OneRun

\* A step of the task that sends nothing.
LEMMA QuietStep ==
    ASSUME StreamInv, NEW s \in Starts,
           NEW to \in {"driving", "returned", "marking", "markingQuietly", "telling", "over"},
           task[s] \notin {"none", "spawned", "over"}, task' = [task EXCEPT ![s] = to],
           UNCHANGED <<kind, open, sent, batches, emitted, numbered>>,
           StreamTypes', \A t \in Starts \ {s} : drainer'[t] = drainer[t], RunCounts(s)',
           to = "over" => kind[s] = "demo"
    PROVE  StreamInv'
<1>1. task'[s] = to /\ \A t \in Starts \ {s} : task'[t] = task[t]
  BY DEF StreamInv, StreamTypes
<1>2. \A t \in Starts \ {s} : SameRun(t)
  BY <1>1 DEF SameRun
<1>3. RunStream(s)'
  BY <1>1, StreamStays
<1> QED
  BY <1>2, <1>3, OneRun

\* RunStarted is the first to be sent.
LEMMA AnnounceStream == ASSUME StreamInv, NEW s \in Starts, AnnounceRun(s) PROVE StreamInv'
<1> USE DEF StreamInv
<1> DEFINE e == Milestone("RunStarted")
           hushed == kind[s] = "demo" /\ ~open[s]
           to == IF hushed THEN "markingQuietly" ELSE "announced"
<1>1. /\ task[s] = "spawned" /\ task' = [task EXCEPT ![s] = to] /\ Send(s, e)
      /\ UNCHANGED <<kind, open, batches, emitted, numbered, drainer>>
  BY DEF AnnounceRun, Finishing, Step, agent
<1>2. sent[s] = <<>> /\ batches[s] = 0 /\ emitted[s] = 0 /\ drainer[s] = "off"
  BY <1>1 DEF RunStream, RunCounts
<1>3. e \in RunEvents
  BY DEF Milestone, Event, RunEvents
<1>4. CASE open[s]
  <2> DEFINE stream == Append(<<>>, e)
  <2>1. to = "announced" /\ sent' = [sent EXCEPT ![s] = stream]
    BY <1>1, <1>2, <1>4 DEF Send, StreamTypes
  <2>2. stream \in Seq(RunEvents) /\ Len(stream) = 1 /\ OrderedStream(stream) /\ Unended(stream)
    BY FirstOfStream
  <2> HIDE DEF stream, e, to
  <2>3. StreamTypes' /\ task'[s] = "announced" /\ sent'[s] = stream
    BY <1>1, <2>1, <2>2 DEF StreamTypes
  <2>4. \A t \in Starts \ {s} : SameRun(t)
    BY <1>1, <2>1 DEF SameRun, StreamTypes
  <2>5. RunCounts(s)'
    BY <1>1, <1>2, <2>3 DEF RunCounts
  <2>6. RunStream(s)'
    BY <1>1, <1>2, <2>2, <2>3 DEF RunStream
  <2> QED
    BY <2>3, <2>4, <2>5, <2>6, OneRun
<1>5. CASE ~open[s]
  <2>1. sent' = sent
    BY <1>1, <1>5 DEF Send
  <2>2. StreamTypes' /\ task'[s] = to /\ ~open'[s]
    BY <1>1, <1>5, <2>1 DEF StreamTypes
  <2>3. \A t \in Starts \ {s} : SameRun(t)
    BY <1>1, <2>1 DEF SameRun, StreamTypes
  <2>4. RunCounts(s)'
    <3>1. RunCounts(s) /\ kind[s] \in {"demo", "real"} /\ hushed = (kind[s] = "demo")
      BY <1>5 DEF StreamTypes
    <3>2. task'[s] = (IF kind[s] = "demo" THEN "markingQuietly" ELSE "announced")
      BY <2>2, <3>1
    <3>3. /\ task[s] = "spawned"
          /\ kind'[s] = kind[s] /\ batches'[s] = batches[s] /\ emitted'[s] = emitted[s]
          /\ numbered'[s] = numbered[s] /\ drainer'[s] = drainer[s]
      BY <1>1
    <3> HIDE DEF StreamInv, to, hushed
    <3>4. CASE kind[s] = "demo"
      BY <1>2, <3>1, <3>2, <3>3, <3>4 DEF RunCounts
    <3>5. CASE kind[s] = "real"
      BY <1>2, <3>1, <3>2, <3>3, <3>5 DEF RunCounts
    <3> QED
      BY <3>1, <3>4, <3>5
  <2>5. task'[s] \notin {"none", "spawned", "over"}
    BY <2>2
  <2>6. RunStream(s)'
    BY <1>1, <2>1, <2>2, <2>5, StreamStays
  <2> QED
    BY <2>2, <2>3, <2>4, <2>6, OneRun
<1> QED
  BY <1>4, <1>5

\* A batch is sent by the drainer of a real run or by the task of a demo run.
LEMMA BatchStream ==
    ASSUME StreamInv, NEW s \in Starts, NEW last \in Int, SendBatch(s, Upto(s), last),
           task[s] \in {"driving", "returned"}, Upto(s) \in Nat, Upto(s)' = last + 1,
           batches[s] = 0 => Upto(s) = 0,
           UNCHANGED <<kind, open, task>>
    PROVE  RunStream(s)' /\ sent' \in [Starts -> Seq(RunEvents)] /\ \A t \in Starts \ {s} : sent'[t] = sent[t]
<1> USE DEF StreamInv
<1> DEFINE b == batches[s]
           stream == Append(sent[s], Event("Runtime", b, Upto(s), last))
<1>1. b \in Nat /\ batches'[s] = b + 1 /\ sent[s] \in Seq(RunEvents)
  BY DEF SendBatch, StreamTypes
<1>2. OrderedStream(sent[s]) /\ Unended(sent[s])
  BY DEF RunStream
<1>3. CASE open[s]
  <2>1. Len(sent[s]) = 1 + b /\ (b > 0 => sent[s][1 + b].last = Upto(s) - 1)
    BY <1>3 DEF RunStream
  <2>2. b # 0 => sent[s][1 + b] \in RunEvents
    BY <1>1, <2>1
  <2>3. Upto(s) = IF b = 0 THEN 0 ELSE sent[s][1 + b].last + 1
    <3>1. b = 0 => Upto(s) = 0
      OBVIOUS
    <3>2. b # 0 => b > 0 /\ Upto(s) \in Nat
      BY <1>1
    <3> HIDE DEF b, stream, StreamInv
    <3> QED
      BY <2>1, <3>1, <3>2
  <2>4. /\ stream \in Seq(RunEvents) /\ Len(stream) = 2 + b /\ stream[2 + b].last = last
        /\ OrderedStream(stream) /\ Unended(stream)
    BY <1>1, <1>2, <2>1, <2>3, BatchAppended
  <2>5. sent' = [sent EXCEPT ![s] = stream]
    BY <1>3 DEF SendBatch, Send
  <2> HIDE DEF stream
  <2>6. sent'[s] = stream /\ sent' \in [Starts -> Seq(RunEvents)] /\ \A t \in Starts \ {s} : sent'[t] = sent[t]
    BY <2>4, <2>5 DEF StreamTypes
  <2>7. Len(sent'[s]) = 1 + batches'[s] /\ sent'[s][1 + batches'[s]].last = Upto(s)' - 1
    BY <1>1, <2>4, <2>6
  <2>8. task'[s] \in {"driving", "returned"}
    OBVIOUS
  <2> QED
    BY <2>4, <2>6, <2>7, <2>8 DEF RunStream
<1>4. CASE ~open[s]
  <2>1. sent' = sent /\ ~open'[s]
    BY <1>4 DEF SendBatch, Send
  <2> QED
    BY <1>2, <2>1 DEF RunStream, StreamTypes
<1> QED
  BY <1>3, <1>4

\* The drainer sends what was emitted and not yet numbered, up to its limit.
LEMMA DrainStream == ASSUME StreamInv, NEW s \in Starts, Drain(s) PROVE StreamInv'
<1> USE DEF StreamInv
<1> DEFINE n == numbered[s]
           upto == IF emitted[s] - n > BatchLimit THEN n + BatchLimit ELSE emitted[s]
<1>1. /\ drainer[s] = "running" /\ n < emitted[s] /\ SendBatch(s, n, upto - 1)
      /\ numbered' = [numbered EXCEPT ![s] = upto]
      /\ UNCHANGED <<kind, task, open, emitted, drainer>>
  BY DEF Drain
<1>2. task[s] \in {"driving", "returned"} /\ kind[s] = "real" /\ batches[s] <= n /\ (batches[s] = 0 => n = 0)
  BY <1>1 DEF RunCounts, StreamTypes
<1>3. n \in Nat /\ emitted[s] \in Nat /\ BatchLimit \in Nat \ {0} /\ batches[s] \in Nat
  BY RunServiceAssumption DEF StreamTypes
<1>4. upto \in Nat /\ n < upto /\ upto <= emitted[s]
  BY <1>1, <1>3
<1>5. numbered'[s] = upto /\ numbered' \in [Starts -> Nat] /\ \A t \in Starts \ {s} : numbered'[t] = numbered[t]
  <2> HIDE DEF upto
  <2> QED
    BY <1>1, <1>4 DEF StreamTypes
<1>6. batches' = [batches EXCEPT ![s] = @ + 1]
  BY <1>1 DEF SendBatch
<1>7. /\ batches'[s] = batches[s] + 1 /\ batches' \in [Starts -> Nat]
      /\ \A t \in Starts \ {s} : batches'[t] = batches[t]
  <2>1. batches \in [Starts -> Nat]
    BY DEF StreamTypes
  <2> HIDE DEF StreamInv, n, upto
  <2>2. batches[s] + 1 \in Nat
    BY <1>3
  <2> QED
    BY <1>6, <2>1, <2>2
<1> HIDE DEF upto, n
<1>8. Upto(s) = n /\ Upto(s)' = upto
  BY <1>1, <1>2, <1>5 DEF Upto, n
<1>9. upto - 1 \in Int /\ upto = (upto - 1) + 1
  BY <1>4
<1>10. RunStream(s)' /\ sent' \in [Starts -> Seq(RunEvents)] /\ \A t \in Starts \ {s} : sent'[t] = sent[t]
  BY <1>1, <1>2, <1>3, <1>8, <1>9, BatchStream
<1>11. StreamTypes'
  BY <1>1, <1>5, <1>7, <1>10 DEF StreamTypes
<1>12. \A t \in Starts \ {s} : SameRun(t)
  BY <1>1, <1>5, <1>7, <1>10 DEF SameRun
<1>13. RunCounts(s)'
  <2>1. batches'[s] # 0 /\ batches'[s] <= numbered'[s] /\ numbered'[s] <= emitted'[s]
    BY <1>1, <1>2, <1>3, <1>4, <1>5, <1>7
  <2>2. RunCounts(s)
    OBVIOUS
  <2> QED
    BY <1>1, <1>2, <2>1, <2>2 DEF RunCounts
<1> QED
  BY <1>10, <1>11, <1>12, <1>13, OneRun

\* A demo run sends its batches itself.
LEMMA DemoStream == ASSUME StreamInv, NEW s \in Starts, DemoBatch(s) PROVE StreamInv'
<1> USE DEF StreamInv
<1>1. /\ kind[s] = "demo" /\ task[s] = "driving" /\ batches[s] < DemoBatches
      /\ UNCHANGED <<kind, open, emitted, numbered, drainer>>
  BY DEF DemoBatch
<1>2. CASE cancelled[s] \/ ~open[s]
  <2>1. PICK to \in {"marking", "markingQuietly"} : task' = [task EXCEPT ![s] = to]
    BY <1>2 DEF DemoBatch, Finishing, Step
  <2>2. UNCHANGED <<sent, batches>>
    BY <1>2 DEF DemoBatch
  <2>3. StreamTypes' /\ task'[s] = to
    BY <1>1, <2>1, <2>2 DEF StreamTypes
  <2>4. RunCounts(s)'
    BY <1>1, <2>2, <2>3 DEF RunCounts
  <2> QED
    BY <1>1, <2>1, <2>2, <2>3, <2>4, QuietStep
<1>3. CASE ~cancelled[s] /\ open[s]
  <2> DEFINE b == batches[s]
  <2>1. SendBatch(s, 2 * b, 2 * b + 1) /\ task' = task
    BY <1>1, <1>3 DEF DemoBatch
  <2>2. b \in Nat /\ batches' = [batches EXCEPT ![s] = b + 1]
    BY <2>1 DEF SendBatch, StreamTypes
  <2>3. batches'[s] = b + 1 /\ batches' \in [Starts -> Nat] /\ \A t \in Starts \ {s} : batches'[t] = batches[t]
    <3>1. batches \in [Starts -> Nat]
      BY DEF StreamTypes
    <3> HIDE DEF StreamInv, b
    <3>2. b + 1 \in Nat
      BY <2>2
    <3> QED
      BY <2>2, <3>1, <3>2
  <2>4. Upto(s) = 2 * b /\ Upto(s)' = (2 * b + 1) + 1 /\ 2 * b \in Nat /\ 2 * b + 1 \in Int
    BY <1>1, <2>2, <2>3 DEF Upto
  <2>5. RunStream(s)' /\ sent' \in [Starts -> Seq(RunEvents)] /\ \A t \in Starts \ {s} : sent'[t] = sent[t]
    <3> HIDE DEF b
    <3>1. batches[s] = 0 => Upto(s) = 0
      BY <2>2, <2>4 DEF b
    <3> QED
      BY <1>1, <2>1, <2>4, <3>1, BatchStream
  <2>6. StreamTypes'
    BY <1>1, <2>1, <2>3, <2>5 DEF StreamTypes
  <2>7. \A t \in Starts \ {s} : SameRun(t)
    BY <1>1, <2>1, <2>3, <2>5 DEF SameRun
  <2>8. RunCounts(s)'
    <3>1. RunCounts(s) /\ batches'[s] <= DemoBatches /\ kind'[s] = "demo" /\ task'[s] = "driving"
      BY <1>1, <2>1, <2>2, <2>3 DEF DemoBatches
    <3> HIDE DEF StreamInv, b
    <3> QED
      BY <1>1, <3>1 DEF RunCounts
  <2> QED
    BY <2>5, <2>6, <2>7, <2>8, OneRun
<1> QED
  BY <1>2, <1>3

\* Status and cancellation do not touch the stream.
LEMMA StreamSame ==
    ASSUME StreamInv, UNCHANGED <<kind, task, open, sent, batches, emitted, numbered, drainer>>
    PROVE  StreamInv'
<1>1. StreamTypes'
  BY DEF StreamInv, StreamTypes
<1>2. ASSUME NEW s \in Starts PROVE RunCounts(s)' /\ RunStream(s)'
  <2>1. RunCounts(s)'
    BY DEF StreamInv, RunCounts
  <2>2. RunStream(s)'
    BY DEF StreamInv, RunStream, Upto
  <2> QED
    BY <2>1, <2>2
<1> QED
  BY <1>1, <1>2 DEF StreamInv

\* What the task of a run does without its channel.
LEMMA TaskStream ==
    ASSUME StreamInv, NEW s \in Starts,
           SetRunning(s) \/ DemoDone(s) \/ AgentReturns(s) \/ JoinDrainer(s) \/ MarkFinished(s)
    PROVE  StreamInv'
<1> USE DEF StreamInv
<1>1. ASSUME NEW to \in {"driving", "returned", "marking", "markingQuietly", "telling", "over"},
             task[s] \notin {"none", "spawned", "over"}, task' = [task EXCEPT ![s] = to],
             UNCHANGED <<kind, open, sent, batches, emitted, numbered, drainer>>,
             task'[s] = to => RunCounts(s)', to = "over" => kind[s] = "demo"
      PROVE  StreamInv'
  <2>1. StreamTypes' /\ task'[s] = to
    BY <1>1 DEF StreamTypes
  <2> QED
    BY <1>1, <2>1, QuietStep
<1>2. RunCounts(s) /\ kind[s] \in {"demo", "real"}
  BY DEF StreamTypes
<1>3. CASE SetRunning(s)
  <2> DEFINE now == IF kind[s] = "real" THEN "running" ELSE "off"
  <2>1. /\ task[s] = "announced" /\ task' = [task EXCEPT ![s] = "driving"]
        /\ drainer' = [drainer EXCEPT ![s] = now]
        /\ UNCHANGED <<kind, open, sent, batches, emitted, numbered>>
    BY <1>3 DEF SetRunning, Step
  <2>2. StreamTypes' /\ task'[s] = "driving" /\ drainer'[s] = now
    BY <2>1 DEF StreamTypes
  <2>3. \A t \in Starts \ {s} : drainer'[t] = drainer[t]
    BY <2>1 DEF StreamTypes
  <2>4. RunCounts(s)'
    <3>1. /\ task[s] = "announced"
          /\ kind'[s] = kind[s] /\ batches'[s] = batches[s] /\ emitted'[s] = emitted[s]
          /\ numbered'[s] = numbered[s]
      BY <2>1
    <3> HIDE DEF StreamInv
    <3>2. CASE kind[s] = "demo"
      BY <1>2, <2>2, <3>1, <3>2 DEF RunCounts
    <3>3. CASE kind[s] = "real"
      BY <1>2, <2>2, <3>1, <3>3 DEF RunCounts
    <3> QED
      BY <1>2, <3>2, <3>3
  <2> QED
    BY <2>1, <2>2, <2>3, <2>4, QuietStep
<1>4. CASE DemoDone(s)
  <2>1. /\ kind[s] = "demo" /\ task[s] = "driving" /\ task' = [task EXCEPT ![s] = "marking"]
        /\ UNCHANGED <<kind, open, sent, batches, emitted, numbered, drainer>>
    BY <1>4 DEF DemoDone, Finishing, Step, agent
  <2>2. task'[s] = "marking" => RunCounts(s)'
    BY <1>2, <2>1 DEF RunCounts
  <2> QED
    BY <1>1, <2>1, <2>2
<1>5. CASE AgentReturns(s)
  <2>1. /\ kind[s] = "real" /\ task[s] = "driving" /\ task' = [task EXCEPT ![s] = "returned"]
        /\ UNCHANGED <<kind, open, sent, batches, emitted, numbered, drainer>>
    BY <1>5 DEF AgentReturns, Step, agent
  <2>2. task'[s] = "returned" => RunCounts(s)'
    BY <1>2, <2>1 DEF RunCounts
  <2> QED
    BY <1>1, <2>1, <2>2
<1>6. CASE JoinDrainer(s)
  <2>1. /\ drainer[s] = "done" /\ task[s] = "returned" /\ task' = [task EXCEPT ![s] = "marking"]
        /\ UNCHANGED <<kind, open, sent, batches, emitted, numbered, drainer>>
    BY <1>6 DEF JoinDrainer, Step, agent
  <2>2. task'[s] = "marking" => RunCounts(s)'
    BY <1>2, <2>1 DEF RunCounts
  <2> QED
    BY <1>1, <2>1, <2>2
<1>7. CASE MarkPhase(s) \/ MarkTime(s)
  BY <1>7, StreamSame DEF MarkPhase, MarkTime, Mark, agent
<1>8. CASE MarkReason(s)
  <2> DEFINE to == IF task[s] = "marking" THEN "telling" ELSE "over"
  <2>1. /\ task[s] \in {"marking", "markingQuietly"} /\ task' = [task EXCEPT ![s] = to]
        /\ UNCHANGED <<kind, open, sent, batches, emitted, numbered, drainer>>
    BY <1>8 DEF MarkReason, Mark, Marking, agent
  <2>2. to = "over" => kind[s] = "demo"
    BY <1>2, <2>1 DEF RunCounts
  <2>3. task'[s] = to => RunCounts(s)'
    <3>1. /\ kind'[s] = kind[s] /\ batches'[s] = batches[s] /\ emitted'[s] = emitted[s]
          /\ numbered'[s] = numbered[s] /\ drainer'[s] = drainer[s]
      BY <2>1
    <3>2. /\ task[s] \in {"marking", "markingQuietly"} /\ to \in {"telling", "over"}
      BY <2>1
    <3> HIDE DEF StreamInv, to
    <3>3. CASE kind[s] = "demo"
      BY <1>2, <3>1, <3>2, <3>3 DEF RunCounts
    <3>4. CASE kind[s] = "real"
      <4>1. task[s] = "marking" /\ drainer[s] = "done"
        BY <1>2, <3>2, <3>4 DEF RunCounts
      <4> QED
        BY <1>2, <3>1, <3>2, <3>4, <4>1 DEF RunCounts
    <3> QED
      BY <1>2, <3>3, <3>4
  <2>4. to \in {"driving", "returned", "marking", "markingQuietly", "telling", "over"}
    OBVIOUS
  <2> HIDE DEF to
  <2> QED
    BY <1>1, <2>1, <2>2, <2>3, <2>4
<1> QED
  BY <1>3, <1>4, <1>5, <1>6, <1>7, <1>8 DEF MarkFinished

\* The agent emits while the task waits for it; the drainer ends when everything is numbered.
LEMMA AgentStream == ASSUME StreamInv, NEW s \in Starts, AgentEmits(s) \/ DrainerEnds(s) PROVE StreamInv'
<1> USE DEF StreamInv
<1>1. RunCounts(s)
  OBVIOUS
<1>2. CASE AgentEmits(s)
  <2>1. /\ kind[s] = "real" /\ task[s] = "driving" /\ emitted[s] < MaxEvents
        /\ emitted' = [emitted EXCEPT ![s] = emitted[s] + 1]
        /\ UNCHANGED <<kind, task, open, sent, batches, numbered, drainer>>
    BY <1>2 DEF AgentEmits
  <2>2. MaxEvents \in Nat /\ emitted[s] \in Nat /\ numbered[s] \in Nat /\ emitted \in [Starts -> Nat]
    BY RunServiceAssumption DEF StreamTypes
  <2>3. /\ emitted'[s] = emitted[s] + 1 /\ emitted' \in [Starts -> Nat]
        /\ \A t \in Starts \ {s} : emitted'[t] = emitted[t]
    <3>1. emitted[s] + 1 \in Nat
      BY <2>2
    <3> HIDE DEF StreamInv
    <3> QED
      BY <2>1, <2>2, <3>1
  <2>4. StreamTypes'
    BY <2>1, <2>3 DEF StreamTypes
  <2>5. \A t \in Starts \ {s} : SameRun(t)
    BY <2>1, <2>3 DEF SameRun
  <2>6. RunCounts(s)'
    <3>1. emitted'[s] <= MaxEvents
      BY <2>1, <2>2, <2>3
    <3>4. numbered[s] <= emitted[s] /\ drainer[s] # "done"
      BY <1>1, <2>1 DEF RunCounts
    <3>5. numbered'[s] <= emitted'[s]
      BY <2>1, <2>2, <2>3, <3>4
    <3> HIDE DEF StreamInv
    <3> QED
      BY <1>1, <2>1, <3>1, <3>4, <3>5 DEF RunCounts
  <2>7. RunStream(s)'
    BY <2>1, StreamStays
  <2> QED
    BY <2>4, <2>5, <2>6, <2>7, OneRun
<1>3. CASE DrainerEnds(s)
  <2>1. /\ drainer[s] = "running" /\ numbered[s] = emitted[s] /\ task[s] = "returned"
        /\ drainer' = [drainer EXCEPT ![s] = "done"]
        /\ UNCHANGED <<kind, task, open, sent, batches, emitted, numbered>>
    BY <1>3 DEF DrainerEnds, PipeClosed
  <2>2. StreamTypes' /\ drainer'[s] = "done"
    BY <2>1 DEF StreamTypes
  <2>3. \A t \in Starts \ {s} : SameRun(t)
    BY <2>1 DEF SameRun, StreamTypes
  <2>4. RunCounts(s)'
    BY <1>1, <2>1, <2>2 DEF RunCounts
  <2>5. RunStream(s)'
    BY <2>1, StreamStays
  <2> QED
    BY <2>2, <2>3, <2>4, <2>5, OneRun
<1> QED
  BY <1>2, <1>3

\* The terminal event comes when the drainer has sent its last batch.
LEMMA TellStream == ASSUME StreamInv, NEW s \in Starts, Tell(s) PROVE StreamInv'
<1> USE DEF StreamInv
<1> DEFINE k == IF ended[s] = "FatalError" THEN "RunFailed" ELSE "RunFinished"
           b == batches[s]
           stream == Append(sent[s], Milestone(k))
<1>1. /\ task[s] = "telling" /\ task' = [task EXCEPT ![s] = "over"] /\ Send(s, Milestone(k))
      /\ UNCHANGED <<kind, open, batches, emitted, numbered, drainer>>
  BY DEF Tell, Step, agent
<1>2. RunCounts(s) /\ RunStream(s) /\ sent[s] \in Seq(RunEvents) /\ b \in Nat /\ numbered[s] \in Nat
  BY DEF StreamTypes
<1>3. k \in Terminal
  BY DEF Terminal
<1>4. kind[s] = "real" => numbered[s] = emitted[s] /\ b <= numbered[s] /\ (b = 0 => numbered[s] = 0)
  BY <1>1, <1>2 DEF RunCounts
<1>5. task'[s] = "over" /\ \A t \in Starts \ {s} : task'[t] = task[t]
  BY <1>1 DEF StreamTypes
<1>6. RunCounts(s)'
  <2>1. kind[s] = "real" => drainer[s] = "done"
    BY <1>1, <1>2 DEF RunCounts
  <2> HIDE DEF StreamInv
  <2> QED
    BY <1>1, <1>2, <1>5, <2>1 DEF RunCounts
<1> HIDE DEF k
<1>7. CASE open[s]
  <2>1. sent' = [sent EXCEPT ![s] = stream]
    BY <1>1, <1>7 DEF Send
  <2>2. /\ OrderedStream(sent[s]) /\ Unended(sent[s]) /\ Len(sent[s]) = 1 + b
        /\ b > 0 => sent[s][1 + b].last = Upto(s) - 1
    BY <1>1, <1>2, <1>7 DEF RunStream
  <2>3. /\ stream \in Seq(RunEvents) /\ OrderedStream(stream) /\ Len(stream) = 2 + b
        /\ stream[1 + b] = sent[s][1 + b]
    <3>1. Len(sent[s]) >= 1
      BY <1>2, <2>2
    <3> QED
      BY <1>2, <1>3, <2>2, <3>1, EndAppended
  <2>4. b = 0 => sent[s][1].kind = "RunStarted"
    <3>1. b = 0 => 1 \in DOMAIN sent[s]
      BY <1>2, <2>2
    <3> QED
      BY <2>2, <3>1 DEF OrderedStream
  <2> HIDE DEF stream
  <2>5. sent'[s] = stream /\ sent' \in [Starts -> Seq(RunEvents)] /\ \A t \in Starts \ {s} : sent'[t] = sent[t]
    BY <2>1, <2>3 DEF StreamTypes
  <2>6. StreamTypes'
    BY <1>1, <2>5 DEF StreamTypes
  <2>7. \A t \in Starts \ {s} : SameRun(t)
    BY <1>1, <1>5, <2>5 DEF SameRun
  <2>8. kind'[s] = "real" =>
          LET last == sent'[s][Len(sent'[s]) - 1] IN
          IF emitted'[s] = 0 THEN last.kind = "RunStarted" ELSE last.last = emitted'[s] - 1
    <3> SUFFICES ASSUME kind[s] = "real"
                 PROVE  IF emitted[s] = 0 THEN stream[Len(stream) - 1].kind = "RunStarted"
                                          ELSE stream[Len(stream) - 1].last = emitted[s] - 1
      BY <1>1, <2>5
    <3>1. Len(stream) - 1 = 1 + b /\ Upto(s) = numbered[s]
      BY <1>2, <2>3 DEF Upto
    <3>2. CASE emitted[s] = 0
      <4>1. b = 0
        BY <1>2, <1>4, <3>2
      <4>2. Len(stream) - 1 = 1 /\ stream[1] = sent[s][1]
        BY <2>3, <3>1, <4>1
      <4> QED
        BY <2>4, <3>2, <4>1, <4>2
    <3>3. CASE emitted[s] # 0
      <4>1. b > 0
        BY <1>2, <1>4, <3>3
      <4> QED
        BY <1>4, <2>2, <2>3, <3>1, <3>3, <4>1
    <3> QED
      BY <3>2, <3>3
  <2>9. RunStream(s)'
    BY <1>5, <2>3, <2>5, <2>8 DEF RunStream
  <2> QED
    BY <1>6, <2>6, <2>7, <2>9, OneRun
<1>8. CASE ~open[s]
  <2>1. sent' = sent /\ ~open'[s]
    BY <1>1, <1>8 DEF Send
  <2>2. StreamTypes'
    BY <1>1, <2>1 DEF StreamTypes
  <2>3. \A t \in Starts \ {s} : SameRun(t)
    BY <1>1, <1>5, <2>1 DEF SameRun
  <2>4. RunStream(s)'
    BY <1>1, <1>5, <2>1, StreamStays
  <2> QED
    BY <1>6, <2>2, <2>3, <2>4, OneRun
<1> QED
  BY <1>7, <1>8

\* Every step keeps the streams.
LEMMA StreamNext == StreamInv /\ [RunNext]_runVars => StreamInv'
<1> SUFFICES ASSUME StreamInv, [RunNext]_runVars PROVE StreamInv'
  OBVIOUS
<1>1. CASE Tick
  BY <1>1, StreamSame DEF Tick, agent
<1>2. ASSUME NEW i \in RunIds, CancelRun(i) PROVE StreamInv'
  BY <1>2, StreamSame DEF CancelRun, agent
<1>7. ASSUME NEW s \in Starts, CancelPhase(s) PROVE StreamInv'
  BY <1>7, StreamSame DEF CancelPhase, agent
<1>3. CASE UNCHANGED runVars
  BY <1>3, StreamSame DEF runVars, agent
<1>4. ASSUME NEW s \in Starts, RunTask(s) PROVE StreamInv'
  BY <1>4, AnnounceStream, DemoStream, TaskStream, TellStream DEF RunTask
<1>5. ASSUME NEW s \in Starts, Drainer(s) \/ AgentEmits(s) \/ CloseChannel(s) PROVE StreamInv'
  BY <1>5, DrainStream, AgentStream, CloseStream DEF Drainer
<1>6. ASSUME NEW s \in Starts, NEW k \in Kinds[s], Start(s, k) PROVE StreamInv'
  BY <1>6, StartStream
<1> QED
  BY <1>1, <1>2, <1>3, <1>4, <1>5, <1>6, <1>7 DEF RunNext

(* Everything that is kept of the runs. *)
RunInv == StatusInv /\ StreamInv

\* It holds in the beginning.
LEMMA RunInitInv == RunInit => RunInv
  BY StatusInit, StreamInit DEF RunInv

\* Every step keeps it.
LEMMA RunStep == RunInv /\ [RunNext]_runVars => RunInv'
  BY StatusNext, StreamNext DEF RunInv

\* It gives the types and the order.
LEMMA RunInvTells == RunInv => RunTypeOK /\ StreamInOrder
<1> SUFFICES ASSUME RunInv PROVE RunTypeOK /\ StreamInOrder
  OBVIOUS
<1>1. MaxEvents \in Nat
  BY RunServiceAssumption
<1>2. ASSUME NEW s \in Starts
      PROVE  /\ batches[s] \in 0..(DemoBatches + MaxEvents)
             /\ emitted[s] \in 0..MaxEvents /\ numbered[s] \in 0..MaxEvents
             /\ \A i \in DOMAIN sent[s] : DOMAIN sent[s][i] = DOMAIN Milestone("none")
  <2>1. /\ RunCounts(s) /\ kind[s] \in {"demo", "real"} /\ batches[s] \in Nat /\ emitted[s] \in Nat
        /\ numbered[s] \in Nat /\ sent[s] \in Seq(RunEvents)
    BY DEF RunInv, StreamInv, StreamTypes
  <2>5. numbered[s] <= emitted[s] /\ emitted[s] <= MaxEvents
    BY <2>1 DEF RunCounts
  <2>2. emitted[s] <= MaxEvents /\ numbered[s] <= MaxEvents
    BY <1>1, <2>1, <2>5
  <2>3. batches[s] <= DemoBatches \/ batches[s] <= numbered[s]
    BY <2>1 DEF RunCounts
  <2>4. ASSUME NEW i \in DOMAIN sent[s] PROVE DOMAIN sent[s][i] = DOMAIN Milestone("none")
    <3>1. sent[s][i] \in RunEvents
      BY <2>1
    <3> QED
      BY <3>1 DEF RunEvents, Milestone, Event
  <2> QED
    BY <1>1, <2>1, <2>2, <2>3, <2>4 DEF DemoBatches
<1>3. StatusTypes /\ StreamTypes
  BY DEF RunInv, StatusInv, StreamInv
<1>4. emitted \in [Starts -> 0..MaxEvents] /\ numbered \in [Starts -> 0..MaxEvents]
  BY <1>2, <1>3 DEF StreamTypes
<1>5. RunTypeOK
  BY <1>2, <1>3, <1>4 DEF RunTypeOK, StatusTypes, StreamTypes
<1>6. StreamInOrder
  BY DEF RunInv, StreamInv, RunStream, OrderedStream, StreamInOrder
<1> QED
  BY <1>5, <1>6

\* It holds always.
LEMMA RunInvariance == RunSpec => []RunInv
  BY RunInitInv, RunStep, PTL DEF RunSpec

\* Whatever is cancelled and whoever stops listening, a run's events are told in their order and
\* the terminal one comes last, after every event of the agent, for any number of runs and events.
THEOREM StreamsInOrder == RunSpec => []StreamInOrder
<1>1. RunInv => StreamInOrder
  BY RunInvTells
<1> QED
  BY <1>1, RunInvariance, PTL

-----------------------------------------------------------------------------
(* The client of an MCP server *)

\* What is in a sequence.
Elements(s) == {s[i] : i \in DOMAIN s}

\* Every message that is under way, with what the server has seen and answered.
InFlight == {held, serverHeld} \cup Elements(toServer) \cup Elements(toClient) \cup received \cup answered

\* The request of a caller, while it is in the channel.
CallOf(c) == Message("call", 0, c)
Called(c) == CallOf(c) \in Elements(channel)
Unserved == {c \in Callers : caller[c] = "idle" \/ Called(c)}

(* The channel has calls, each once, and the notification. *)
ChannelOrder ==
    /\ Elements(channel) \subseteq {Initialized} \cup {CallOf(c) : c \in Callers}
    /\ \A i, j \in DOMAIN channel : channel[i] = channel[j] /\ channel[i].kind = "call" => i = j

(* A call that was made and not replied to is in the channel or has one id. *)
OnePlace ==
    /\ \A c \in Callers : Called(c) => /\ caller[c] # "idle" /\ response[c] = Silence
                                       /\ \A id \in Ids : waiting[id] # c
    /\ \A id \in Ids : waiting[id] # Nobody => /\ id < nextId
                                               /\ caller[waiting[id]] # "idle"
                                               /\ response[waiting[id]] = Silence
    /\ \A i, j \in Ids : waiting[i] = waiting[j] /\ waiting[i] # Nobody => i = j
    /\ \A c \in Callers : caller[c] = "idle" => response[c] = Silence

\* A message with the id of a call.
IsAbout(m) == m.kind \in {"request", "response"}

(* A request or a response on its way has an id that was given to its subject, and to no other. *)
Genuine ==
    \A m \in InFlight : IsAbout(m) => /\ m.id \in 1..(nextId - 1) /\ m.about \in Callers
                                      /\ waiting[m.id] \in {m.about, Nobody}

(* There is an id for each call that may still ask for one. *)
IdsSuffice == nextId - 1 + Cardinality(Unserved) <= Cardinality(Callers)

(* What the server answers are requests. *)
AreRequests == \A m \in received \cup answered : m.kind = "request"

\* The inductive invariant of the client.
McpInv == McpTypeOK /\ ChannelOrder /\ OnePlace /\ Genuine /\ IdsSuffice

-----------------------------------------------------------------------------
\* Appending adds an element, taking the first away adds none.
LEMMA Append_Elements ==
    ASSUME NEW S, NEW s \in Seq(S), NEW e \in S
    PROVE  Append(s, e) \in Seq(S) /\ Elements(Append(s, e)) = Elements(s) \cup {e}
<1>1. Append(s, e) \in Seq(S)
  OBVIOUS
<1>2. DOMAIN Append(s, e) = DOMAIN s \cup {Len(s) + 1} /\ Append(s, e)[Len(s) + 1] = e
  OBVIOUS
<1>3. \A i \in DOMAIN s : Append(s, e)[i] = s[i]
  OBVIOUS
<1> QED
  BY <1>1, <1>2, <1>3 DEF Elements

\* Taking the head leaves the others.
LEMMA Tail_Elements ==
    ASSUME NEW S, NEW s \in Seq(S), s # <<>>
    PROVE  /\ Head(s) \in S /\ Head(s) \in Elements(s)
           /\ Tail(s) \in Seq(S) /\ Elements(Tail(s)) \subseteq Elements(s)
<1>1. \A i \in DOMAIN Tail(s) : i + 1 \in DOMAIN s /\ Tail(s)[i] = s[i + 1]
  BY HeadTailProperties
<1>2. 1 \in DOMAIN s /\ Head(s) = s[1]
  OBVIOUS
<1> QED
  BY <1>1, <1>2, HeadTailProperties DEF Elements

\* Ids are numbers, and finitely many callers are unserved.
LEMMA Counting ==
    ASSUME McpTypeOK
    PROVE  /\ Cardinality(Callers) \in Nat /\ Ids \subseteq Nat
           /\ IsFiniteSet(Unserved) /\ Cardinality(Unserved) \in Nat
<1>1. Unserved \in SUBSET Callers
  BY DEF Unserved
<1> QED
  BY <1>1, McpAssumption, FS_Subset, FS_CardinalityType DEF Ids

\* Ids are never short while fewer calls wait for one.
LEMMA FewerUnserved ==
    ASSUME McpTypeOK, IdsSuffice, nextId' = nextId, Unserved' \subseteq Unserved
    PROVE  IdsSuffice'
<1>1. Unserved' \in SUBSET Unserved
  OBVIOUS
<1>2. /\ IsFiniteSet(Unserved) /\ Cardinality(Unserved) \in Nat
      /\ Cardinality(Callers) \in Nat
  BY Counting
<1>3. Cardinality(Unserved') <= Cardinality(Unserved) /\ Cardinality(Unserved') \in Nat
  BY <1>1, <1>2, FS_Subset, FS_CardinalityType
<1> QED
  BY <1>2, <1>3 DEF IdsSuffice, McpTypeOK

\* What is on its way stays genuine while no id is given and messages only change hands.
LEMMA GenuineKept ==
    ASSUME McpTypeOK, Genuine, nextId' = nextId,
           \A id \in Ids : waiting'[id] \in {waiting[id], Nobody},
           \A m \in InFlight' : IsAbout(m) =>
               \E n \in InFlight : IsAbout(n) /\ m.id = n.id /\ m.about = n.about
    PROVE  Genuine'
<1> SUFFICES ASSUME NEW m \in InFlight', IsAbout(m)
             PROVE  /\ m.id \in 1..(nextId - 1) /\ m.about \in Callers
                    /\ waiting'[m.id] \in {m.about, Nobody}
  BY DEF Genuine, IsAbout
<1>1. /\ m.id \in 1..(nextId - 1) /\ m.about \in Callers
      /\ waiting[m.id] \in {m.about, Nobody}
  BY DEF Genuine
<1>2. m.id \in Ids
  BY <1>1, Counting DEF McpTypeOK, Ids
<1> QED
  BY <1>1, <1>2

\* It holds in the beginning.
LEMMA McpInitInv == McpInit => McpInv
<1> SUFFICES ASSUME McpInit PROVE McpInv
  OBVIOUS
<1> USE DEF McpInit
<1>1. Elements(<<>>) = {}
  BY DEF Elements
<1>2. Cardinality(Callers) \in Nat /\ Unserved = Callers
  BY <1>1, McpAssumption, FS_CardinalityType DEF Unserved, Called
<1>3. Nothing \in Messages /\ ~IsAbout(Nothing)
  BY DEF Nothing, Message, Messages, IsAbout, Nobody
<1>4. McpTypeOK
  BY <1>2, <1>3, McpAssumption DEF McpTypeOK, Ids, Nobody
<1>5. ChannelOrder /\ OnePlace
  BY <1>1 DEF ChannelOrder, OnePlace, Called, Nobody
<1>6. Genuine
  BY <1>1, <1>3 DEF Genuine, InFlight
<1>7. IdsSuffice
  BY <1>2 DEF IdsSuffice
<1> QED
  BY <1>4, <1>5, <1>6, <1>7 DEF McpInv

-----------------------------------------------------------------------------
(* The steps *)

\* Who waits under an id is told, and the id is nobody's.
LEMMA Told ==
    ASSUME McpTypeOK, OnePlace, NEW id \in Ids, waiting[id] # Nobody,
           NEW r \in Callers \cup {Broken}, Respond(waiting[id], r),
           waiting' = [waiting EXCEPT ![id] = Nobody], UNCHANGED <<caller, channel, nextId>>
    PROVE  /\ response' \in [Callers -> Callers \cup {Broken, Silence}]
           /\ waiting' \in [Ids -> Callers \cup {Nobody}]
           /\ OnePlace'
           /\ \A i \in Ids : waiting'[i] \in {waiting[i], Nobody}
<1> DEFINE c == waiting[id]
<1>1. /\ c \in Callers /\ caller[c] # "idle" /\ ~Called(c)
      /\ \A i \in Ids \ {id} : waiting[i] # c
  BY DEF McpTypeOK, OnePlace
<1>2. \A d \in Callers \ {c} : response'[d] = response[d]
  BY <1>1 DEF Respond, McpTypeOK
<1>3. /\ response' \in [Callers -> Callers \cup {Broken, Silence}]
      /\ waiting' \in [Ids -> Callers \cup {Nobody}]
      /\ waiting'[id] = Nobody /\ \A i \in Ids \ {id} : waiting'[i] = waiting[i]
  BY DEF Respond, McpTypeOK
<1> HIDE DEF c
<1>4. \A d \in Callers : Called(d)' = Called(d)
  BY DEF Called, CallOf, Message, Elements
<1>5. \A d \in Callers : Called(d)' => /\ caller'[d] # "idle" /\ response'[d] = Silence
                                       /\ \A i \in Ids : waiting'[i] # d
  BY <1>1, <1>2, <1>3, <1>4, McpAssumption DEF OnePlace, Nobody
<1>6. \A i \in Ids : waiting'[i] # Nobody => /\ i < nextId'
                                             /\ caller'[waiting'[i]] # "idle"
                                             /\ response'[waiting'[i]] = Silence
  BY <1>1, <1>2, <1>3 DEF OnePlace, McpTypeOK
<1>7. \A i, j \in Ids : waiting'[i] = waiting'[j] /\ waiting'[i] # Nobody => i = j
  BY <1>3 DEF OnePlace
<1>8. \A d \in Callers : caller'[d] = "idle" => response'[d] = Silence
  BY <1>1, <1>2 DEF OnePlace
<1> QED
  BY <1>3, <1>5, <1>6, <1>7, <1>8 DEF OnePlace

\* Nothing but messages moves.
LEMMA CallsUntouched ==
    ASSUME McpInv, UNCHANGED <<caller, response, channel, nextId, waiting>>, McpTypeOK',
           \A m \in InFlight' : IsAbout(m) =>
               \E n \in InFlight : IsAbout(n) /\ m.id = n.id /\ m.about = n.about
    PROVE  McpInv'
<1>1. ChannelOrder' /\ OnePlace'
  BY DEF McpInv, ChannelOrder, OnePlace, Called, CallOf, Message, Initialized, Elements
<1>2. Unserved' = Unserved
  BY DEF Unserved, Called, CallOf, Message, Elements
<1>3. Genuine'
  BY GenuineKept DEF McpInv
<1>4. IdsSuffice'
  BY <1>2, FewerUnserved DEF McpInv
<1> QED
  BY <1>1, <1>3, <1>4 DEF McpInv

\* A call goes to the end of the channel and nowhere else.
LEMMA CallStep == ASSUME McpInv, NEW c \in Callers, Call(c) PROVE McpInv'
<1> USE DEF McpInv
<1>1. CallOf(c) \in Messages /\ CallOf(c).kind = "call" /\ \A d \in Callers : CallOf(d) = CallOf(c) => d = c
  BY DEF CallOf, Message, Messages
<1>2. CASE loop = "gone"
  <2>1. channel' = channel /\ caller' = [caller EXCEPT ![c] = "waiting"]
    BY <1>2 DEF Call
  <2>2. McpTypeOK'
    BY <2>1 DEF Call, McpTypeOK, serverVars
  <2>3. ChannelOrder' /\ \A d \in Callers : Called(d)' = Called(d)
    BY <2>1 DEF ChannelOrder, Called, CallOf, Message, Initialized, Elements
  <2>4. OnePlace'
    BY <2>1, <2>3 DEF Call, OnePlace, McpTypeOK
  <2>5. Unserved' \subseteq Unserved
    BY <2>1, <2>3 DEF Unserved, McpTypeOK
  <2>6. Genuine'
    BY GenuineKept DEF Call, InFlight, Elements, serverVars, McpTypeOK
  <2> QED
    BY <2>2, <2>3, <2>4, <2>5, <2>6, FewerUnserved DEF Call
<1>3. CASE loop # "gone"
  <2>1. channel' = Append(channel, CallOf(c)) /\ caller' = [caller EXCEPT ![c] = "waiting"]
    BY <1>3 DEF Call, CallOf
  <2>2. channel' \in Seq(Messages) /\ Elements(channel') = Elements(channel) \cup {CallOf(c)}
    BY <1>1, <2>1, Append_Elements DEF McpTypeOK
  <2>3. McpTypeOK'
    BY <2>1, <2>2 DEF Call, McpTypeOK, serverVars
  <2>4. ~Called(c) /\ CallOf(c) \notin Elements(channel)
    BY DEF Call, OnePlace, Called
  <2>5. \A d \in Callers : Called(d)' <=> Called(d) \/ d = c
    BY <1>1, <2>2 DEF Called, CallOf, Message
  <2>6. ChannelOrder'
    <3>1. Elements(channel') \subseteq {Initialized} \cup {CallOf(d) : d \in Callers}
      BY <2>2 DEF ChannelOrder
    <3>2. /\ DOMAIN channel' = DOMAIN channel \cup {Len(channel) + 1}
          /\ channel'[Len(channel) + 1] = CallOf(c)
          /\ \A i \in DOMAIN channel : channel'[i] = channel[i] /\ channel[i] # CallOf(c)
      BY <2>1, <2>4 DEF McpTypeOK, Elements
    <3>3. \A i, j \in DOMAIN channel' : channel'[i] = channel'[j] /\ channel'[i].kind = "call" => i = j
      BY <3>2 DEF ChannelOrder
    <3> QED
      BY <3>1, <3>3 DEF ChannelOrder, CallOf, Message, Initialized, Elements
  <2>7. OnePlace'
    <3>1. /\ response[c] = Silence /\ \A id \in Ids : waiting[id] # c
      BY McpAssumption DEF Call, OnePlace, Nobody
    <3> QED
      BY <2>1, <2>5, <3>1 DEF Call, OnePlace, McpTypeOK
  <2>8. Unserved' \subseteq Unserved
    BY <2>1, <2>5 DEF Call, Unserved, McpTypeOK
  <2>9. Genuine'
    BY GenuineKept DEF Call, InFlight, Elements, serverVars, McpTypeOK
  <2> QED
    BY <2>3, <2>6, <2>7, <2>8, <2>9, FewerUnserved DEF Call
<1> QED
  BY <1>2, <1>3

\* A caller that leaves, by whichever door, changes nothing of the other calls.
LEMMA LeaveStep ==
    ASSUME McpInv, NEW c \in Callers, NEW came \in {"returned", "failed", "withdrawn"},
           caller[c] = "waiting", caller' = [caller EXCEPT ![c] = came],
           channel' \in {channel, Append(channel, Initialized)},
           UNCHANGED <<response, loop, held, nextId, waiting, toServer, toClient, serverVars>>
    PROVE  McpInv'
<1> USE DEF McpInv
<1>1. Initialized \in Messages /\ Initialized.kind # "call" /\ \A d \in Callers : Initialized # CallOf(d)
  BY DEF CallOf, Initialized, Message, Messages, Nobody
<1>2. /\ channel' \in Seq(Messages)
      /\ Elements(channel') \in {Elements(channel), Elements(channel) \cup {Initialized}}
  <2>1. CASE channel' = channel
    BY <2>1 DEF McpTypeOK
  <2>2. CASE channel' = Append(channel, Initialized)
    BY <1>1, <2>2, Append_Elements DEF McpTypeOK
  <2> QED
    BY <2>1, <2>2
<1>3. McpTypeOK'
  BY <1>2 DEF McpTypeOK, serverVars
<1>4. \A d \in Callers : Called(d)' <=> Called(d)
  BY <1>1, <1>2 DEF Called, CallOf, Message
<1>5. ChannelOrder'
  <2>1. Elements(channel') \subseteq {Initialized} \cup {CallOf(d) : d \in Callers}
    BY <1>2 DEF ChannelOrder
  <2>2. \A i \in DOMAIN channel' : \/ channel'[i] = Initialized
                                   \/ i \in DOMAIN channel /\ channel'[i] = channel[i]
    BY <1>1, SMTT(30) DEF McpTypeOK
  <2>3. \A i, j \in DOMAIN channel' : channel'[i] = channel'[j] /\ channel'[i].kind = "call" => i = j
    BY <1>1, <2>2 DEF ChannelOrder
  <2> QED
    BY <2>1, <2>3 DEF ChannelOrder, CallOf, Message, Initialized, Elements
<1>6. OnePlace'
  BY <1>4 DEF OnePlace, McpTypeOK
<1>7. Unserved' \subseteq Unserved
  BY <1>4 DEF Unserved, McpTypeOK
<1>8. Genuine'
  BY GenuineKept DEF InFlight, Elements, serverVars, McpTypeOK
<1> QED
  BY <1>3, <1>5, <1>6, <1>7, <1>8, FewerUnserved

\* The request at the head of the channel gets an id of its own.
LEMMA TakeStep == ASSUME McpInv, TakeRequest PROVE McpInv'
<1> USE DEF McpInv
<1>1. /\ Head(channel) \in Messages /\ Head(channel) \in Elements(channel)
      /\ channel' \in Seq(Messages) /\ Elements(channel') \subseteq Elements(channel)
  BY Tail_Elements DEF TakeRequest, McpTypeOK
<1>2. \A i \in DOMAIN channel' : /\ i + 1 \in DOMAIN channel /\ i + 1 # 1
                                 /\ channel'[i] = channel[i + 1]
  BY HeadTailProperties DEF TakeRequest, McpTypeOK
<1>3. 1 \in DOMAIN channel /\ channel[1] = Head(channel)
  BY DEF TakeRequest, McpTypeOK
<1>4. ChannelOrder'
  <2>1. \A i, j \in DOMAIN channel' : channel'[i] = channel'[j] /\ channel'[i].kind = "call" => i = j
    <3> SUFFICES ASSUME NEW i \in DOMAIN channel', NEW j \in DOMAIN channel',
                        channel'[i] = channel'[j], channel'[i].kind = "call"
                 PROVE  i = j
      OBVIOUS
    <3>1. i + 1 = j + 1
      BY <1>2 DEF ChannelOrder
    <3> QED
      BY <1>1, <3>1
  <2> QED
    BY <1>1, <2>1 DEF ChannelOrder, CallOf, Message, Initialized
<1>5. CASE Head(channel).kind = "call"
  <2>0. PICK c \in Callers : Head(channel) = CallOf(c)
    BY <1>1, <1>5 DEF ChannelOrder, Initialized, Message
  <2>1. c \in Callers /\ Head(channel) = CallOf(c) /\ Called(c) /\ Head(channel).about = c
    BY <1>1, <2>0 DEF CallOf, Message, Called
  <2>2. c \in Unserved /\ ~Called(c)'
    <3>1. CallOf(c) \notin Elements(channel')
      BY <1>2, <1>3, <1>5, <2>1 DEF ChannelOrder, Elements
    <3> QED
      BY <2>1, <3>1 DEF Unserved, Called, CallOf, Message
  <2>3. nextId \in Ids /\ nextId \in Nat
    <3>1. IsFiniteSet(Unserved) /\ Cardinality(Unserved) \in Nat /\ Cardinality(Callers) \in Nat
      BY Counting
    <3>2. Cardinality(Unserved) # 0
      BY <2>2, <3>1, FS_EmptySet
    <3> QED
      BY <3>1, <3>2 DEF IdsSuffice, McpTypeOK, Ids
  <2>4. /\ held' = Message("request", nextId, c)
        /\ waiting' = [waiting EXCEPT ![nextId] = c]
        /\ nextId' = nextId + 1
    BY <1>5, <2>1 DEF TakeRequest, FreshId
  <2>5. /\ waiting[nextId] = Nobody /\ \A id \in Ids : waiting[id] # c
        /\ caller[c] # "idle" /\ response[c] = Silence
    BY <2>1, <2>3 DEF OnePlace, McpTypeOK
  <2>6. IdsSuffice'
    <3>1. \A d \in Callers : Called(d)' => Called(d)
      BY <1>1 DEF Called, CallOf, Message
    <3>2. Unserved' \in SUBSET (Unserved \ {c})
      BY <2>1, <2>2, <2>5, <3>1 DEF TakeRequest, Unserved
    <3>3. IsFiniteSet(Unserved) /\ Cardinality(Unserved) \in Nat /\ Cardinality(Callers) \in Nat
      BY Counting
    <3>4. IsFiniteSet(Unserved \ {c}) /\ Cardinality(Unserved \ {c}) = Cardinality(Unserved) - 1
      BY <2>2, <3>3, FS_RemoveElement
    <3>5. Cardinality(Unserved') <= Cardinality(Unserved) - 1 /\ Cardinality(Unserved') \in Nat
      BY <3>2, <3>4, FS_Subset, FS_CardinalityType
    <3> QED
      BY <2>3, <2>4, <3>3, <3>5 DEF IdsSuffice
  <2>7. McpTypeOK'
    <3>1. held' \in Messages
      BY <2>1, <2>3, <2>4 DEF Message, Messages
    <3>2. nextId' \in 1..(Cardinality(Callers) + 1)
      BY <2>3, <2>4, Counting DEF Ids
    <3>3. waiting' \in [Ids -> Callers \cup {Nobody}]
      BY <2>1, <2>3, <2>4 DEF McpTypeOK
    <3> QED
      BY <1>1, <3>1, <3>2, <3>3 DEF TakeRequest, McpTypeOK, serverVars
  <2>8. OnePlace'
    <3>1. \A d \in Callers : Called(d)' => Called(d) /\ d # c
      BY <1>1, <2>2 DEF Called, CallOf, Message
    <3>2. waiting'[nextId] = c /\ \A id \in Ids \ {nextId} : waiting'[id] = waiting[id]
      BY <2>3, <2>4 DEF McpTypeOK
    <3>3. Ids \subseteq Nat
      BY Counting
    <3>4. \A d \in Callers : Called(d)' => /\ caller'[d] # "idle" /\ response'[d] = Silence
                                           /\ \A id \in Ids : waiting'[id] # d
      BY <3>1, <3>2 DEF TakeRequest, OnePlace
    <3>5. \A id \in Ids : waiting'[id] # Nobody => /\ id < nextId'
                                                   /\ caller'[waiting'[id]] # "idle"
                                                   /\ response'[waiting'[id]] = Silence
      BY <2>3, <2>4, <2>5, <3>2, <3>3 DEF TakeRequest, OnePlace
    <3>6. \A i, j \in Ids : waiting'[i] = waiting'[j] /\ waiting'[i] # Nobody => i = j
      BY <2>5, <3>2 DEF OnePlace
    <3>7. \A d \in Callers : caller'[d] = "idle" => response'[d] = Silence
      BY DEF TakeRequest, OnePlace
    <3> QED
      BY <3>4, <3>5, <3>6, <3>7 DEF OnePlace
  <2>9. Genuine'
    <3> SUFFICES ASSUME NEW m \in InFlight', IsAbout(m)
                 PROVE  /\ m.id \in 1..(nextId' - 1) /\ m.about \in Callers
                        /\ waiting'[m.id] \in {m.about, Nobody}
      BY DEF Genuine, IsAbout
    <3>1. CASE m = held'
      BY <2>1, <2>3, <2>4, <3>1, Counting DEF Message, Ids, McpTypeOK
    <3>2. CASE m # held'
      <4>1. m \in InFlight
        BY <3>2 DEF TakeRequest, InFlight, Elements, serverVars
      <4>2. m.id \in 1..(nextId - 1) /\ m.about \in Callers /\ waiting[m.id] \in {m.about, Nobody}
        BY <4>1 DEF Genuine
      <4> QED
        BY <2>3, <2>4, <4>2, Counting DEF McpTypeOK, Ids
    <3> QED
      BY <3>1, <3>2
  <2> QED
    BY <1>4, <2>6, <2>7, <2>8, <2>9
<1>6. CASE Head(channel).kind # "call"
  <2>1. held' = Head(channel) /\ UNCHANGED <<nextId, waiting>> /\ held' = Initialized
    BY <1>1, <1>6 DEF TakeRequest, ChannelOrder, CallOf, Message
  <2>2. McpTypeOK'
    BY <1>1, <2>1 DEF TakeRequest, McpTypeOK, serverVars
  <2>3. \A d \in Callers : Called(d)' => Called(d)
    BY <1>1 DEF Called, CallOf, Message
  <2>4. OnePlace'
    BY <2>1, <2>3 DEF TakeRequest, OnePlace
  <2>5. Unserved' \subseteq Unserved
    BY <2>3 DEF TakeRequest, Unserved
  <2>6. ~IsAbout(held')
    BY <2>1 DEF Initialized, Message, IsAbout
  <2>7. Genuine'
    BY <2>1, <2>6, GenuineKept DEF TakeRequest, InFlight, Elements, serverVars, McpTypeOK
  <2> QED
    BY <1>4, <2>1, <2>2, <2>4, <2>5, <2>7, FewerUnserved
<1> QED
  BY <1>5, <1>6

\* A reply that finds its caller, or an error in its place.
LEMMA TellStep ==
    ASSUME McpInv, NEW id \in Ids, waiting[id] # Nobody,
           NEW r \in Callers \cup {Broken}, Respond(waiting[id], r),
           waiting' = [waiting EXCEPT ![id] = Nobody],
           UNCHANGED <<caller, channel, nextId, toServer, serverVars>>,
           held' \in {held, Nothing}, Elements(toClient') \subseteq Elements(toClient),
           toClient' \in Seq(Messages),
           loop' \in {"selecting", "writing", "answering", "draining", "gone"}
    PROVE  McpInv'
<1> USE DEF McpInv
<1>1. /\ response' \in [Callers -> Callers \cup {Broken, Silence}]
      /\ waiting' \in [Ids -> Callers \cup {Nobody}]
      /\ OnePlace'
      /\ \A i \in Ids : waiting'[i] \in {waiting[i], Nobody}
  BY Told
<1>2. Nothing \in Messages /\ ~IsAbout(Nothing)
  BY DEF Nothing, Message, Messages, IsAbout, Nobody
<1>3. McpTypeOK'
  BY <1>1, <1>2 DEF McpTypeOK, serverVars
<1>4. ChannelOrder'
  BY DEF ChannelOrder, CallOf, Message, Initialized, Elements
<1>5. Unserved' = Unserved
  BY DEF Unserved, Called, CallOf, Message, Elements
<1>6. \A m \in InFlight' : IsAbout(m) => m \in InFlight
  BY <1>2 DEF InFlight, Elements, serverVars
<1>7. Genuine'
  BY <1>1, <1>6, GenuineKept
<1> QED
  BY <1>1, <1>3, <1>4, <1>5, <1>7, FewerUnserved

\* When the loop ends, nobody waits under an id any more.
LEMMA LoopEndsStep == ASSUME McpInv, LoopEnds PROVE McpInv'
<1> USE DEF McpInv, LoopEnds
<1>1. Elements(channel') = {} /\ channel' \in Seq(Messages)
  BY DEF Elements
<1>2. McpTypeOK'
  BY <1>1 DEF McpTypeOK, serverVars
<1>3. \A d \in Callers : ~Called(d)'
  BY <1>1 DEF Called, CallOf, Message
<1>4. ChannelOrder' /\ OnePlace'
  BY <1>1, <1>3 DEF ChannelOrder, OnePlace, CallOf, Message, Initialized
<1>5. Unserved' \subseteq Unserved
  BY <1>3 DEF Unserved
<1>6. Genuine'
  BY GenuineKept DEF InFlight, Elements, serverVars, McpTypeOK
<1> QED
  BY <1>2, <1>4, <1>5, <1>6, FewerUnserved

\* Messages that are written, read and answered stay what they are about.
LEMMA MessageStep ==
    ASSUME McpInv, AreRequests,
           WriteMessage \/ AnswerFails \/ ReadAsk \/ ReadEnd \/ ServerReads \/ ServerWrites
           \/ ServerAsks \/ ServerExits
           \/ (\E request \in received : ServerResponds(request))
           \/ (\E request \in answered : ServerRepeats(request))
    PROVE  McpInv'
<1> USE DEF McpInv
<1>1. /\ {Nothing, Ask, Answer} \subseteq Messages
      /\ ~IsAbout(Nothing) /\ ~IsAbout(Ask) /\ ~IsAbout(Answer)
  BY DEF Nothing, Ask, Answer, Message, Messages, IsAbout, Nobody
<1>2. ASSUME WriteMessage \/ AnswerFails \/ ReadEnd PROVE McpInv'
  <2>1. /\ toServer' \in Seq(Messages)
        /\ Elements(toServer') \subseteq Elements(toServer) \cup {held}
    <3>1. CASE toServer' = Append(toServer, held)
      BY <3>1, Append_Elements DEF McpTypeOK
    <3>2. CASE toServer' = toServer
      BY <3>2 DEF McpTypeOK
    <3> QED
      BY <1>2, <3>1, <3>2 DEF WriteMessage, AnswerFails, ReadEnd
  <2>2. McpTypeOK'
    BY <1>1, <1>2, <2>1 DEF WriteMessage, AnswerFails, ReadEnd, McpTypeOK, serverVars
  <2>3. \A m \in InFlight' : IsAbout(m) => m \in InFlight
    BY <1>1, <1>2, <2>1 DEF WriteMessage, AnswerFails, ReadEnd, InFlight, Elements, serverVars
  <2> QED
    BY <1>2, <2>2, <2>3, CallsUntouched DEF WriteMessage, AnswerFails, ReadEnd
<1>3. ASSUME ReadAsk PROVE McpInv'
  <2>1. toClient' \in Seq(Messages) /\ Elements(toClient') \subseteq Elements(toClient)
    BY <1>3, Tail_Elements DEF ReadAsk, McpTypeOK
  <2>2. McpTypeOK'
    BY <1>1, <1>3, <2>1 DEF ReadAsk, McpTypeOK, serverVars
  <2>3. \A m \in InFlight' : IsAbout(m) => m \in InFlight
    BY <1>1, <1>3, <2>1 DEF ReadAsk, InFlight, Elements, serverVars
  <2> QED
    BY <1>3, <2>2, <2>3, CallsUntouched DEF ReadAsk
<1>4. ASSUME ServerReads PROVE McpInv'
  <2>1. /\ toServer' \in Seq(Messages) /\ Elements(toServer') \subseteq Elements(toServer)
        /\ Head(toServer) \in Messages /\ Head(toServer) \in Elements(toServer)
    BY <1>4, Tail_Elements DEF ServerReads, McpTypeOK
  <2>2. McpTypeOK'
    BY <1>4, <2>1 DEF ServerReads, McpTypeOK, clientVars
  <2>3. \A m \in InFlight' : IsAbout(m) => m \in InFlight
    BY <1>4, <2>1 DEF ServerReads, InFlight, Elements, clientVars
  <2> QED
    BY <1>4, <2>2, <2>3, CallsUntouched DEF ServerReads, clientVars
<1>5. ASSUME ServerWrites PROVE McpInv'
  <2>1. /\ toClient' \in Seq(Messages) /\ Elements(toClient') = Elements(toClient) \cup {serverHeld}
    BY <1>5, Append_Elements DEF ServerWrites, McpTypeOK
  <2>2. McpTypeOK'
    BY <1>1, <1>5, <2>1 DEF ServerWrites, McpTypeOK, clientVars
  <2>3. \A m \in InFlight' : IsAbout(m) => m \in InFlight
    BY <1>1, <1>5, <2>1 DEF ServerWrites, InFlight, Elements, clientVars
  <2> QED
    BY <1>5, <2>2, <2>3, CallsUntouched DEF ServerWrites, clientVars
<1>6. ASSUME ServerAsks \/ ServerExits PROVE McpInv'
  <2>1. McpTypeOK'
    BY <1>1, <1>6, McpAssumption DEF ServerAsks, ServerExits, McpTypeOK, clientVars
  <2>2. \A m \in InFlight' : IsAbout(m) => m \in InFlight
    BY <1>1, <1>6 DEF ServerAsks, ServerExits, InFlight, Elements, clientVars
  <2> QED
    BY <1>6, <2>1, <2>2, CallsUntouched DEF ServerAsks, ServerExits, clientVars
<1>7. ASSUME NEW request \in received \cup answered,
             \/ request \in received /\ ServerResponds(request)
             \/ request \in answered /\ ServerRepeats(request)
      PROVE  McpInv'
  <2>1. request \in Messages /\ request \in InFlight
    BY DEF McpTypeOK, InFlight
  <2>2. serverHeld' = [request EXCEPT !.kind = "response"]
    BY <1>7 DEF ServerResponds, ServerRepeats
  <2>3. serverHeld' \in Messages /\ serverHeld'.id = request.id /\ serverHeld'.about = request.about
    BY <2>1, <2>2 DEF Messages
  <2>4. McpTypeOK'
    BY <1>7, <2>1, <2>3, McpAssumption DEF ServerResponds, ServerRepeats, McpTypeOK, clientVars
  <2>5. IsAbout(request)
    BY DEF AreRequests, IsAbout
  <2>6. \A m \in InFlight' : IsAbout(m) =>
               \E n \in InFlight : IsAbout(n) /\ m.id = n.id /\ m.about = n.about
    BY <1>7, <2>1, <2>3, <2>5 DEF ServerResponds, ServerRepeats, InFlight, Elements, clientVars
  <2> QED
    BY <1>7, <2>4, <2>6, CallsUntouched DEF ServerResponds, ServerRepeats, clientVars
<1> QED
  BY <1>2, <1>3, <1>4, <1>5, <1>6, <1>7

\* Every step keeps it, whatever the server writes.
LEMMA McpStep == McpInv /\ AreRequests /\ [McpNext]_mcpVars => McpInv' /\ AreRequests'
<1> SUFFICES ASSUME McpInv, AreRequests, [McpNext]_mcpVars PROVE McpInv' /\ AreRequests'
  OBVIOUS
<1>1. ASSUME NEW c \in Callers, Return(c) \/ Fail(c) \/ Withdraw(c) PROVE McpInv'
  <2>1. /\ caller[c] = "waiting" /\ channel' \in {channel, Append(channel, Initialized)}
        /\ UNCHANGED <<response, loop, held, nextId, waiting, toServer, toClient, serverVars>>
    BY <1>1 DEF Return, Fail, Withdraw
  <2>2. \E came \in {"returned", "failed", "withdrawn"} : caller' = [caller EXCEPT ![c] = came]
    BY <1>1 DEF Return, Fail, Withdraw
  <2> QED
    BY <2>1, <2>2, LeaveStep
<1>2. ASSUME WriteFails PROVE McpInv'
  <2>1. CASE held.kind = "request" /\ waiting[held.id] # Nobody
    <3>1. held.id \in Ids
      BY <2>1, Counting DEF McpInv, McpTypeOK, Genuine, InFlight, IsAbout, Ids
    <3> QED
      BY <1>2, <2>1, <3>1, TellStep DEF WriteFails, McpInv, McpTypeOK
  <2>2. CASE ~(held.kind = "request" /\ waiting[held.id] # Nobody)
    <3>1. Nothing \in Messages /\ ~IsAbout(Nothing)
      BY DEF Nothing, Message, Messages, IsAbout, Nobody
    <3>2. McpTypeOK'
      BY <1>2, <2>2, <3>1 DEF WriteFails, McpInv, McpTypeOK, serverVars
    <3>3. \A m \in InFlight' : IsAbout(m) => m \in InFlight
      BY <1>2, <3>1 DEF WriteFails, InFlight, Elements, serverVars
    <3> QED
      BY <1>2, <2>2, <3>2, <3>3, CallsUntouched DEF WriteFails
  <2> QED
    BY <2>1, <2>2
<1>3. ASSUME ReadResponse PROVE McpInv'
  <2> DEFINE m == Head(toClient)
  <2>1. /\ m \in InFlight /\ toClient' \in Seq(Messages)
        /\ Elements(toClient') \subseteq Elements(toClient)
    BY <1>3, Tail_Elements DEF ReadResponse, McpInv, McpTypeOK, InFlight
  <2>2. m.id \in Ids /\ m.about \in Callers
    BY <1>3, <2>1, Counting, SMTT(30) DEF ReadResponse, McpInv, McpTypeOK, Genuine, IsAbout, Ids
  <2>3. CASE waiting[m.id] = Nobody
    <3>1. McpTypeOK'
      BY <1>3, <2>1, <2>3 DEF ReadResponse, McpInv, McpTypeOK, serverVars
    <3>2. \A n \in InFlight' : IsAbout(n) => n \in InFlight
      BY <1>3, <2>1 DEF ReadResponse, InFlight, Elements, serverVars
    <3> QED
      BY <1>3, <2>3, <3>1, <3>2, CallsUntouched DEF ReadResponse
  <2>4. CASE waiting[m.id] # Nobody
    BY <1>3, <2>1, <2>2, <2>4, TellStep DEF ReadResponse, McpInv, McpTypeOK
  <2> QED
    BY <2>3, <2>4
<1>4. ASSUME NEW id \in Ids, DrainOne(id) PROVE McpInv'
  BY <1>4, TellStep DEF DrainOne, McpInv, McpTypeOK
<1>5. ASSUME UNCHANGED mcpVars PROVE McpInv'
  <2>1. McpTypeOK'
    BY <1>5 DEF mcpVars, clientVars, serverVars, McpInv, McpTypeOK
  <2>2. InFlight' = InFlight
    BY <1>5 DEF mcpVars, clientVars, serverVars, InFlight, Elements
  <2> QED
    BY <1>5, <2>1, <2>2, CallsUntouched DEF mcpVars, clientVars
<1>6. McpInv'
  BY <1>1, <1>2, <1>3, <1>4, <1>5, CallStep, TakeStep, LoopEndsStep, MessageStep
     DEF McpNext, LoopStep, ServerServes
<1>7. AreRequests'
  <2>1. \A m \in received' \cup answered' : m \in received \cup answered \/ m.kind = "request"
    BY DEF McpNext, mcpVars, serverVars, LoopStep, ServerServes, Call, Return, Fail, Withdraw,
           TakeRequest, WriteMessage, WriteFails, AnswerFails, ReadResponse, ReadAsk, ReadEnd,
           DrainOne, LoopEnds, ServerReads, ServerWrites, ServerResponds, ServerRepeats,
           ServerAsks, ServerExits
  <2> QED
    BY <2>1 DEF AreRequests
<1> QED
  BY <1>6, <1>7

\* It holds always.
LEMMA McpInvariance == McpSpec => [](McpInv /\ AreRequests)
<1>1. McpInit => AreRequests
  BY DEF McpInit, AreRequests
<1> QED
  BY <1>1, McpInitInv, McpStep, PTL DEF McpSpec

-----------------------------------------------------------------------------
\* The types of the client, its loop, the pipes and the server hold for any number of callers;
\* ids never run out.
THEOREM McpTypesHold == McpSpec => []McpTypeOK
<1>1. McpInv => McpTypeOK
  BY DEF McpInv
<1> QED
  BY <1>1, McpInvariance, PTL

\* Who is told is given the reply, if it still waits.
LEMMA RespondGives ==
    ASSUME McpInv, NEW id \in Ids, waiting[id] # Nobody, NEW r \in {waiting[id], Broken},
           Respond(waiting[id], r), UNCHANGED caller
    PROVE  [McpCalls!CNext]_(McpCalls!cvars)
<1> DEFINE c == waiting[id]
<1>1. c \in Callers /\ response[c] = Silence
  BY DEF McpInv, McpTypeOK, OnePlace
<1>2. CASE caller[c] = "waiting"
  <2>1. McpCalls!Give(c, r)
    BY <1>1, <1>2 DEF McpCalls!Give, Respond
  <2>2. r \in [d \in Callers |-> {d, Broken}][c]
    BY <1>1
  <2> QED
    BY <1>1, <2>1, <2>2 DEF McpCalls!CNext
<1>3. CASE caller[c] # "waiting"
  BY <1>3 DEF Respond, McpCalls!cvars
<1> QED
  BY <1>2, <1>3

\* The client implements CallReply: each call is replied to once, by the response to its own
\* request or by the error of the connection, whatever the server writes, and whoever left.
THEOREM CallsReplied == McpSpec => McpReplies
<1>1. McpInit => McpCalls!CInit
  BY DEF McpInit, McpCalls!CInit
<1>2. McpInv /\ [McpNext]_mcpVars => [McpCalls!CNext]_(McpCalls!cvars)
  <2> SUFFICES ASSUME McpInv, [McpNext]_mcpVars PROVE [McpCalls!CNext]_(McpCalls!cvars)
    OBVIOUS
  <2>1. ASSUME NEW c \in Callers, Call(c) \/ Return(c) \/ Fail(c) \/ Withdraw(c)
        PROVE  [McpCalls!CNext]_(McpCalls!cvars)
    <3>1. McpCalls!Begin(c) \/ McpCalls!Return(c) \/ McpCalls!GiveUp(c) \/ McpCalls!Withdraw(c)
      BY <2>1 DEF Call, Return, Fail, Withdraw,
                  McpCalls!Begin, McpCalls!Return, McpCalls!GiveUp, McpCalls!Withdraw
    <3> QED
      BY <3>1 DEF McpCalls!CNext
  <2>2. CASE WriteFails
    <3>1. CASE held.kind = "request" /\ waiting[held.id] # Nobody
      <4>1. held.id \in Ids
        BY <3>1, Counting DEF McpInv, McpTypeOK, Genuine, InFlight, IsAbout, Ids
      <4> QED
        BY <2>2, <3>1, <4>1, RespondGives DEF WriteFails
    <3>2. CASE ~(held.kind = "request" /\ waiting[held.id] # Nobody)
      BY <2>2, <3>2 DEF WriteFails, McpCalls!cvars
    <3> QED
      BY <3>1, <3>2
  <2>3. CASE ReadResponse
    <3> DEFINE m == Head(toClient)
    <3>1. m \in InFlight
      BY <2>3, Tail_Elements DEF ReadResponse, McpInv, McpTypeOK, InFlight
    <3>2. m.id \in Ids /\ waiting[m.id] \in {m.about, Nobody}
      BY <2>3, <3>1, Counting, SMTT(30) DEF ReadResponse, McpInv, McpTypeOK, Genuine, IsAbout, Ids
    <3>3. CASE waiting[m.id] = Nobody
      BY <2>3, <3>3 DEF ReadResponse, McpCalls!cvars
    <3>4. CASE waiting[m.id] # Nobody
      BY <2>3, <3>2, <3>4, RespondGives DEF ReadResponse
    <3> QED
      BY <3>3, <3>4
  <2>4. ASSUME NEW id \in Ids, DrainOne(id) PROVE [McpCalls!CNext]_(McpCalls!cvars)
    BY <2>4, RespondGives DEF DrainOne
  <2>5. ASSUME UNCHANGED <<caller, response>> PROVE [McpCalls!CNext]_(McpCalls!cvars)
    BY <2>5 DEF McpCalls!cvars
  <2>6. CASE TakeRequest \/ WriteMessage \/ AnswerFails \/ ReadAsk \/ ReadEnd \/ LoopEnds
    BY <2>5, <2>6 DEF TakeRequest, WriteMessage, AnswerFails, ReadAsk, ReadEnd, LoopEnds
  <2>7. CASE ServerServes \/ ServerAsks \/ ServerExits \/ \E request \in answered : ServerRepeats(request)
    BY <2>5, <2>7 DEF ServerServes, ServerReads, ServerWrites, ServerResponds, ServerAsks,
                      ServerExits, ServerRepeats, clientVars
  <2>8. CASE UNCHANGED mcpVars
    BY <2>5, <2>8 DEF mcpVars, clientVars
  <2> QED
    BY <2>1, <2>2, <2>3, <2>4, <2>6, <2>7, <2>8 DEF McpNext, LoopStep
<1> QED
  BY <1>1, <1>2, McpInvariance, PTL DEF McpReplies, McpSpec, McpCalls!CSpec

-----------------------------------------------------------------------------
(* The client of a language server *)

\* The types of the pipes and of what the server writes.
LspMessages == [what : {"none", "didOpen", "request", "initialized", "answer", "response", "error", "garbage", "ask"},
                about : Lookups \cup {Unanswered}]
LspTypes ==
    /\ LspTypeOK
    /\ stdin \in Seq(LspMessages) /\ stdout \in Seq(LspMessages) /\ replying \in LspMessages

\* The call under way waits from the moment in which its sender is registered, and no other does.
CallerKnows ==
    /\ \A c \in Lookups : (lookup[c] = "waiting") = (c = current /\ doing \in {"writing", "waiting"})
    /\ (current = NoLookup) = (doing \in {"nothing", "initialized"})
    /\ doing \in {"opening", "registering"} => lookup[current] = "idle"

\* A request that was written is of a call that waits for its response, or is over.
Written(c) ==
    \/ c \in taken \cup done
    \/ \E i \in DOMAIN stdin : stdin[i].what = "request" /\ stdin[i].about = c
RequestsAreOfCalls ==
    \A c \in Lookups \cup {Unanswered} :
        Written(c) => /\ c \in Lookups /\ lookup[c] \in {"waiting", "returned", "failed"}
                      /\ lookup[c] = "waiting" => doing = "waiting"

\* What is sent to the channel of a call takes its sender, and there is none before the call waits.
FoundOnce ==
    \A c \in Lookups : /\ found[c] # Unanswered => c \notin senders
                       /\ found[c] \in {Unanswered, Error, c}
                       /\ lookup[c] = "idle" => found[c] = Unanswered /\ c \notin senders

\* The inductive invariant of the lookups.
LspInv == LspTypes /\ CallerKnows /\ RequestsAreOfCalls /\ FoundOnce /\ NoSenderLeaks

\* No call is the absence of one, and every message of the code is a message.
LEMMA LspSorts ==
    /\ Initialize \in Lookups /\ Unanswered \notin Lookups /\ Error \notin Lookups /\ Unanswered # Error
    /\ NoLookup = Unanswered /\ PipeSize \in Nat \ {0} /\ MaxRequests \in Nat /\ MaxRepeats \in Nat
    /\ DidOpen \in LspMessages /\ NoMessage \in LspMessages
    /\ \A what \in {"request", "initialized", "answer", "response", "error", "garbage", "ask"},
          about \in Lookups \cup {Unanswered} : Lsp(what, about) \in LspMessages
  BY LanguageServerAssumption DEF NoLookup, LspMessages, DidOpen, NoMessage, Lsp

\* It holds in the beginning.
LEMMA LspInitInv == LspInit => LspInv
<1> SUFFICES ASSUME LspInit PROVE LspInv
  OBVIOUS
<1>1. LspTypes
  <2>1. <<>> \in Seq(LspMessages) /\ Len(<<>>) = 0 /\ 0 \in 0..MaxRequests /\ 0 \in 0..MaxRepeats
    BY LspSorts
  <2>2. NoMessage \in LspMessages
    BY LspSorts
  <2>3. stdin = <<>> /\ stdout = <<>> /\ Len(stdin) <= PipeSize /\ Len(stdout) <= PipeSize
    BY <2>1, LspSorts DEF LspInit
  <2>4. LspTypeOK
    BY <2>1, <2>3, LspSorts DEF LspInit, LspTypeOK
  <2> QED
    BY <2>1, <2>2, <2>3, <2>4 DEF LspInit, LspTypes
<1>2. CallerKnows /\ RequestsAreOfCalls /\ FoundOnce /\ NoSenderLeaks
  BY LspSorts DEF LspInit, CallerKnows, RequestsAreOfCalls, Written, FoundOnce, NoSenderLeaks
<1> QED
  BY <1>1, <1>2 DEF LspInv

\* A fifo that is written to has its message at its end.
LEMMA PipeWritten ==
    ASSUME NEW fifo \in Seq(LspMessages), NEW message \in LspMessages, Len(fifo) < PipeSize
    PROVE  /\ Append(fifo, message) \in Seq(LspMessages) /\ Len(Append(fifo, message)) <= PipeSize
           /\ \A i \in DOMAIN Append(fifo, message) :
                 Append(fifo, message)[i] = message \/ (i \in DOMAIN fifo /\ Append(fifo, message)[i] = fifo[i])
<1>1. PipeSize \in Nat
  BY LspSorts
<1> QED
  BY <1>1

\* A fifo that is read from has lost its first message.
LEMMA PipeRead ==
    ASSUME NEW fifo \in Seq(LspMessages), fifo # <<>>, Len(fifo) <= PipeSize
    PROVE  /\ Tail(fifo) \in Seq(LspMessages) /\ Len(Tail(fifo)) <= PipeSize
           /\ \A i \in DOMAIN Tail(fifo) : i + 1 \in DOMAIN fifo /\ Tail(fifo)[i] = fifo[i + 1]
           /\ Head(fifo) \in LspMessages /\ 1 \in DOMAIN fifo /\ Head(fifo) = fifo[1]
<1>1. PipeSize \in Nat
  BY LspSorts
<1> QED
  BY <1>1

\* The calling thread moves on, and with it the state of its call; what it writes are no requests,
\* but for that of the call that waits now.
LEMMA StartLookupInv == ASSUME LspInv, NEW c \in Lookups, StartLookup(c) PROVE LspInv'
<1> USE LspSorts DEF LspInv, StartLookup, peerVars
<1>1. LspTypes'
  BY DEF LspTypes, LspTypeOK
<1>2. CallerKnows'
  BY DEF CallerKnows, LspTypes, LspTypeOK
<1>3. RequestsAreOfCalls' /\ FoundOnce' /\ NoSenderLeaks'
  BY DEF CallerKnows, RequestsAreOfCalls, Written, FoundOnce, NoSenderLeaks
<1> QED
  BY <1>1, <1>2, <1>3

\* Before the sender is registered nothing of the call is written.
LEMMA OpeningInv == ASSUME LspInv, OpenDocument \/ OpenFails \/ SayInitialized PROVE LspInv'
<1> USE LspSorts DEF LspInv, OpenDocument, OpenFails, SayInitialized, Writes, peerVars
<1>0. UNCHANGED <<lookup, found, senders, stdout, reader, lsp, replying, taken, done, requests, repeats>>
  OBVIOUS
<1>1. /\ stdin' \in Seq(LspMessages) /\ Len(stdin') <= PipeSize
      /\ \A i \in DOMAIN stdin' : stdin'[i].what = "request" => i \in DOMAIN stdin /\ stdin'[i] = stdin[i]
  <2>1. CASE UNCHANGED stdin
    BY <2>1 DEF LspTypes, LspTypeOK
  <2>2. ASSUME NEW message \in {DidOpen, Lsp("initialized", Unanswered)},
               Len(stdin) < PipeSize, stdin' = Append(stdin, message)
        PROVE  <1>1
    BY <2>2, PipeWritten DEF LspTypes, DidOpen, Lsp
  <2> QED
    BY <2>1, <2>2
<1>2. LspTypes'
  BY <1>0, <1>1 DEF LspTypes, LspTypeOK
<1>3. CallerKnows'
  BY <1>0 DEF CallerKnows, LspTypes, LspTypeOK
<1>4. RequestsAreOfCalls'
  <2>1. \A d \in Lookups \cup {Unanswered} : Written(d)' => Written(d)
    BY <1>0, <1>1 DEF Written
  <2> QED
    BY <1>0, <2>1 DEF RequestsAreOfCalls, CallerKnows
<1>5. FoundOnce' /\ NoSenderLeaks'
  BY <1>0 DEF FoundOnce, NoSenderLeaks
<1> QED
  BY <1>2, <1>3, <1>4, <1>5

\* The call waits from now on, and its request is not yet written.
LEMMA RegisterSenderInv == ASSUME LspInv, RegisterSender PROVE LspInv'
<1> USE LspSorts DEF LspInv, RegisterSender, peerVars
<1>1. current \in Lookups /\ lookup[current] = "idle" /\ ~Written(current)
  BY DEF CallerKnows, LspTypes, LspTypeOK, RequestsAreOfCalls
<1>2. /\ lookup' \in [Lookups -> {"idle", "waiting", "returned", "failed", "withdrawn"}]
      /\ lookup'[current] = "waiting" /\ \A c \in Lookups \ {current} : lookup'[c] = lookup[c]
  BY <1>1 DEF LspTypes, LspTypeOK
<1>3. LspTypes'
  BY <1>1, <1>2 DEF LspTypes, LspTypeOK
<1>4. CallerKnows'
  BY <1>1, <1>2 DEF CallerKnows
<1>5. RequestsAreOfCalls'
  <2>1. \A c \in Lookups \cup {Unanswered} : Written(c)' = Written(c)
    BY DEF Written
  <2> QED
    BY <1>1, <1>2, <2>1 DEF RequestsAreOfCalls
<1>6. FoundOnce' /\ NoSenderLeaks'
  BY <1>1, <1>2 DEF FoundOnce, NoSenderLeaks
<1> QED
  BY <1>3, <1>4, <1>5, <1>6

\* The request that is written is of the call that waits.
LEMMA WriteRequestInv == ASSUME LspInv, WriteRequest PROVE LspInv'
<1> USE LspSorts DEF LspInv, WriteRequest, Writes, peerVars
<1>1. current \in Lookups /\ lookup[current] = "waiting" /\ Lsp("request", current) \in LspMessages
  BY DEF CallerKnows, LspTypes, LspTypeOK
<1>2. /\ stdin' \in Seq(LspMessages) /\ Len(stdin') <= PipeSize
      /\ \A i \in DOMAIN stdin' : \/ stdin'[i] = Lsp("request", current)
                                  \/ i \in DOMAIN stdin /\ stdin'[i] = stdin[i]
  BY <1>1, PipeWritten DEF LspTypes
<1>3. LspTypes'
  BY <1>2 DEF LspTypes, LspTypeOK
<1>4. CallerKnows'
  BY DEF CallerKnows, LspTypes, LspTypeOK
<1>5. RequestsAreOfCalls'
  <2>1. \A c \in Lookups \cup {Unanswered} : Written(c)' => c = current \/ Written(c)
    BY <1>2 DEF Written, Lsp
  <2> QED
    BY <1>1, <2>1 DEF RequestsAreOfCalls
<1>6. FoundOnce' /\ NoSenderLeaks'
  BY DEF FoundOnce, NoSenderLeaks
<1> QED
  BY <1>3, <1>4, <1>5, <1>6

\* A call is over: by what it was sent, by the time, or because its request never got out.
LEMMA CallOverInv == ASSUME LspInv, RequestUnwritten \/ Receive \/ RequestTimesOut PROVE LspInv'
<1> USE LspSorts DEF LspInv, RequestUnwritten, Receive, RequestTimesOut, Unregister, peerVars
<1>1. current \in Lookups /\ lookup[current] = "waiting" /\ doing \in {"writing", "waiting"}
  BY DEF CallerKnows, LspTypes, LspTypeOK
<1>2. /\ current' = NoLookup /\ doing' \in {"nothing", "initialized"}
      /\ UNCHANGED <<found, session, opened, stdin, stdout, reader, lsp, replying, taken, done, requests, repeats>>
      /\ senders' \subseteq senders
      /\ \/ doing = "writing" /\ lookup' = [lookup EXCEPT ![current] = "withdrawn"]
         \/ doing = "waiting" /\ found[current] # Unanswered /\ lookup' = [lookup EXCEPT ![current] = "returned"]
         \/ doing = "waiting" /\ current \notin senders' /\ lookup' = [lookup EXCEPT ![current] = "failed"]
  OBVIOUS
<1>3. /\ lookup' \in [Lookups -> {"idle", "waiting", "returned", "failed", "withdrawn"}]
      /\ lookup'[current] \in {"returned", "failed", "withdrawn"}
      /\ \A c \in Lookups \ {current} : lookup'[c] = lookup[c]
      /\ lookup'[current] = "withdrawn" => doing = "writing"
      /\ lookup'[current] # "withdrawn" => current \notin senders'
  BY <1>1, <1>2 DEF LspTypes, LspTypeOK, FoundOnce
<1>4. LspTypes'
  BY <1>2, <1>3 DEF LspTypes, LspTypeOK
<1>5. CallerKnows'
  BY <1>1, <1>2, <1>3 DEF CallerKnows
<1>6. \A c \in Lookups \cup {Unanswered} : Written(c)' = Written(c)
  BY <1>2 DEF Written
<1>7. doing = "writing" => ~Written(current)
  BY <1>1 DEF RequestsAreOfCalls
<1>8. RequestsAreOfCalls'
  <2>1. ASSUME NEW c \in Lookups, Written(c)
        PROVE  lookup'[c] \in {"returned", "failed"}
    BY <1>1, <1>3, <1>7, <2>1 DEF RequestsAreOfCalls, CallerKnows
  <2> QED
    BY <1>6, <2>1 DEF RequestsAreOfCalls
<1>9. FoundOnce'
  BY <1>1, <1>2, <1>3 DEF FoundOnce
<1>10. NoSenderLeaks'
  <2>1. senders' \subseteq Lookups
    BY <1>2 DEF LspTypes, LspTypeOK
  <2>2. ASSUME NEW c \in senders', c # current
        PROVE  lookup'[c] = "waiting" \/ (lookup'[c] = "withdrawn" /\ c \notin taken \cup done)
    BY <1>2, <1>3, <2>1, <2>2 DEF NoSenderLeaks
  <2>3. current \in senders' => lookup'[current] = "withdrawn" /\ current \notin taken \cup done
    BY <1>3, <1>7 DEF Written
  <2> QED
    BY <1>2, <2>2, <2>3 DEF NoSenderLeaks
<1> QED
  BY <1>4, <1>5, <1>8, <1>9, <1>10

\* The reader takes senders of calls that wait, and no other step sends to a channel.
LEMMA SendsInv ==
    ASSUME LspInv, NEW S \in SUBSET senders, senders' = senders \ S,
           UNCHANGED <<lookup, current, doing, session, opened, stdin, peerVars>>,
           stdout' \in Seq(LspMessages), Len(stdout') <= PipeSize, reader' \in {"reading", "gone"},
           found' = [c \in Lookups |-> found'[c]],
           \A c \in Lookups : IF c \in S /\ lookup[c] = "waiting" THEN found'[c] \in {Error, c}
                              ELSE found'[c] = found[c]
    PROVE  LspInv'
<1> USE LspSorts DEF LspInv, peerVars
<1>1. LspTypes'
  <2>1. \A c \in Lookups : found'[c] \in Lookups \cup {Unanswered, Error}
    BY DEF LspTypes, LspTypeOK
  <2>2. found' \in [Lookups -> Lookups \cup {Unanswered, Error}]
    <3> DEFINE T == Lookups \cup {Unanswered, Error}
    <3> QED
      BY <2>1
  <2> QED
    BY <2>2 DEF LspTypes, LspTypeOK
<1>2. CallerKnows' /\ NoSenderLeaks'
  BY DEF CallerKnows, NoSenderLeaks
<1>3. RequestsAreOfCalls'
  BY DEF RequestsAreOfCalls, Written
<1>4. FoundOnce'
  BY DEF FoundOnce
<1> QED
  BY <1>1, <1>2, <1>3, <1>4

\* A result goes to the sender that is registered under its id, which is its own.
LEMMA ReadResultInv == ASSUME LspInv, ReadResult PROVE LspInv'
<1> DEFINE c == Head(stdout).about
           r == IF Head(stdout).what = "error" THEN Error ELSE c
           S == Addressees(c)
<1>1. /\ stdout # <<>> /\ stdout' = Tail(stdout) /\ senders' = senders \ S
      /\ found' = [d \in Lookups |-> IF d \in S /\ lookup[d] = "waiting" THEN r ELSE found[d]]
      /\ UNCHANGED <<lookup, current, doing, session, opened, stdin, reader, peerVars>> /\ reader = "reading"
  BY DEF ReadResult
<1>2. S \in SUBSET senders /\ \A d \in S : d = c
  BY DEF Addressees
<1>3. stdout' \in Seq(LspMessages) /\ Len(stdout') <= PipeSize
  BY <1>1, PipeRead DEF LspInv, LspTypes, LspTypeOK
<1>4. r \in {Error, c}
  OBVIOUS
<1> HIDE DEF r, S, c
<1>5. /\ found' = [d \in Lookups |-> found'[d]]
      /\ \A d \in Lookups : IF d \in S /\ lookup[d] = "waiting" THEN found'[d] \in {Error, d} ELSE found'[d] = found[d]
  BY <1>1, <1>2, <1>4
<1> QED
  BY <1>1, <1>2, <1>3, <1>5, SendsInv

\* At the end of the stream every sender is dropped.
LEMMA DrainSendersInv == ASSUME LspInv, DrainSenders PROVE LspInv'
<1>1. /\ reader' = "gone" /\ senders' = senders \ senders
      /\ found' = [c \in Lookups |-> IF c \in senders /\ lookup[c] = "waiting" THEN Error ELSE found[c]]
      /\ UNCHANGED <<lookup, current, doing, session, opened, stdin, stdout, peerVars>>
  BY DEF DrainSenders
<1>2. stdout' \in Seq(LspMessages) /\ Len(stdout') <= PipeSize
  BY <1>1 DEF LspInv, LspTypes, LspTypeOK
<1>3. /\ found' = [d \in Lookups |-> found'[d]]
      /\ \A d \in Lookups : IF d \in senders /\ lookup[d] = "waiting" THEN found'[d] \in {Error, d} ELSE found'[d] = found[d]
  BY <1>1
<1> QED
  BY <1>1, <1>2, <1>3, SendsInv

\* The other steps of the reader change the pipes and nothing of the calls.
LEMMA ReaderInv == ASSUME LspInv, ReadRequest \/ AnswerRequest \/ ReadFails PROVE LspInv'
<1> USE LspSorts DEF LspInv, sessionVars, peerVars
<1>1. UNCHANGED <<lookup, found, current, doing, session, opened, senders, lsp, replying, taken, done, requests, repeats>>
  BY DEF ReadRequest, AnswerRequest, ReadFails
<1>2. /\ stdin' \in Seq(LspMessages) /\ Len(stdin') <= PipeSize
      /\ \A i \in DOMAIN stdin' : stdin'[i].what = "request" => i \in DOMAIN stdin /\ stdin'[i] = stdin[i]
  <2>1. CASE UNCHANGED stdin
    BY <2>1 DEF LspTypes, LspTypeOK
  <2>2. CASE Len(stdin) < PipeSize /\ stdin' = Append(stdin, Lsp("answer", Unanswered))
    BY <2>2, PipeWritten DEF LspTypes, Lsp
  <2> QED
    BY <2>1, <2>2 DEF ReadRequest, AnswerRequest, ReadFails, Writes
<1>3. stdout' \in Seq(LspMessages) /\ Len(stdout') <= PipeSize
  <2>1. CASE UNCHANGED stdout
    BY <2>1 DEF LspTypes, LspTypeOK
  <2>2. CASE stdout # <<>> /\ stdout' = Tail(stdout)
    BY <2>2, PipeRead DEF LspTypes, LspTypeOK
  <2>3. CASE stdout' = <<>>
    BY <2>3
  <2> QED
    BY <2>1, <2>2, <2>3 DEF ReadRequest, AnswerRequest, ReadFails
<1>4. reader' \in {"reading", "answering", "draining", "gone"}
  BY DEF ReadRequest, AnswerRequest, ReadFails
<1>5. LspTypes'
  BY <1>1, <1>2, <1>3, <1>4 DEF LspTypes, LspTypeOK
<1>6. CallerKnows' /\ FoundOnce' /\ NoSenderLeaks'
  BY <1>1 DEF CallerKnows, FoundOnce, NoSenderLeaks
<1>7. RequestsAreOfCalls'
  <2>1. \A c \in Lookups \cup {Unanswered} : Written(c)' => Written(c)
    BY <1>1, <1>2 DEF Written
  <2> QED
    BY <1>1, <2>1 DEF RequestsAreOfCalls
<1> QED
  BY <1>5, <1>6, <1>7

\* A request that the server reads was written to it.
LEMMA PeerReadsInv == ASSUME LspInv, PeerReads PROVE LspInv'
<1> USE LspSorts DEF LspInv, PeerReads, sessionVars
<1>1. /\ stdin' \in Seq(LspMessages) /\ Len(stdin') <= PipeSize /\ Head(stdin) \in LspMessages
      /\ \A i \in DOMAIN stdin' : i + 1 \in DOMAIN stdin /\ stdin'[i] = stdin[i + 1]
      /\ 1 \in DOMAIN stdin /\ Head(stdin) = stdin[1]
  BY PipeRead DEF LspTypes, LspTypeOK
<1>2. \A c \in Lookups \cup {Unanswered} : Written(c)' => Written(c)
  BY <1>1 DEF Written
<1>3. Head(stdin).what = "request" => Head(stdin).about \in Lookups
  <2>1. Head(stdin).about \in Lookups \cup {Unanswered}
    BY <1>1 DEF LspMessages
  <2>2. Head(stdin).what = "request" => Written(Head(stdin).about)
    BY <1>1 DEF Written
  <2> QED
    BY <2>1, <2>2 DEF RequestsAreOfCalls
<1>4. LspTypes'
  BY <1>1, <1>3 DEF LspTypes, LspTypeOK
<1>5. RequestsAreOfCalls'
  BY <1>2 DEF RequestsAreOfCalls
<1>6. CallerKnows' /\ FoundOnce'
  BY DEF CallerKnows, FoundOnce
<1>7. NoSenderLeaks'
  <2>1. senders \subseteq Lookups
    BY DEF LspTypes, LspTypeOK
  <2>2. ASSUME NEW c \in senders, lookup[c] = "withdrawn"
        PROVE  c \notin taken' \cup done'
    <3>1. ~Written(c)
      BY <2>1, <2>2 DEF RequestsAreOfCalls
    <3>2. ~Written(c)'
      BY <1>2, <2>1, <3>1
    <3> QED
      BY <3>2 DEF Written
  <2> QED
    BY <2>2 DEF NoSenderLeaks
<1> QED
  BY <1>4, <1>5, <1>6, <1>7

\* Nothing else that the server does is about a request that it has not read.
LEMMA PeerInv ==
    ASSUME LspInv, PeerWrites \/ PeerAsks \/ PeerExits \/ \E c \in Lookups : PeerResponds(c) \/ PeerRepeats(c)
    PROVE  LspInv'
<1> USE LspSorts DEF LspInv, sessionVars, PeerWrites, PeerAsks, PeerExits, PeerResponds, PeerRepeats
<1>1. /\ UNCHANGED <<lookup, found, current, doing, session, opened, senders, stdin, reader>>
      /\ taken' \cup done' = taken \cup done /\ taken' \subseteq Lookups /\ done' \subseteq Lookups
      /\ lsp' \in {"up", "gone"} /\ requests' \in 0..MaxRequests /\ repeats' \in 0..MaxRepeats
  BY DEF LspTypes, LspTypeOK
<1>2. replying' \in LspMessages
  BY DEF LspTypes
<1>3. stdout' \in Seq(LspMessages) /\ Len(stdout') <= PipeSize
  <2>1. CASE UNCHANGED stdout
    BY <2>1 DEF LspTypes, LspTypeOK
  <2>2. CASE Len(stdout) < PipeSize /\ stdout' = Append(stdout, replying)
    BY <2>2, PipeWritten DEF LspTypes
  <2> QED
    BY <2>1, <2>2
<1>4. LspTypes'
  BY <1>1, <1>2, <1>3 DEF LspTypes, LspTypeOK
<1>5. CallerKnows' /\ FoundOnce' /\ NoSenderLeaks'
  BY <1>1 DEF CallerKnows, FoundOnce, NoSenderLeaks
<1>6. RequestsAreOfCalls'
  BY <1>1 DEF RequestsAreOfCalls, Written
<1> QED
  BY <1>4, <1>5, <1>6

\* Every step keeps it.
LEMMA LspStep == LspInv /\ [LspNext]_lspVars => LspInv'
<1>1. LspInv /\ LspNext => LspInv'
  BY StartLookupInv, OpeningInv, RegisterSenderInv, WriteRequestInv, CallOverInv, ReadResultInv, DrainSendersInv,
     ReaderInv, PeerReadsInv, PeerInv DEF LspNext, CallingThread, Reader, PeerServes
<1>2. LspInv /\ UNCHANGED lspVars => LspInv'
  BY DEF lspVars, sessionVars, peerVars, LspInv, LspTypes, LspTypeOK, CallerKnows, RequestsAreOfCalls, Written,
         FoundOnce, NoSenderLeaks
<1> QED
  BY <1>1, <1>2

\* It holds always.
LEMMA LspInvariance == LspSpec => []LspInv
  BY LspInitInv, LspStep, PTL DEF LspSpec

\* A call returns the result of its own request, or an error, whatever the server writes and when.
THEOREM LookupsAnswered == LspSpec => LspReplies
<1>1. LspInit => LspCalls!CInit
  BY DEF LspInit, LspCalls!CInit
<1>2. LspInv /\ [LspNext]_lspVars => [LspCalls!CNext]_(LspCalls!cvars)
  <2> SUFFICES ASSUME LspInv, [LspNext]_lspVars, ~UNCHANGED <<lookup, found>>
               PROVE  \E c \in Lookups : \/ LspCalls!Begin(c) \/ LspCalls!Return(c) \/ LspCalls!GiveUp(c)
                                         \/ LspCalls!Withdraw(c) \/ \E r \in {c, Error} : LspCalls!Give(c, r)
    BY DEF LspCalls!CNext, LspCalls!cvars
  <2>0. current \in Lookups \/ current = NoLookup
    BY DEF LspInv, LspTypes, LspTypeOK
  <2>1. CASE RegisterSender
    <3>1. current \in Lookups /\ lookup[current] = "idle"
      BY <2>0, <2>1 DEF RegisterSender, LspInv, CallerKnows
    <3> QED
      BY <2>1, <3>1 DEF RegisterSender, LspCalls!Begin
  <2>2. CASE RequestUnwritten \/ Receive \/ RequestTimesOut
    <3>1. current \in Lookups /\ lookup[current] = "waiting"
      BY <2>0, <2>2 DEF RequestUnwritten, Receive, RequestTimesOut, LspInv, CallerKnows
    <3> QED
      BY <2>2, <3>1 DEF RequestUnwritten, Receive, RequestTimesOut, LspCalls!Return, LspCalls!GiveUp, LspCalls!Withdraw
  <2>3. ASSUME NEW c \in Lookups, NEW r \in {c, Error}, c \in senders, lookup[c] = "waiting", UNCHANGED lookup,
               found' = [d \in Lookups |-> IF d = c THEN r ELSE found[d]]
        PROVE  LspCalls!Give(c, r)
    <3>1. found[c] = Unanswered /\ found \in [Lookups -> Lookups \cup {Unanswered, Error}]
      BY <2>3 DEF LspInv, FoundOnce, LspTypes, LspTypeOK
    <3> QED
      BY <2>3, <3>1 DEF LspCalls!Give
  <2>4. CASE ReadResult
    <3> DEFINE c == Head(stdout).about
               r == IF Head(stdout).what = "error" THEN Error ELSE c
    <3>1. /\ found' = [d \in Lookups |-> IF d \in senders \cap {c} /\ lookup[d] = "waiting" THEN r ELSE found[d]]
          /\ UNCHANGED lookup /\ r \in {c, Error}
      BY <2>4 DEF ReadResult, Addressees
    <3> HIDE DEF c, r
    <3>2. found = [d \in Lookups |-> found[d]]
      BY DEF LspInv, LspTypes, LspTypeOK
    <3>3. c \in senders /\ c \in Lookups /\ lookup[c] = "waiting"
      BY <3>1, <3>2
    <3>4. found' = [d \in Lookups |-> IF d = c THEN r ELSE found[d]]
      BY <3>1, <3>3
    <3> QED
      BY <2>3, <3>1, <3>3, <3>4
  <2>5. CASE DrainSenders
    <3>1. /\ found' = [d \in Lookups |-> IF d \in senders /\ lookup[d] = "waiting" THEN Error ELSE found[d]]
          /\ UNCHANGED lookup
      BY <2>5 DEF DrainSenders
    <3>2. \A d \in Lookups : lookup[d] = "waiting" => d = current
      BY DEF LspInv, CallerKnows
    <3>3. found = [d \in Lookups |-> found[d]]
      BY DEF LspInv, LspTypes, LspTypeOK
    <3>4. current \in Lookups /\ current \in senders /\ lookup[current] = "waiting"
      BY <3>1, <3>2, <3>3
    <3>5. found' = [d \in Lookups |-> IF d = current THEN Error ELSE found[d]]
      BY <3>1, <3>2, <3>4
    <3> QED
      BY <2>3, <3>1, <3>4, <3>5
  <2> QED
    BY <2>1, <2>2, <2>4, <2>5 DEF LspNext, lspVars, sessionVars, peerVars, CallingThread, Reader, PeerServes,
       StartLookup, OpenDocument, OpenFails, WriteRequest, SayInitialized, ReadRequest, AnswerRequest, ReadFails,
       PeerReads, PeerWrites, PeerAsks, PeerExits, PeerResponds, PeerRepeats
<1> QED
  BY <1>1, <1>2, LspInvariance, PTL DEF LspSpec, LspReplies, LspCalls!CSpec

-----------------------------------------------------------------------------
(* The tools of a managed process *)

\* What a tool and the child are at.
ToolStates == {"idle", "looking", "locking", "writing", "killing", "awaiting", "connecting", "done", "failed"}
ChildStates == {"none", "up", "killed", "zombie", "reaped"}

\* The types of what the tools and the reaper change, and of what the child and its readers do.
ToolTypes ==
    /\ registered \in BOOLEAN /\ exited \in BOOLEAN /\ readsInput \in BOOLEAN /\ strayKill \in BOOLEAN
    /\ mutex \in Tools \cup {NoTool} /\ tool \in [Tools -> ToolStates] /\ job \in Jobs
    /\ left \in [Tools -> 0 .. MaxWrite + MaxPolls]
    /\ reaper \in {"on", "off"} /\ child \in ChildStates /\ input \in 0..PipeRoom
\* A line that is kept for the tools.
ShownLines == [from : Streams, line : Nat]
OutputTypes ==
    /\ lineReader \in [Streams -> {"reading", "gone", "broken"}] /\ lost \in [Streams -> Nat]
    /\ saying \in Streams \cup {"none"} /\ said \in [Streams -> 0..MaxSaid]
    /\ pipe \in [Streams -> Seq(Nat)] /\ \A s \in Streams : Len(pipe[s]) <= PipeRoom
    /\ shownLines \in Seq(ShownLines) /\ Len(shownLines) <= OutputLines

\* The mutex is held by a tool that writes or stops; while a stop holds it nobody reaps the child.
Holding == {"writing", "killing", "awaiting"}
ToolsKnow ==
    \A t \in Tools :
        /\ (mutex = t) = (tool[t] \in Holding)
        /\ tool[t] = "writing" => job[t] = "write"
        /\ tool[t] \in {"killing", "awaiting"} => job[t] = "stop"
        /\ tool[t] = "connecting" => job[t] = "port"
        /\ tool[t] = "killing" => child # "reaped"
        /\ tool[t] \in {"looking", "locking", "writing", "connecting"} /\ job[t] \in {"write", "port"} => left[t] > 0
ExitIsReaped == exited => child = "reaped"

\* A reader that reads, or broke off, has a child to read from.
ReadersAreStarted == \A s \in Streams : lineReader[s] # "gone" => child # "none"

\* The inductive invariant of a managed process.
ProcessInv ==
    ToolTypes /\ OutputTypes /\ ToolsKnow /\ ExitIsReaped /\ ReadersAreStarted /\ StopsItsChild /\ OutputIsTail

\* The constants.
LEMMA ProcessSorts ==
    /\ NoTool \notin Tools /\ \A jobs \in Jobs : jobs \in [Tools -> {"read", "write", "stop", "port"}]
    /\ MaxWrite \in Nat \ {0} /\ MaxPolls \in Nat \ {0} /\ PipeRoom \in Nat \ {0} /\ OutputLines \in Nat \ {0}
    /\ MaxSaid \in Nat
  BY ManagedProcessAssumption

\* A line that is shown is a line of a stream.
LEMMA ShownFrom ==
    ASSUME OutputTypes
    PROVE  \A i \in DOMAIN shownLines : shownLines[i].from \in Streams /\ shownLines[i].line \in Nat
<1>1. \A i \in DOMAIN shownLines : shownLines[i] \in ShownLines
  BY DEF OutputTypes
<1> QED
  BY <1>1 DEF ShownLines

\* The output as lines that are shown of lines that were read: OutputIsTail in three parts.
PipesAreNumbered == \A s \in Streams : \A i \in DOMAIN pipe[s] : pipe[s][i] = ReadOf(s) + i
LostWhenBroken == \A s \in Streams : IF lineReader[s] = "broken" THEN pipe[s] = <<>> ELSE lost[s] = 0
ShowsTail(lines, read) ==
    /\ \A i \in DOMAIN lines :
           /\ lines[i].line <= read[lines[i].from]
           /\ \A j \in i + 1 .. Len(lines) : lines[j].from = lines[i].from => lines[j].line > lines[i].line
           /\ \A n \in lines[i].line + 1 .. read[lines[i].from] :
                  \E j \in i + 1 .. Len(lines) : lines[j] = [from |-> lines[i].from, line |-> n]
    /\ Len(lines) = (IF read["stdout"] + read["stderr"] < OutputLines THEN read["stdout"] + read["stderr"]
                                                                      ELSE OutputLines)
\* How far each stream was read.
Read == [s \in Streams |-> ReadOf(s)]
TailIsShown == ShowsTail(shownLines, Read)

\* OutputIsTail says these three.
LEMMA OutputParts ==
    OutputTypes => (OutputIsTail <=> (PipesAreNumbered /\ LostWhenBroken /\ TailIsShown))
<1> SUFFICES ASSUME OutputTypes PROVE OutputIsTail <=> (PipesAreNumbered /\ LostWhenBroken /\ TailIsShown)
  OBVIOUS
<1>1. \A i \in DOMAIN shownLines : shownLines[i].from \in Streams /\ Read[shownLines[i].from] = ReadOf(shownLines[i].from)
  BY ShownFrom DEF Read
<1>2. Read["stdout"] = ReadOf("stdout") /\ Read["stderr"] = ReadOf("stderr")
  BY DEF Read, Streams
<1> DEFINE After(i) == {shownLines[j] : j \in i + 1 .. Len(shownLines)}
<1>3. ASSUME NEW i \in DOMAIN shownLines
      PROVE  /\ (\A l \in After(i) : l.from = shownLines[i].from => l.line > shownLines[i].line)
                = (\A j \in i + 1 .. Len(shownLines) : shownLines[j].from = shownLines[i].from
                                                         => shownLines[j].line > shownLines[i].line)
             /\ (\A n \in shownLines[i].line + 1 .. ReadOf(shownLines[i].from) :
                     [from |-> shownLines[i].from, line |-> n] \in After(i))
                = (\A n \in shownLines[i].line + 1 .. Read[shownLines[i].from] :
                     \E j \in i + 1 .. Len(shownLines) : shownLines[j] = [from |-> shownLines[i].from, line |-> n])
  BY <1>1
<1> QED
  BY <1>1, <1>2, <1>3 DEF OutputIsTail, PipesAreNumbered, LostWhenBroken, ShowsTail, TailIsShown

\* How far the streams were read, and what is shown, says what OutputIsTail does.
LEMMA OutputRead ==
    ASSUME OutputTypes, OutputIsTail, OutputTypes', shownLines' = shownLines,
           \A r \in Streams : ReadOf(r)' = ReadOf(r), PipesAreNumbered', LostWhenBroken'
    PROVE  OutputIsTail'
<1>1. Read' = Read
  BY DEF Read
<1>2. TailIsShown
  BY OutputParts
<1>3. TailIsShown'
  BY <1>1, <1>2 DEF TailIsShown, ShowsTail
<1> QED
  BY <1>3, OutputParts, PTL

\* It holds in the beginning.
LEMMA ProcessInitInv == ProcessInit => ProcessInv
<1> SUFFICES ASSUME ProcessInit PROVE ProcessInv
  OBVIOUS
<1>1. ToolTypes
  <2>1. tool \in [Tools -> ToolStates] /\ left \in [Tools -> 0 .. MaxWrite + MaxPolls]
    BY ProcessSorts DEF ProcessInit, ToolStates
  <2>2. registered \in BOOLEAN /\ exited \in BOOLEAN /\ readsInput \in BOOLEAN /\ strayKill \in BOOLEAN
    BY DEF ProcessInit
  <2>3. mutex \in Tools \cup {NoTool} /\ job \in Jobs /\ reaper \in {"on", "off"} /\ child \in ChildStates
        /\ input \in 0..PipeRoom
    BY ProcessSorts DEF ProcessInit, ChildStates
  <2> QED
    BY <2>1, <2>2, <2>3 DEF ToolTypes
<1>2. <<>> \in Seq(Nat) /\ <<>> \in Seq(ShownLines) /\ Len(<<>>) = 0
  OBVIOUS
<1>3. OutputTypes
  BY ProcessSorts, <1>2 DEF ProcessInit, OutputTypes, Streams
<1>4. ToolsKnow /\ ExitIsReaped /\ ReadersAreStarted /\ StopsItsChild
  BY ProcessSorts DEF ProcessInit, ToolsKnow, Holding, ExitIsReaped, ReadersAreStarted, StopsItsChild
<1>5. OutputIsTail
  BY ProcessSorts DEF ProcessInit, OutputIsTail, ReadOf, Streams
<1> QED
  BY <1>1, <1>3, <1>4, <1>5 DEF ProcessInv

\* The output stays as it is when neither the child writes nor a reader reads.
LEMMA OutputKept ==
    ASSUME OutputTypes, OutputIsTail, UNCHANGED <<outputVars, saying, said, pipe>>
    PROVE  OutputTypes' /\ OutputIsTail'
  BY DEF OutputTypes, OutputIsTail, ReadOf, outputVars

\* A tool goes to another state, with the mutex or without: it does what its job is, and nobody is
\* about to kill a child that is reaped.
MovesTo(t, to) ==
    /\ tool' = [tool EXCEPT ![t] = to] /\ UNCHANGED <<job, reaper, outputVars, saying, said, pipe>>
    /\ registered' \in BOOLEAN /\ exited' \in BOOLEAN /\ readsInput' \in BOOLEAN /\ strayKill' = FALSE
    /\ child' \in ChildStates /\ input' \in 0..PipeRoom
    /\ left' \in [Tools -> 0 .. MaxWrite + MaxPolls] /\ \A u \in Tools \ {t} : left'[u] = left[u]
    /\ to \in {"looking", "locking", "writing", "connecting"} /\ job[t] \in {"write", "port"} => left'[t] > 0
    /\ \/ mutex' = mutex /\ (to \in Holding) = (tool[t] \in Holding)
       \/ mutex = NoTool /\ mutex' = t /\ to \in Holding
       \/ mutex = t /\ mutex' = NoTool /\ to \notin Holding
    /\ to = "writing" => job[t] = "write"
    /\ to \in {"killing", "awaiting"} => job[t] = "stop"
    /\ to = "connecting" => job[t] = "port"
    /\ child = "reaped" => child' = "reaped"
    /\ child' = "none" => child = "none"
    /\ child' = "reaped" => child = "reaped" \/ mutex \in {t, NoTool}
    /\ to = "killing" => child' # "reaped"
    /\ exited' => child' = "reaped"
    /\ job[t] = "stop" /\ to = "done" => child' = "reaped"

\* A tool that goes on, with or without the mutex, keeps it.
LEMMA ToolMoves == ASSUME ProcessInv, NEW t \in Tools, NEW to \in ToolStates, MovesTo(t, to) PROVE ProcessInv'
<1> USE ProcessSorts DEF ProcessInv
<1>1. /\ tool'[t] = to /\ \A u \in Tools \ {t} : tool'[u] = tool[u]
      /\ tool' \in [Tools -> ToolStates]
  BY DEF ToolTypes, MovesTo
<1>2. ToolTypes'
  BY <1>1 DEF ToolTypes, MovesTo
<1>3. OutputTypes' /\ OutputIsTail' /\ ReadersAreStarted'
  BY OutputKept DEF MovesTo, ReadersAreStarted, outputVars
<1>4. \A u \in Tools : (mutex' = u) = (tool'[u] \in Holding)
  <2> SUFFICES ASSUME NEW u \in Tools PROVE (mutex' = u) = (tool'[u] \in Holding)
    OBVIOUS
  <2>1. (mutex = u) = (tool[u] \in Holding) /\ (mutex = t) = (tool[t] \in Holding)
    BY DEF ToolsKnow
  <2> QED
    BY <1>1, <2>1 DEF MovesTo
<1>5. \A u \in Tools : tool'[u] = "killing" => child' # "reaped"
  <2> SUFFICES ASSUME NEW u \in Tools \ {t}, tool[u] = "killing" PROVE child' # "reaped"
    BY <1>1 DEF MovesTo
  <2>1. mutex = u /\ child # "reaped"
    BY DEF ToolsKnow, Holding
  <2> QED
    BY <2>1 DEF MovesTo
<1>6. ToolsKnow'
  <2> SUFFICES ASSUME NEW u \in Tools
               PROVE  /\ tool'[u] = "writing" => job'[u] = "write"
                      /\ tool'[u] \in {"killing", "awaiting"} => job'[u] = "stop"
                      /\ tool'[u] = "connecting" => job'[u] = "port"
                      /\ tool'[u] \in {"looking", "locking", "writing", "connecting"} /\ job'[u] \in {"write", "port"}
                           => left'[u] > 0
    BY <1>4, <1>5 DEF ToolsKnow
  <2>1. CASE u = t
    BY <1>1, <2>1 DEF MovesTo
  <2>2. CASE u # t
    BY <1>1, <2>2 DEF MovesTo, ToolsKnow
  <2> QED
    BY <2>1, <2>2
<1>7. ExitIsReaped' /\ StopsItsChild'
  BY <1>1 DEF ExitIsReaped, StopsItsChild, MovesTo
<1> QED
  BY <1>2, <1>3, <1>6, <1>7

\* What a tool finds: its job, and the mutex.
Finds(t) ==
    /\ t \in Tools /\ job[t] \in {"read", "write", "stop", "port"} /\ left \in [Tools -> 0 .. MaxWrite + MaxPolls]
    /\ left[t] \in 0 .. MaxWrite + MaxPolls
    /\ (mutex = t) = (tool[t] \in Holding) /\ (mutex = NoTool => tool[t] \notin Holding)
    /\ tool[t] = "writing" => job[t] = "write"
    /\ tool[t] \in {"killing", "awaiting"} => job[t] = "stop"
    /\ tool[t] = "connecting" => job[t] = "port"
    /\ tool[t] = "killing" => child # "reaped"
    /\ tool[t] \in {"looking", "locking", "writing", "connecting"} /\ job[t] \in {"write", "port"} => left[t] > 0
    /\ registered \in BOOLEAN /\ exited \in BOOLEAN /\ readsInput \in BOOLEAN /\ child \in ChildStates
    /\ strayKill = FALSE /\ input \in 0..PipeRoom /\ (exited => child = "reaped")
    /\ tool \in [Tools -> ToolStates]

\* The state of a tool is one of those.
LEMMA ToolFinds == ASSUME ProcessInv, NEW t \in Tools PROVE Finds(t)
<1> USE ProcessSorts DEF ProcessInv
<1>1. job[t] \in {"read", "write", "stop", "port"}
  BY DEF ToolTypes
<1>2. mutex = NoTool => tool[t] \notin Holding
  BY DEF ToolsKnow
<1> QED
  BY <1>1, <1>2 DEF Finds, ToolTypes, ToolsKnow, StopsItsChild, ExitIsReaped

\* The actions of the tools: each takes or gives back the mutex as the invariant has it.
LEMMA CallToolInv == ASSUME ProcessInv, NEW t \in Tools, CallTool(t) PROVE ProcessInv'
<1>0. Finds(t)
  BY ToolFinds
<1>1. /\ tool[t] = "idle" /\ tool' = [tool EXCEPT ![t] = "looking"]
      /\ UNCHANGED <<registered, mutex, exited, reaper, child, input, pipe, strayKill, job, outputVars, readsInput, saying, said>>
  BY DEF CallTool, Becomes, childVars
<1>2. /\ left' \in [Tools -> 0 .. MaxWrite + MaxPolls] /\ \A u \in Tools \ {t} : left'[u] = left[u]
      /\ job[t] \in {"write", "port"} => left'[t] > 0
  <2> DEFINE n == CASE job[t] = "write" -> MaxWrite [] job[t] = "port" -> MaxPolls [] OTHER -> 0
  <2>1. left' = [left EXCEPT ![t] = n]
    BY DEF CallTool
  <2>2. n \in 0 .. MaxWrite + MaxPolls /\ (job[t] \in {"write", "port"} => n > 0)
    BY <1>0, ProcessSorts DEF Finds
  <2> HIDE DEF n
  <2> QED
    BY <2>1, <2>2, <1>0 DEF Finds
<1>8. "looking" \in ToolStates /\ MovesTo(t, "looking")
  BY <1>1, <1>2, <1>0 DEF MovesTo, Finds, ToolStates, Holding
<1> QED
  BY <1>8, ToolMoves

\* The lookup finds the process or fails; a stop takes it out.
LEMMA LookUpInv == ASSUME ProcessInv, NEW t \in Tools, LookUp(t) PROVE ProcessInv'
<1>0. Finds(t)
  BY ToolFinds
<1> DEFINE to == IF registered THEN "locking" ELSE "failed"
<1>1. /\ tool[t] = "looking" /\ tool' = [tool EXCEPT ![t] = to] /\ registered' \in BOOLEAN
      /\ UNCHANGED <<mutex, exited, reaper, child, input, pipe, strayKill, job, left, outputVars, readsInput, saying, said>>
  BY <1>0 DEF Finds, LookUp, Becomes, childVars
<1>2. to \in {"locking", "failed"}
  OBVIOUS
<1> HIDE DEF to
<1>8. to \in ToolStates /\ MovesTo(t, to)
  BY <1>1, <1>2, <1>0 DEF MovesTo, Finds, ToolStates, Holding
<1> QED
  BY <1>8, ToolMoves

\* Reading the kept lines takes no lock of the child.
LEMMA ReadOutputInv == ASSUME ProcessInv, NEW t \in Tools, ReadOutput(t) PROVE ProcessInv'
<1>0. Finds(t)
  BY ToolFinds
<1>1. /\ tool[t] = "locking" /\ job[t] = "read" /\ tool' = [tool EXCEPT ![t] = "done"]
      /\ UNCHANGED <<registered, mutex, exited, reaper, child, input, pipe, strayKill, job, left, outputVars,
                     readsInput, saying, said>>
  BY DEF ReadOutput, Locks, Becomes, childVars
<1>8. "done" \in ToolStates /\ MovesTo(t, "done")
  BY <1>1, <1>0 DEF MovesTo, Finds, ToolStates, Holding
<1> QED
  BY <1>8, ToolMoves

\* A writer has the mutex.
LEMMA BeginWriteInv == ASSUME ProcessInv, NEW t \in Tools, BeginWrite(t) PROVE ProcessInv'
<1>0. Finds(t)
  BY ToolFinds
<1>1. /\ tool[t] = "locking" /\ job[t] = "write" /\ tool' = [tool EXCEPT ![t] = "writing"]
      /\ mutex = NoTool /\ mutex' = t /\ readsInput' \in BOOLEAN
      /\ UNCHANGED <<registered, exited, reaper, child, input, pipe, strayKill, job, left, outputVars, saying, said>>
  BY DEF BeginWrite, Locks, Becomes
<1>8. "writing" \in ToolStates /\ MovesTo(t, "writing")
  BY <1>1, <1>0 DEF MovesTo, Finds, ToolStates, Holding
<1> QED
  BY <1>8, ToolMoves

\* It keeps it while the pipe is full.
LEMMA WriteOnInv == ASSUME ProcessInv, NEW t \in Tools, WriteOn(t) PROVE ProcessInv'
<1>0. Finds(t)
  BY ToolFinds
<1> DEFINE to == IF left[t] = 1 THEN "done" ELSE "writing"
<1>1. /\ tool[t] = "writing" /\ tool' = [tool EXCEPT ![t] = to] /\ child = "up"
      /\ left' = [left EXCEPT ![t] = @ - 1] /\ input' = input + 1 /\ input < PipeRoom
      /\ mutex' = IF left[t] = 1 THEN NoTool ELSE mutex
      /\ UNCHANGED <<registered, exited, reaper, child, pipe, strayKill, job, outputVars, readsInput, saying, said>>
  <2>1. tool[t] = "writing" /\ tool \in [Tools -> ToolStates]
    BY DEF WriteOn, ProcessInv, ToolTypes
  <2>2. tool' = [tool EXCEPT ![t] = to]
    BY <2>1 DEF WriteOn, Becomes
  <2> QED
    BY <2>1, <2>2 DEF WriteOn, childVars
<1>2. /\ left' \in [Tools -> 0 .. MaxWrite + MaxPolls] /\ \A u \in Tools \ {t} : left'[u] = left[u]
      /\ left'[t] = left[t] - 1 /\ left[t] > 0
  BY <1>1, <1>0, ProcessSorts DEF Finds
<1>3. input' \in 0..PipeRoom
  BY <1>1, <1>0, ProcessSorts DEF Finds
<1>4. \/ to = "done" /\ mutex' = NoTool
      \/ to = "writing" /\ mutex' = mutex /\ left'[t] > 0
  BY <1>1, <1>2, <1>0 DEF Finds
<1> HIDE DEF to
<1>8. to \in ToolStates /\ MovesTo(t, to)
  BY <1>1, <1>2, <1>3, <1>4, <1>0 DEF MovesTo, Finds, ToolStates, Holding
<1> QED
  BY <1>8, ToolMoves

\* It gives it back when the child is gone.
LEMMA WriteBreaksInv == ASSUME ProcessInv, NEW t \in Tools, WriteBreaks(t) PROVE ProcessInv'
<1>0. Finds(t)
  BY ToolFinds
<1>1. /\ tool[t] = "writing" /\ tool' = [tool EXCEPT ![t] = "failed"] /\ mutex' = NoTool
      /\ UNCHANGED <<registered, exited, reaper, child, input, pipe, strayKill, job, left, outputVars,
                     readsInput, saying, said>>
  BY DEF WriteBreaks, Becomes, childVars
<1>8. "failed" \in ToolStates /\ MovesTo(t, "failed")
  BY <1>1, <1>0 DEF MovesTo, Finds, ToolStates, Holding
<1> QED
  BY <1>8, ToolMoves

\* A status that is taken is that of a child that is reaped.
LEMMA StatusTaken ==
    ASSUME ProcessInv, TryWait
    PROVE  /\ exited' \in BOOLEAN /\ child' \in ChildStates /\ exited' = (child' = "reaped")
           /\ child = "reaped" => child' = "reaped"
           /\ child' = "none" => child = "none"
           /\ child \in {"zombie", "reaped"} => exited'
  BY DEF TryWait, ProcessInv, ToolTypes, ExitIsReaped, ChildStates

\* A stop that finds the process exited signals nobody.
LEMMA StopChecksInv == ASSUME ProcessInv, NEW t \in Tools, StopChecks(t) PROVE ProcessInv'
<1>0. Finds(t)
  BY ToolFinds
<1>1. /\ tool[t] = "locking" /\ job[t] = "stop" /\ mutex = NoTool /\ TryWait
      /\ UNCHANGED <<registered, reaper, input, pipe, strayKill, job, left, outputVars, readsInput, saying, said>>
  BY DEF StopChecks, Locks, childVars
<1>2. CASE exited'
  <2>1. tool' = [tool EXCEPT ![t] = "done"] /\ UNCHANGED mutex
    BY <1>2 DEF StopChecks, Becomes
  <2>2. child' = "reaped" /\ exited' \in BOOLEAN /\ child' \in ChildStates
    BY <1>1, <1>2, StatusTaken
  <2>3. tool[t] \notin Holding /\ "done" \notin Holding
    BY <1>1 DEF Holding
  <2>4. "done" \in ToolStates /\ MovesTo(t, "done")
    BY <1>1, <2>1, <2>2, <2>3, <1>0 DEF MovesTo, Finds, ToolStates
  <2> QED
    BY <2>4, ToolMoves
<1>3. CASE ~exited'
  <2>1. tool' = [tool EXCEPT ![t] = "killing"] /\ mutex' = t
    BY <1>3 DEF StopChecks, Becomes
  <2>2. "killing" \in ToolStates /\ MovesTo(t, "killing")
    BY <1>1, <1>3, <2>1, StatusTaken, <1>0 DEF MovesTo, Finds, ToolStates, Holding
  <2> QED
    BY <2>2, ToolMoves
<1> QED
  BY <1>2, <1>3

\* The stop signals a child that nobody has reaped.
LEMMA KillGroupInv == ASSUME ProcessInv, NEW t \in Tools, KillGroup(t) PROVE ProcessInv'
<1>0. Finds(t)
  BY ToolFinds
<1>1. /\ tool[t] = "killing" /\ tool' = [tool EXCEPT ![t] = "awaiting"] /\ child' = Killed
      /\ strayKill' = (strayKill \/ child = "reaped")
      /\ UNCHANGED <<registered, mutex, exited, reaper, input, pipe, job, left, outputVars, readsInput, saying, said>>
  BY DEF KillGroup, Becomes, childVars
<1>2. /\ child # "reaped" /\ child' \in ChildStates /\ child' # "reaped" /\ ~exited /\ strayKill' = FALSE
      /\ child' = "none" => child = "none"
  BY <1>1, <1>0 DEF Finds, Killed, ChildStates
<1>8. "awaiting" \in ToolStates /\ MovesTo(t, "awaiting")
  BY <1>1, <1>2, <1>0 DEF MovesTo, Finds, ToolStates, Holding
<1> QED
  BY <1>8, ToolMoves

\* It reaps it and gives the mutex back.
LEMMA AwaitChildInv == ASSUME ProcessInv, NEW t \in Tools, AwaitChild(t) PROVE ProcessInv'
<1>0. Finds(t)
  BY ToolFinds
<1>1. /\ tool[t] = "awaiting" /\ tool' = [tool EXCEPT ![t] = "done"] /\ mutex' = NoTool
      /\ TryWait /\ child \in {"zombie", "reaped"}
      /\ UNCHANGED <<registered, reaper, input, pipe, strayKill, job, left, outputVars, readsInput, saying, said>>
  BY DEF AwaitChild, Becomes, childVars
<1>8. "done" \in ToolStates /\ MovesTo(t, "done")
  BY <1>1, StatusTaken, <1>0 DEF MovesTo, Finds, ToolStates, Holding
<1> QED
  BY <1>8, ToolMoves

\* Polling a port reaps a child that has ended, while nobody has the mutex.
LEMMA PollPortInv == ASSUME ProcessInv, NEW t \in Tools, PollPort(t) PROVE ProcessInv'
<1>0. Finds(t)
  BY ToolFinds
<1> DEFINE to == IF exited' THEN "failed" ELSE "connecting"
<1>1. /\ tool[t] = "locking" /\ job[t] = "port" /\ mutex = NoTool /\ TryWait /\ tool' = [tool EXCEPT ![t] = to]
      /\ UNCHANGED <<registered, mutex, reaper, input, pipe, strayKill, job, left, outputVars, readsInput, saying, said>>
  BY DEF PollPort, Locks, Becomes, childVars
<1>2. to \in {"failed", "connecting"}
  OBVIOUS
<1> HIDE DEF to
<1>8. to \in ToolStates /\ MovesTo(t, to)
  BY <1>1, <1>2, StatusTaken, <1>0 DEF MovesTo, Finds, ToolStates, Holding
<1> QED
  BY <1>8, ToolMoves

\* A connection changes nothing of the child.
LEMMA ConnectInv == ASSUME ProcessInv, NEW t \in Tools, Connect(t) PROVE ProcessInv'
<1>0. Finds(t)
  BY ToolFinds
<1>1. /\ tool[t] = "connecting" /\ left' = [left EXCEPT ![t] = @ - 1]
      /\ UNCHANGED <<registered, mutex, exited, reaper, child, input, pipe, strayKill, job, outputVars, readsInput, saying, said>>
  BY DEF Connect, childVars
<1>2. PICK to \in {"done", "failed", "looking"} : tool' = [tool EXCEPT ![t] = to] /\ (to = "looking" => left[t] # 1)
  BY DEF Connect, Becomes
<1>3. /\ left' \in [Tools -> 0 .. MaxWrite + MaxPolls] /\ \A u \in Tools \ {t} : left'[u] = left[u]
      /\ left'[t] = left[t] - 1 /\ left[t] > 0
  BY <1>1, <1>0, ProcessSorts DEF Finds
<1>4. to = "looking" => left'[t] > 0
  <2>1. left[t] \in Nat
    BY <1>0, ProcessSorts DEF Finds
  <2>2. to = "looking" => left[t] # 1
    BY <1>2
  <2>3. left'[t] = left[t] - 1 /\ left[t] > 0
    BY <1>3
  <2> QED
    BY <2>1, <2>2, <2>3
<1>5. to \in ToolStates /\ to \notin Holding /\ tool[t] \notin Holding
  BY <1>1, <1>2 DEF Holding, ToolStates
<1>6. /\ registered' \in BOOLEAN /\ exited' \in BOOLEAN /\ readsInput' \in BOOLEAN /\ strayKill' = FALSE
      /\ child' \in ChildStates /\ input' \in 0..PipeRoom /\ child' = child /\ (exited' => child' = "reaped")
  BY <1>1, <1>0 DEF Finds
<1>7. job[t] # "stop" /\ job[t] = "port"
  BY <1>1, <1>0 DEF Finds
<1>8. to \in ToolStates /\ MovesTo(t, to)
  BY <1>1, <1>2, <1>3, <1>4, <1>5, <1>6, <1>7 DEF MovesTo
<1> QED
  BY <1>8, ToolMoves

\* The tools stay as they are: the child is reaped only when no tool holds the mutex.
LEMMA ToolsKept ==
    ASSUME ProcessInv, UNCHANGED <<mutex, strayKill, toolVars>>,
           registered' \in BOOLEAN, exited' \in BOOLEAN, readsInput' \in BOOLEAN, reaper' \in {"on", "off"},
           child' \in ChildStates, input' \in 0..PipeRoom,
           child = "reaped" => child' = "reaped",
           child' = "reaped" => child = "reaped" \/ mutex = NoTool,
           exited' => child' = "reaped"
    PROVE  ToolTypes' /\ ToolsKnow' /\ ExitIsReaped' /\ StopsItsChild'
<1> USE ProcessSorts DEF ProcessInv, toolVars
<1>1. ToolTypes' /\ ExitIsReaped' /\ StopsItsChild'
  BY DEF ToolTypes, ExitIsReaped, StopsItsChild
<1>2. \A t \in Tools : tool[t] = "killing" => child' # "reaped"
  <2> SUFFICES ASSUME NEW t \in Tools, tool[t] = "killing" PROVE child' # "reaped"
    OBVIOUS
  <2>1. mutex = t /\ child # "reaped"
    BY DEF ToolsKnow, Holding
  <2> QED
    BY <2>1
<1>3. ToolsKnow'
  BY <1>2 DEF ToolsKnow
<1> QED
  BY <1>1, <1>3

\* The child is up before any tool finds it.
LEMMA StartProcessInv == ASSUME ProcessInv, StartProcess PROVE ProcessInv'
<1> USE ProcessSorts DEF ProcessInv, StartProcess
<1>1. ToolTypes' /\ ToolsKnow' /\ ExitIsReaped' /\ StopsItsChild'
  <2>1. /\ exited' \in BOOLEAN /\ readsInput' \in BOOLEAN /\ input' \in 0..PipeRoom /\ ~exited'
        /\ registered' \in BOOLEAN /\ child' \in ChildStates
    BY DEF ToolTypes, ExitIsReaped, childVars, ChildStates
  <2> QED
    BY <2>1, ToolsKept
<1>2. OutputTypes' /\ OutputIsTail' /\ ReadersAreStarted'
  <2>1. (\A s \in Streams : lineReader[s] # "broken") /\ child' # "none"
    BY DEF ReadersAreStarted
  <2>2. OutputTypes' /\ ReadersAreStarted'
    BY <2>1 DEF OutputTypes, ReadersAreStarted, childVars
  <2>3. PipesAreNumbered' /\ \A r \in Streams : ReadOf(r)' = ReadOf(r)
    BY DEF OutputIsTail, PipesAreNumbered, ReadOf, childVars
  <2>4. LostWhenBroken'
    BY <2>1 DEF OutputIsTail, LostWhenBroken
  <2> QED
    BY <2>2, <2>3, <2>4, OutputRead
<1> QED
  BY <1>1, <1>2

\* The reaper reaps under the mutex, so not between the check of a stop and its signal.
LEMMA ReapInv == ASSUME ProcessInv, Reap PROVE ProcessInv'
<1> USE DEF ProcessInv
<1>1. ToolTypes' /\ ToolsKnow' /\ ExitIsReaped' /\ StopsItsChild'
  <2>1. /\ mutex = NoTool /\ TryWait /\ reaper' = "off"
        /\ UNCHANGED <<registered, mutex, input, strayKill, toolVars, readsInput>>
    BY DEF Reap, ReaperEnters, childVars
  <2>2. readsInput' \in BOOLEAN /\ input' \in 0..PipeRoom /\ registered' \in BOOLEAN
    BY <2>1 DEF ToolTypes
  <2> QED
    BY <2>1, <2>2, StatusTaken, ToolsKept
<1>2. OutputTypes' /\ OutputIsTail' /\ ReadersAreStarted'
  <2>1. child' = "none" => child = "none"
    BY DEF Reap, TryWait
  <2> QED
    BY <2>1, OutputKept DEF Reap, childVars, outputVars, ReadersAreStarted
<1> QED
  BY <1>1, <1>2

\* The child and its streams change neither mutex nor tools.
LEMMA ChildReadsInv == ASSUME ProcessInv, ChildReads PROVE ProcessInv'
<1> USE DEF ProcessInv
<1>1. ToolTypes' /\ ToolsKnow' /\ ExitIsReaped' /\ StopsItsChild'
  <2>1. input' \in 0..PipeRoom
    BY ProcessSorts DEF ChildReads, ToolTypes
  <2>2. UNCHANGED <<registered, mutex, exited, reaper, child, strayKill, toolVars, readsInput>>
    BY DEF ChildReads, childVars
  <2>3. /\ registered' \in BOOLEAN /\ exited' \in BOOLEAN /\ readsInput' \in BOOLEAN /\ reaper' \in {"on", "off"}
        /\ child' \in ChildStates /\ (exited' => child' = "reaped")
    BY <2>2 DEF ToolTypes, ExitIsReaped
  <2> QED
    BY <2>1, <2>2, <2>3, ToolsKept
<1>2. OutputTypes' /\ OutputIsTail'
  BY OutputKept DEF ChildReads, childVars
<1>3. ReadersAreStarted'
  BY DEF ChildReads, ReadersAreStarted, outputVars
<1> QED
  BY <1>1, <1>2, <1>3

\* A child that ends is not reaped by that.
LEMMA ChildEndsInv == ASSUME ProcessInv, ChildExits \/ ChildDies PROVE ProcessInv'
<1> USE DEF ProcessInv
<1>1. ToolTypes' /\ ToolsKnow' /\ ExitIsReaped' /\ StopsItsChild'
  <2>1. /\ UNCHANGED <<registered, mutex, exited, reaper, input, strayKill, toolVars, readsInput>>
        /\ child' = "zombie" /\ child # "reaped"
    BY DEF ChildExits, ChildDies, childVars
  <2>2. /\ registered' \in BOOLEAN /\ exited' \in BOOLEAN /\ readsInput' \in BOOLEAN /\ reaper' \in {"on", "off"}
        /\ child' \in ChildStates /\ ~exited' /\ input' \in 0..PipeRoom
    BY <2>1 DEF ToolTypes, ExitIsReaped, ChildStates
  <2> QED
    BY <2>1, <2>2, ToolsKept
<1>2. OutputTypes' /\ OutputIsTail'
  BY OutputKept DEF ChildExits, ChildDies, childVars
<1>3. ReadersAreStarted'
  BY DEF ChildExits, ChildDies, ReadersAreStarted, outputVars
<1> QED
  BY <1>1, <1>2, <1>3

\* A step of the output: the tools, the child and its input stay as they are.
LEMMA OutputMoves ==
    ASSUME ProcessInv, UNCHANGED <<registered, mutex, exited, reaper, child, readsInput, input, strayKill, toolVars>>
    PROVE  ToolTypes' /\ ToolsKnow' /\ ExitIsReaped' /\ StopsItsChild'
<1>1. /\ registered' \in BOOLEAN /\ exited' \in BOOLEAN /\ readsInput' \in BOOLEAN /\ reaper' \in {"on", "off"}
      /\ child' \in ChildStates /\ (exited' => child' = "reaped") /\ input' \in 0..PipeRoom
  BY DEF ProcessInv, ToolTypes, ExitIsReaped
<1> QED
  BY <1>1, ToolsKept

\* A reader leaves when its pipe is empty and closed.
LEMMA ReadToEndInv == ASSUME ProcessInv, NEW s \in Streams, ReadToEnd(s) PROVE ProcessInv'
<1> USE DEF ProcessInv
<1>1. ToolTypes' /\ ToolsKnow' /\ ExitIsReaped' /\ StopsItsChild'
  BY OutputMoves DEF ReadToEnd, childVars
<1>2. OutputTypes'
  BY DEF ReadToEnd, OutputTypes, childVars
<1>3. PipesAreNumbered' /\ LostWhenBroken' /\ ReadersAreStarted' /\ \A r \in Streams : ReadOf(r)' = ReadOf(r)
  BY DEF ReadToEnd, OutputTypes, OutputIsTail, PipesAreNumbered, LostWhenBroken, ReadersAreStarted, ReadOf, childVars
<1>4. OutputIsTail'
  BY <1>2, <1>3, OutputRead DEF ReadToEnd
<1> QED
  BY <1>1, <1>2, <1>3, <1>4

\* A reader that breaks off loses what is in its pipe, and has read what it had read.
LEMMA ReadBreaksInv == ASSUME ProcessInv, NEW s \in Streams, ReadBreaks(s) PROVE ProcessInv'
<1> USE DEF ProcessInv
<1>1. ToolTypes' /\ ToolsKnow' /\ ExitIsReaped' /\ StopsItsChild'
  BY OutputMoves DEF ReadBreaks, childVars
<1>2. /\ lineReader[s] = "reading" /\ lineReader' = [lineReader EXCEPT ![s] = "broken"]
      /\ lost' = [lost EXCEPT ![s] = lost[s] + Len(pipe[s])] /\ pipe' = [pipe EXCEPT ![s] = <<>>]
      /\ UNCHANGED <<shownLines, saying, said>>
  BY DEF ReadBreaks, childVars
<1>3. /\ lost \in [Streams -> Nat] /\ pipe \in [Streams -> Seq(Nat)] /\ Len(pipe[s]) \in Nat /\ <<>> \in Seq(Nat)
      /\ Len(<<>>) = 0 /\ said \in [Streams -> Int] /\ lineReader \in [Streams -> {"reading", "gone", "broken"}]
  BY ProcessSorts DEF OutputTypes
<1>4. /\ \A r \in Streams \ {s} : pipe'[r] = pipe[r] /\ lost'[r] = lost[r] /\ lineReader'[r] = lineReader[r]
      /\ pipe'[s] = <<>> /\ lost'[s] = lost[s] + Len(pipe[s]) /\ lineReader'[s] = "broken"
  BY <1>2, <1>3
<1>5. OutputTypes'
  <2>1. lost[s] + Len(pipe[s]) \in Nat
    BY <1>3
  <2>2. pipe' \in [Streams -> Seq(Nat)] /\ \A r \in Streams : Len(pipe'[r]) <= PipeRoom
    BY <1>2, <1>3, <1>4, ProcessSorts DEF OutputTypes
  <2>3. lost' \in [Streams -> Nat] /\ lineReader' \in [Streams -> {"reading", "gone", "broken"}]
    BY <1>2, <1>3, <2>1
  <2> QED
    BY <1>2, <2>2, <2>3 DEF OutputTypes
<1>6. \A r \in Streams : ReadOf(r)' = ReadOf(r)
  <2> SUFFICES ASSUME NEW r \in Streams PROVE ReadOf(r)' = ReadOf(r)
    OBVIOUS
  <2>1. said[r] \in Int /\ Len(pipe[r]) \in Nat /\ lost[r] \in Nat
    BY <1>3
  <2>2. CASE r = s
    BY <1>2, <1>3, <1>4, <2>1, <2>2 DEF ReadOf
  <2>3. CASE r # s
    BY <1>2, <1>4, <2>1, <2>3 DEF ReadOf
  <2> QED
    BY <2>2, <2>3
<1>7. PipesAreNumbered' /\ LostWhenBroken'
  <2>1. ASSUME NEW r \in Streams, NEW i \in DOMAIN pipe'[r] PROVE pipe'[r][i] = ReadOf(r)' + i
    BY <1>4, <1>6 DEF OutputIsTail
  <2>2. ASSUME NEW r \in Streams
        PROVE  IF lineReader'[r] = "broken" THEN pipe'[r] = <<>> ELSE lost'[r] = 0
    BY <1>4 DEF OutputIsTail
  <2> QED
    BY <2>1, <2>2 DEF PipesAreNumbered, LostWhenBroken
<1>8. OutputIsTail'
  BY <1>2, <1>5, <1>6, <1>7, OutputRead
<1>9. ReadersAreStarted'
  BY <1>2, <1>3, <1>4 DEF ReadBreaks, ReadersAreStarted
<1> QED
  BY <1>1, <1>5, <1>8, <1>9

\* What is written when nobody reads is lost, and the child may be.
LEMMA ChildWritesInVainInv == ASSUME ProcessInv, ChildWritesInVain PROVE ProcessInv'
<1> USE DEF ProcessInv
<1>1. ToolTypes' /\ ToolsKnow' /\ ExitIsReaped' /\ StopsItsChild'
  <2>1. /\ UNCHANGED <<registered, mutex, exited, reaper, input, strayKill, toolVars, readsInput>>
        /\ child' \in {"up", "zombie"} /\ child # "reaped"
    BY DEF ChildWritesInVain
  <2>2. /\ registered' \in BOOLEAN /\ exited' \in BOOLEAN /\ readsInput' \in BOOLEAN /\ reaper' \in {"on", "off"}
        /\ child' \in ChildStates /\ ~exited' /\ input' \in 0..PipeRoom
    BY <2>1 DEF ToolTypes, ExitIsReaped, ChildStates
  <2> QED
    BY <2>1, <2>2, ToolsKept
<1>2. PICK s \in Streams : /\ saying = s /\ lineReader[s] = "broken" /\ lost' = [lost EXCEPT ![s] = lost[s] + 1]
                           /\ saying' = "none" /\ UNCHANGED <<shownLines, lineReader, said, pipe>>
  BY DEF ChildWritesInVain, OutputTypes
<1>3. /\ lost \in [Streams -> Nat] /\ said \in [Streams -> Int] /\ s # "none" /\ \A r \in Streams : r # "none"
      /\ \A r \in Streams : Len(pipe[r]) \in Nat
  BY ProcessSorts DEF OutputTypes, Streams
<1>4. OutputTypes'
  <2>1. lost' \in [Streams -> Nat]
    BY <1>2, <1>3
  <2> QED
    BY <1>2, <2>1 DEF OutputTypes
<1>5. \A r \in Streams : ReadOf(r)' = ReadOf(r)
  <2> SUFFICES ASSUME NEW r \in Streams PROVE ReadOf(r)' = ReadOf(r)
    OBVIOUS
  <2>1. said[r] \in Int /\ Len(pipe[r]) \in Nat /\ lost[r] \in Nat
    BY <1>3
  <2>2. CASE r = s
    BY <1>2, <1>3, <2>1, <2>2 DEF ReadOf
  <2>3. CASE r # s
    BY <1>2, <1>3, <2>1, <2>3 DEF ReadOf
  <2> QED
    BY <2>2, <2>3
<1>6. PipesAreNumbered'
  BY <1>2, <1>5 DEF PipesAreNumbered, OutputIsTail
<1>7. LostWhenBroken'
  BY <1>2, <1>3 DEF LostWhenBroken, OutputIsTail
<1>8. ReadersAreStarted'
  BY DEF ChildWritesInVain, ReadersAreStarted
<1> QED
  BY <1>1, <1>2, <1>4, <1>5, <1>6, <1>7, <1>8, OutputRead

\* What the child is about to say is the next line of its stream.
LEMMA ChildSaysInv == ASSUME ProcessInv, NEW s \in Streams, ChildSays(s) PROVE ProcessInv'
<1> USE DEF ProcessInv
<1>1. ToolTypes' /\ ToolsKnow' /\ ExitIsReaped' /\ StopsItsChild'
  BY OutputMoves DEF ChildSays
<1>2. said \in [Streams -> 0..MaxSaid] /\ said' = [said EXCEPT ![s] = said[s] + 1] /\ saying = "none" /\ saying' = s
      /\ said["stdout"] + said["stderr"] < MaxSaid /\ UNCHANGED <<pipe, outputVars>>
  BY DEF ChildSays, OutputTypes
<1>3. said[s] \in Nat /\ said[s] < MaxSaid /\ said["stdout"] \in Nat /\ said["stderr"] \in Nat
  BY <1>2, ProcessSorts DEF Streams
<1>4. OutputTypes'
  <2>1. said' \in [Streams -> 0..MaxSaid]
    BY <1>2, <1>3, ProcessSorts
  <2> QED
    BY <1>2, <2>1 DEF OutputTypes, outputVars
<1>5. \A r \in Streams : ReadOf(r)' = ReadOf(r)
  <2> SUFFICES ASSUME NEW r \in Streams PROVE ReadOf(r)' = ReadOf(r)
    OBVIOUS
  <2>1. said[r] \in Int /\ Len(pipe[r]) \in Nat /\ saying # r /\ lost'[r] = lost[r] /\ lost[r] \in Nat
    BY <1>2, ProcessSorts DEF OutputTypes, outputVars, Streams
  <2>2. CASE r = s
    BY <1>2, <2>1, <2>2 DEF ReadOf
  <2>3. CASE r # s
    BY <1>2, <2>1, <2>3 DEF ReadOf
  <2> QED
    BY <2>2, <2>3
<1>6. \A i \in DOMAIN shownLines : shownLines[i].from \in Streams
  BY ShownFrom
<1>7. OutputIsTail'
  BY <1>2, <1>5, <1>6 DEF OutputIsTail, outputVars, Streams
<1>8. ReadersAreStarted'
  BY DEF ChildSays, ReadersAreStarted, outputVars
<1> QED
  BY <1>1, <1>4, <1>7, <1>8

\* What it writes is behind what is in the pipe.
LEMMA ChildWritesInv == ASSUME ProcessInv, ChildWrites PROVE ProcessInv'
<1> USE DEF ProcessInv
<1>1. ToolTypes' /\ ToolsKnow' /\ ExitIsReaped' /\ StopsItsChild'
  BY OutputMoves DEF ChildWrites
<1> DEFINE s == saying  new == Append(pipe[s], said[s])
<1>2. /\ s \in Streams /\ pipe \in [Streams -> Seq(Nat)] /\ pipe' = [pipe EXCEPT ![s] = new] /\ saying' = "none"
      /\ Len(pipe[s]) < PipeRoom /\ lineReader[s] # "broken" /\ UNCHANGED <<said, outputVars>>
  BY DEF ChildWrites, OutputTypes
<1>3. said[s] \in Nat /\ pipe[s] \in Seq(Nat) /\ Len(pipe[s]) \in Nat
  BY <1>2, ProcessSorts DEF OutputTypes
<1>4. /\ new \in Seq(Nat) /\ Len(new) = Len(pipe[s]) + 1 /\ DOMAIN new = 1 .. Len(pipe[s]) + 1
      /\ \A i \in 1..Len(pipe[s]) : new[i] = pipe[s][i]
      /\ new[Len(pipe[s]) + 1] = said[s]
  BY <1>3
<1>5. s # "none"
  BY <1>2 DEF Streams
<1> HIDE DEF new
<1>6. \A r \in Streams : ReadOf(r)' = ReadOf(r)
  <2> SUFFICES ASSUME NEW r \in Streams PROVE ReadOf(r)' = ReadOf(r)
    OBVIOUS
  <2>1. said[r] \in Int /\ Len(pipe[r]) \in Nat /\ r # "none" /\ lost'[r] = lost[r] /\ lost[r] \in Nat
    BY <1>2, ProcessSorts DEF OutputTypes, outputVars, Streams
  <2>2. CASE r = s
    <3>1. Len(pipe'[s]) = Len(pipe[s]) + 1 /\ saying' # s /\ said' = said
      BY <1>2, <1>4, <1>5
    <3> QED
      BY <2>1, <2>2, <3>1 DEF ReadOf
  <2>3. CASE r # s
    BY <1>2, <2>1, <2>3 DEF ReadOf
  <2> QED
    BY <2>2, <2>3
<1>7. OutputTypes'
  <2>1. pipe' \in [Streams -> Seq(Nat)] /\ \A r \in Streams : Len(pipe'[r]) <= PipeRoom
    BY <1>2, <1>3, <1>4, ProcessSorts DEF OutputTypes
  <2> QED
    BY <1>2, <2>1 DEF OutputTypes, outputVars
<1>8. \A r \in Streams : \A i \in DOMAIN pipe'[r] : pipe'[r][i] = ReadOf(r)' + i
  <2> SUFFICES ASSUME NEW r \in Streams, NEW i \in DOMAIN pipe'[r] PROVE pipe'[r][i] = ReadOf(r) + i
    BY <1>6
  <2>1. CASE r # s
    BY <1>2, <2>1 DEF OutputIsTail
  <2>2. CASE r = s
    <3>1. pipe'[r] = new /\ i \in 1 .. Len(pipe[s]) + 1
      BY <1>2, <1>4, <2>2
    <3>2. CASE i = Len(pipe[s]) + 1
      <4>1. ReadOf(s) = said[s] - 1 - Len(pipe[s])
        <5>1. ReadOf(s) = said[s] - 1 - Len(pipe[s]) - lost[s] /\ lost[s] = 0
          BY <1>2 DEF ReadOf, OutputIsTail
        <5> QED
          BY <1>3, <5>1
      <4> QED
        BY <1>3, <1>4, <2>2, <3>1, <3>2, <4>1
    <3>3. CASE i # Len(pipe[s]) + 1
      <4>1. i \in DOMAIN pipe[s] /\ i \in 1..Len(pipe[s])
        BY <1>3, <3>1, <3>3
      <4> QED
        BY <1>2, <1>4, <2>2, <3>1, <4>1 DEF OutputIsTail
    <3> QED
      BY <3>2, <3>3
  <2> QED
    BY <2>1, <2>2
<1>9. PipesAreNumbered' /\ LostWhenBroken'
  <2>1. ASSUME NEW r \in Streams
        PROVE  IF lineReader'[r] = "broken" THEN pipe'[r] = <<>> ELSE lost'[r] = 0
    <3>1. lineReader' = lineReader /\ lost' = lost
      BY <1>2 DEF outputVars
    <3>2. r # s => pipe'[r] = pipe[r]
      BY <1>2
    <3> QED
      BY <1>2, <3>1, <3>2 DEF OutputIsTail
  <2> QED
    BY <1>8, <2>1 DEF PipesAreNumbered, LostWhenBroken
<1>10. OutputIsTail'
  BY <1>2, <1>6, <1>7, <1>9, OutputRead DEF outputVars
<1>11. ReadersAreStarted'
  BY DEF ChildWrites, ReadersAreStarted, outputVars
<1> QED
  BY <1>1, <1>7, <1>10, <1>11

\* What Pushed does: the oldest line goes when the limit is reached, and the new line comes last.
Leaving(lines) == IF Len(lines) >= OutputLines THEN 1 ELSE 0

\* A line is pushed behind the kept ones, the oldest of which leaves when they are too many.
LEMMA PushedLines ==
    ASSUME NEW lines \in Seq(ShownLines), Len(lines) <= OutputLines, NEW new \in ShownLines
    PROVE  /\ Pushed(lines, new) \in Seq(ShownLines) /\ Len(Pushed(lines, new)) = Len(lines) - Leaving(lines) + 1
           /\ \A i \in 1 .. Len(lines) - Leaving(lines) : Pushed(lines, new)[i] = lines[i + Leaving(lines)]
           /\ Pushed(lines, new)[Len(lines) - Leaving(lines) + 1] = new
<1> USE ProcessSorts
<1> DEFINE d == Leaving(lines)
<1>1. CASE Len(lines) >= OutputLines
  <2>1. lines # <<>> /\ d = 1
    BY <1>1 DEF Leaving
  <2>2. Tail(lines) \in Seq(ShownLines) /\ Len(Tail(lines)) = Len(lines) - 1
        /\ \A i \in 1 .. Len(lines) - 1 : Tail(lines)[i] = lines[i + 1]
    BY <2>1
  <2> DEFINE old == Tail(lines)
  <2>3. Pushed(lines, new) = Append(old, new)
    BY <1>1 DEF Pushed
  <2>4. old \in Seq(ShownLines) /\ Len(old) = Len(lines) - 1 /\ Len(lines) \in Nat
        /\ \A i \in 1 .. Len(lines) - 1 : old[i] = lines[i + 1]
    BY <2>2
  <2> HIDE DEF old
  <2>5. /\ Append(old, new) \in Seq(ShownLines) /\ Len(Append(old, new)) = Len(old) + 1
        /\ \A i \in 1..Len(old) : Append(old, new)[i] = old[i]
        /\ Append(old, new)[Len(old) + 1] = new
    BY <2>4
  <2> QED
    BY <2>1, <2>3, <2>4, <2>5
<1>2. CASE Len(lines) < OutputLines
  <2>1. Pushed(lines, new) = Append(lines, new) /\ d = 0
    BY <1>2 DEF Pushed, Leaving
  <2> QED
    BY <2>1
<1> QED
  BY <1>1, <1>2

\* A line that is read next is shown last, and what is shown is still the end of what was read.
LEMMA PushedIsTail ==
    ASSUME NEW lines \in Seq(ShownLines), Len(lines) <= OutputLines, NEW read \in [Streams -> Int],
           ShowsTail(lines, read), NEW s \in Streams, NEW new \in ShownLines,
           new.from = s, new.line = read[s] + 1, NEW more, more = [read EXCEPT ![s] = read[s] + 1]
    PROVE  ShowsTail(Pushed(lines, new), more)
<1> DEFINE d == Leaving(lines)
           all == Pushed(lines, new)
           last == Len(lines) - d + 1
<1>1. /\ all \in Seq(ShownLines) /\ Len(all) = last /\ all[last] = new
      /\ \A i \in 1 .. Len(lines) - d : all[i] = lines[i + d]
  BY PushedLines
<1>2. d \in {0, 1} /\ d \in Int /\ (d = 1) = (Len(lines) >= OutputLines) /\ Len(lines) \in Nat /\ last \in Nat
  BY ProcessSorts DEF Leaving
<1>3. more \in [Streams -> Int] /\ more[s] = read[s] + 1 /\ \A r \in Streams : read[r] <= more[r] /\ (r # s => more[r] = read[r])
  OBVIOUS
<1>4. ASSUME NEW i \in 1..Len(lines) PROVE lines[i].from \in Streams /\ lines[i].line \in Nat
  <2>1. lines[i] \in ShownLines
    OBVIOUS
  <2> QED
    BY <2>1 DEF ShownLines
<1>5. new = [from |-> s, line |-> read[s] + 1]
  BY DEF ShownLines
<1>0. last = Len(lines) - d + 1
  OBVIOUS
<1> HIDE DEF d, all, last
<1>6. ASSUME NEW i \in 1..Len(all)
      PROVE  /\ all[i].line <= more[all[i].from]
             /\ \A j \in i + 1 .. Len(all) : all[j].from = all[i].from => all[j].line > all[i].line
             /\ \A n \in all[i].line + 1 .. more[all[i].from] :
                  \E j \in i + 1 .. Len(all) : all[j] = [from |-> all[i].from, line |-> n]
  <2>1. CASE i = last
    <3>1. all[i] = new /\ i + 1 > Len(all) /\ more[s] = new.line
      BY <1>1, <1>3, <2>1
    <3> QED
      BY <1>1, <1>2, <1>3, <2>1, <3>1
  <2>2. CASE i < last
    <3> DEFINE k == i + d
    <3>0. i \in 1 .. Len(lines) - d
      BY <1>0, <1>1, <1>2, <2>2
    <3>1. k \in 1..Len(lines) /\ all[i] = lines[k] /\ k \in DOMAIN lines
      BY <1>1, <1>2, <3>0
    <3>2. lines[k].from \in Streams /\ lines[k].line \in Nat
      BY <1>4, <3>1
    <3>3. /\ lines[k].line <= read[lines[k].from]
          /\ \A j \in k + 1 .. Len(lines) : lines[j].from = lines[k].from => lines[j].line > lines[k].line
          /\ \A n \in lines[k].line + 1 .. read[lines[k].from] :
                 \E j \in k + 1 .. Len(lines) : lines[j] = [from |-> lines[k].from, line |-> n]
      BY <3>1 DEF ShowsTail
    <3>4. lines[k].line <= more[lines[k].from]
      BY <1>3, <3>2, <3>3
    <3>5. ASSUME NEW j \in i + 1 .. Len(all), all[j].from = lines[k].from PROVE all[j].line > lines[k].line
      <4>1. CASE j = last
        BY <1>1, <3>2, <3>3, <3>5, <4>1
      <4>2. CASE j # last
        <5>1. Len(all) = Len(lines) - d + 1 /\ j \in Int /\ i + 1 <= j /\ j <= Len(all)
          BY <1>0, <1>1, <1>2, <3>0
        <5>2. j \in 1 .. Len(lines) - d
          BY SMTT(30), <1>0, <1>1, <1>2, <3>0, <4>2, <5>1
        <5>3. j + d \in k + 1 .. Len(lines)
          BY <1>2, <3>0, <5>1, <5>2
        <5>4. all[j] = lines[j + d]
          BY <1>1, <5>2
        <5> QED
          BY <3>3, <3>5, <5>3, <5>4
      <4> QED
        BY <4>1, <4>2
    <3>6. ASSUME NEW n \in lines[k].line + 1 .. more[lines[k].from]
          PROVE  \E j \in i + 1 .. Len(all) : all[j] = [from |-> lines[k].from, line |-> n]
      <4>1. CASE n <= read[lines[k].from]
        <5>1. PICK j \in k + 1 .. Len(lines) : lines[j] = [from |-> lines[k].from, line |-> n]
          BY <3>2, <3>3, <4>1
        <5>2. j - d \in i + 1 .. Len(all) /\ j - d \in 1 .. Len(lines) - d /\ (j - d) + d = j
          BY SMTT(30), <1>0, <1>1, <1>2, <3>0, <5>1
        <5>3. all[j - d] = lines[j]
          BY <1>1, <5>2
        <5> QED
          BY <5>1, <5>2, <5>3
      <4>2. CASE n > read[lines[k].from]
        <5>1. lines[k].from = s /\ n = read[s] + 1
          BY <1>3, <3>2, <4>2
        <5>2. last \in i + 1 .. Len(all) /\ all[last] = [from |-> lines[k].from, line |-> n]
          BY <1>0, <1>1, <1>2, <1>5, <3>0, <5>1
        <5> QED
          BY <5>2
      <4> QED
        BY <1>3, <3>2, <4>1, <4>2
    <3> QED
      BY <3>1, <3>4, <3>5, <3>6
  <2> QED
    BY <1>1, <1>2, <2>1, <2>2
<1>7. Len(all) = (IF more["stdout"] + more["stderr"] < OutputLines THEN more["stdout"] + more["stderr"] ELSE OutputLines)
  <2>1. "stdout" \in Streams /\ "stderr" \in Streams /\ s \in {"stdout", "stderr"}
    BY DEF Streams
  <2>2. more["stdout"] + more["stderr"] = read["stdout"] + read["stderr"] + 1
    BY <1>3, <2>1
  <2>3. read["stdout"] + read["stderr"] \in Int
    BY <2>1
  <2>4. Len(lines) = (IF read["stdout"] + read["stderr"] < OutputLines THEN read["stdout"] + read["stderr"]
                                                                      ELSE OutputLines)
    BY DEF ShowsTail
  <2>5. Len(all) = Len(lines) - d + 1 /\ OutputLines \in Nat \ {0}
    BY <1>0, <1>1, ProcessSorts
  <2>6. CASE Len(lines) >= OutputLines
    BY <1>2, <2>2, <2>3, <2>4, <2>5, <2>6
  <2>7. CASE Len(lines) < OutputLines
    BY <1>2, <2>2, <2>3, <2>4, <2>5, <2>7
  <2> QED
    BY <1>2, <2>5, <2>6, <2>7
<1>8. ShowsTail(all, more)
  <2>1. DOMAIN all = 1..Len(all)
    BY <1>1
  <2> QED
    BY <1>6, <1>7, <2>1 DEF ShowsTail
<1> QED
  BY <1>8 DEF all

\* A reader pushes the line that comes next in its stream.
LEMMA PushOutputInv == ASSUME ProcessInv, NEW s \in Streams, PushOutput(s) PROVE ProcessInv'
<1> USE DEF ProcessInv
<1>1. ToolTypes' /\ ToolsKnow' /\ ExitIsReaped' /\ StopsItsChild'
  BY OutputMoves DEF PushOutput, childVars
<1> DEFINE new == [from |-> s, line |-> Head(pipe[s])]
<1>2. /\ pipe \in [Streams -> Seq(Nat)] /\ pipe[s] \in Seq(Nat) /\ pipe[s] # <<>> /\ pipe' = [pipe EXCEPT ![s] = Tail(pipe[s])]
      /\ shownLines' = Pushed(shownLines, new) /\ UNCHANGED <<said, saying, lineReader, lost>>
  BY DEF PushOutput, OutputTypes, childVars
<1>3. /\ Tail(pipe[s]) \in Seq(Nat) /\ Len(Tail(pipe[s])) = Len(pipe[s]) - 1 /\ Len(pipe[s]) \in Nat \ {0}
      /\ \A i \in 1 .. Len(pipe[s]) - 1 : Tail(pipe[s])[i] = pipe[s][i + 1]
      /\ Head(pipe[s]) = pipe[s][1] /\ Head(pipe[s]) \in Nat
  BY <1>2
<1>4. Read \in [Streams -> Int] /\ \A r \in Streams : Read[r] = ReadOf(r) /\ ReadOf(r) \in Int
  <2>1. ASSUME NEW r \in Streams PROVE ReadOf(r) \in Int
    BY ProcessSorts DEF OutputTypes, ReadOf
  <2> QED
    BY <2>1 DEF Read
<1>5. new \in ShownLines /\ new.from = s /\ new.line = Read[s] + 1
  <2>1. pipe[s][1] = ReadOf(s) + 1
    BY <1>3 DEF OutputIsTail
  <2> QED
    BY <1>3, <1>4, <2>1 DEF ShownLines
<1>6. \A r \in Streams : ReadOf(r)' = IF r = s THEN ReadOf(r) + 1 ELSE ReadOf(r)
  <2> SUFFICES ASSUME NEW r \in Streams PROVE ReadOf(r)' = IF r = s THEN ReadOf(r) + 1 ELSE ReadOf(r)
    OBVIOUS
  <2>1. said[r] \in Int /\ Len(pipe[r]) \in Nat /\ lost[r] \in Nat
    BY ProcessSorts DEF OutputTypes
  <2>2. CASE r = s
    BY <1>2, <1>3, <2>1, <2>2 DEF ReadOf
  <2>3. CASE r # s
    BY <1>2, <2>1, <2>3 DEF ReadOf
  <2> QED
    BY <2>2, <2>3
<1>7. Read' = [Read EXCEPT ![s] = Read[s] + 1]
  BY <1>4, <1>6 DEF Read
<1>8. shownLines \in Seq(ShownLines) /\ Len(shownLines) <= OutputLines /\ TailIsShown
  BY OutputParts DEF OutputTypes
<1> HIDE DEF new
<1>9. OutputTypes'
  <2> DEFINE d == Leaving(shownLines)
  <2>1. Pushed(shownLines, new) \in Seq(ShownLines) /\ Len(Pushed(shownLines, new)) = Len(shownLines) - d + 1
    BY <1>5, <1>8, PushedLines
  <2>2. Len(shownLines) - d + 1 <= OutputLines
    BY <1>8, ProcessSorts DEF Leaving
  <2>3. pipe' \in [Streams -> Seq(Nat)] /\ \A r \in Streams : Len(pipe'[r]) <= PipeRoom
    BY <1>2, <1>3, ProcessSorts DEF OutputTypes
  <2> HIDE DEF d
  <2> QED
    BY <1>2, <2>1, <2>2, <2>3 DEF OutputTypes
<1>10. TailIsShown'
  <2>1. ShowsTail(Pushed(shownLines, new), [Read EXCEPT ![s] = Read[s] + 1])
    BY <1>4, <1>5, <1>8, PushedIsTail DEF TailIsShown
  <2> QED
    BY <1>2, <1>7, <2>1 DEF TailIsShown, ShowsTail
<1>11. PipesAreNumbered'
  <2> SUFFICES ASSUME NEW r \in Streams, NEW i \in DOMAIN pipe'[r] PROVE pipe'[r][i] = ReadOf(r)' + i
    BY DEF PipesAreNumbered
  <2>1. CASE r # s
    BY <1>2, <1>6, <2>1 DEF OutputIsTail
  <2>2. CASE r = s
    <3>1. i \in 1 .. Len(pipe[s]) - 1 /\ pipe'[r] = Tail(pipe[s])
      BY <1>2, <1>3, <2>2
    <3>2. pipe[s][i + 1] = ReadOf(s) + (i + 1)
      BY <1>2, <1>3, <3>1 DEF OutputIsTail
    <3> QED
      BY <1>3, <1>4, <1>6, <2>2, <3>1, <3>2
  <2> QED
    BY <2>1, <2>2
<1>12. LostWhenBroken'
  <2> SUFFICES ASSUME NEW r \in Streams
               PROVE  IF lineReader'[r] = "broken" THEN pipe'[r] = <<>> ELSE lost'[r] = 0
    BY DEF LostWhenBroken
  <2>1. IF lineReader[r] = "broken" THEN pipe[r] = <<>> ELSE lost[r] = 0
    BY DEF OutputIsTail
  <2>2. r # s => pipe'[r] = pipe[r]
    BY <1>2
  <2> QED
    BY <1>2, <2>1, <2>2
<1>13. OutputIsTail'
  BY <1>9, <1>10, <1>11, <1>12, OutputParts, PTL
<1>14. ReadersAreStarted'
  BY DEF PushOutput, ReadersAreStarted
<1> QED
  BY <1>1, <1>9, <1>13, <1>14

\* Every step keeps it.
LEMMA ProcessStep == ProcessInv /\ [ProcessNext]_processVars => ProcessInv'
<1> SUFFICES ASSUME ProcessInv, [ProcessNext]_processVars PROVE ProcessInv'
  OBVIOUS
<1>1. CASE UNCHANGED processVars
  <2>1. UNCHANGED <<registered, mutex, exited, reaper, child, readsInput, input, strayKill, toolVars>>
        /\ UNCHANGED <<outputVars, saying, said, pipe>>
    BY <1>1 DEF processVars, childVars
  <2> QED
    BY <2>1, OutputMoves, OutputKept DEF ProcessInv, ReadersAreStarted, outputVars
<1>2. CASE StartProcess \/ Reap \/ ChildServes \/ ChildExits \/ ChildDies
  BY <1>2, StartProcessInv, ReapInv, ChildWritesInv, ChildWritesInVainInv, ChildReadsInv, ChildEndsInv DEF ChildServes
<1>3. CASE \E t \in Tools : CallTool(t) \/ ToolRuns(t)
  BY <1>3, CallToolInv, LookUpInv, ReadOutputInv, BeginWriteInv, WriteOnInv, WriteBreaksInv, StopChecksInv,
     KillGroupInv, AwaitChildInv, PollPortInv, ConnectInv DEF ToolRuns
<1>4. CASE \E s \in Streams : LineReader(s) \/ ReadBreaks(s) \/ ChildSays(s)
  BY <1>4, PushOutputInv, ReadBreaksInv, ReadToEndInv, ChildSaysInv DEF LineReader
<1> QED
  BY <1>1, <1>2, <1>3, <1>4 DEF ProcessNext

\* Along every behaviour.
THEOREM ProcessInvariance == ProcessSpec => []ProcessInv
  BY ProcessInitInv, ProcessStep, PTL DEF ProcessSpec

\* It has the types.
LEMMA ProcessInvIsTyped == ProcessInv => ProcessTypeOK
<1> SUFFICES ASSUME ProcessInv PROVE ProcessTypeOK
  OBVIOUS
<1>1. \A t \in Tools : left[t] \in 0..(MaxWrite + MaxPolls)
  BY DEF ProcessInv, ToolTypes
<1> QED
  BY <1>1 DEF ProcessInv, ProcessTypeOK, ToolTypes, OutputTypes, ToolStates, ChildStates

-----------------------------------------------------------------------------
(* A command in a shell *)

\* The bytes of a narrow and of a wide character, and of a text.
Byte == {"n", "w", "ide"}
TextByte == {"n", "w", "ide", "re", "pla", "ce"}

\* The types of a command.
CommandTypes ==
    /\ how \in {"streaming", "capture"} /\ shell \in {"none", "up", "killed", "zombie", "reaped"} /\ code \in {0, 1}
    /\ survivor \in {"none", "group", "session"} /\ copier \in {"reading", "ended", "panicked"}
    /\ waiter \in {"idle", "polling", "awaiting", "joining", "returned", "panicked"}
    /\ verdict \in {"none", "exited", "timedOut"}
    /\ terminal \in {<<>>, Narrow, Wide, Stray}
    /\ written \in Seq(Byte) /\ Len(written) <= MaxBytes
    /\ decoded \in Seq(TextByte)
    /\ captured \in Seq(TextByte) /\ Len(captured) <= ByteLimit
    /\ output \in Seq(TextByte) /\ Len(output) <= ByteLimit
    /\ told \in Seq(TextByte) /\ Len(told) <= Len(decoded)

\* A waiter that is past the shell has reaped it; after the deadline the shell cannot fork any more.
WaiterKnows ==
    /\ (waiter = "idle") = (shell = "none")
    /\ waiter \in {"idle", "polling"} => verdict = "none"
    /\ waiter \in {"joining", "returned", "panicked"} => shell = "reaped"
    /\ verdict = "timedOut" => shell # "up" /\ survivor # "group"
    /\ waiter = "returned" => copier # "reading" /\ output = captured

\* The copier has kept the beginning of the text it has read, and told all of it; a panic comes only
\* where the limit is inside a character of that text.
CopierKnows ==
    /\ copier # "panicked" => captured = Beginning(decoded) /\ (how = "streaming" => told = decoded)
    /\ copier = "ended" => terminal = <<>>
    /\ copier = "panicked" =>
          captured = <<>> /\ ByteLimit < Len(decoded) /\ ~StartsCharacter(decoded[ByteLimit + 1])

\* A byte is spoiled, in these bytes and with these ends of reads.
SpoiledBy(bytes, cuts, i) ==
    \/ bytes[i] = "w" /\ i \in cuts
    \/ bytes[i] = "ide" /\ (i = 1 \/ bytes[i - 1] # "w" \/ i - 1 \in cuts)

\* The terminal has the last of the bytes that were written, of which the first is spoiled if it is
\* no character: then a read has ended before it, like every read ends where the next begins.
TerminalHolds ==
    /\ BytesRead \in Nat /\ ends \subseteq 1..BytesRead /\ (BytesRead # 0 => BytesRead \in ends)
    /\ \A k \in 1 .. Len(terminal) : written[BytesRead + k] = terminal[k]
    /\ terminal = Stray => SpoiledBy(written, ends, BytesRead + 1)

\* The text comes from the bytes that were read.
TextShows ==
    /\ origin \in Seq(Nat) /\ Len(origin) = Len(decoded)
    /\ \A j \in 1 .. Len(decoded) :
          /\ origin[j] \in 1..BytesRead
          /\ origin[j] = IF j = 1 THEN 1
                         ELSE IF decoded[j] \in {"pla", "ce"} THEN origin[j - 1] ELSE origin[j - 1] + 1
          /\ IF SpoiledBy(written, ends, origin[j])
             THEN decoded[j] \in {"re", "pla", "ce"}
             ELSE decoded[j] = written[origin[j]]
    /\ IF decoded = <<>> THEN BytesRead = 0 ELSE origin[Len(origin)] = BytesRead

\* So the text shows them.
LEMMA TextShown ==
    ASSUME TextShows, decoded \in Seq(TextByte)
    PROVE  Shows(BytesRead)
<1>1. \A i : Spoiled(i) <=> SpoiledBy(written, ends, i)
  BY DEF Spoiled, SpoiledBy
<1>2. DOMAIN decoded = 1 .. Len(decoded)
  OBVIOUS
<1> QED
  BY <1>1, <1>2 DEF TextShows, Shows

\* The inductive invariant of a command.
CommandInv == CommandTypes /\ WaiterKnows /\ CopierKnows /\ TerminalHolds /\ TextShows

\* The constants.
LEMMA ByteSorts == ByteLimit \in Nat \ {0} /\ MaxBytes \in Nat \ {0}
  BY ShellCommandAssumption

\* What there is of a character in a chunk.
LEMMA ChunkBytes ==
    /\ Narrow \in Seq(Byte) /\ Len(Narrow) = 1 /\ Narrow[1] = "n"
    /\ Wide \in Seq(Byte) /\ Len(Wide) = 2 /\ Wide[1] = "w" /\ Wide[2] = "ide"
    /\ Half \in Seq(Byte) /\ Len(Half) = 1 /\ Half[1] = "w"
    /\ Stray \in Seq(Byte) /\ Len(Stray) = 1 /\ Stray[1] = "ide"
  BY DEF Narrow, Wide, Half, Stray, Byte

\* The chunks are different.
LEMMA ChunksDiffer ==
    /\ Narrow # Wide /\ Half # Narrow /\ Half # Wide /\ Stray # Narrow /\ Stray # Wide /\ Half # Stray
    /\ Narrow # <<>> /\ Wide # <<>> /\ Stray # <<>>
<1>1. Len(<<>>) = 0 /\ \A x, y : x = y => Len(x) = Len(y) /\ x[1] = y[1]
  OBVIOUS
<1>2. /\ Len(Narrow) = 1 /\ Len(Wide) = 2 /\ Len(Half) = 1 /\ Len(Stray) = 1
      /\ Narrow[1] = "n" /\ Wide[1] = "w" /\ Half[1] = "w" /\ Stray[1] = "ide"
  BY ChunkBytes
<1>3. Narrow # Wide /\ Half # Wide /\ Stray # Wide
  <2>1. Len(Narrow) # Len(Wide) /\ Len(Half) # Len(Wide) /\ Len(Stray) # Len(Wide)
    BY <1>2
  <2> QED
    BY <1>1, <2>1, Zenon
<1>4. Half # Narrow /\ Stray # Narrow /\ Half # Stray
  <2>1. Half[1] # Narrow[1] /\ Stray[1] # Narrow[1] /\ Half[1] # Stray[1]
    BY <1>2
  <2> QED
    BY <1>1, <2>1, Zenon
<1>5. Narrow # <<>> /\ Wide # <<>> /\ Stray # <<>>
  <2>1. Len(Narrow) # Len(<<>>) /\ Len(Wide) # Len(<<>>) /\ Len(Stray) # Len(<<>>)
    BY <1>1, <1>2
  <2> QED
    BY <1>1, <2>1, Zenon
<1> QED
  BY <1>3, <1>4, <1>5

\* The replacement character.
LEMMA ReplacementBytes ==
    /\ Replacement \in Seq(TextByte) /\ Len(Replacement) = 3
    /\ Replacement[1] = "re" /\ Replacement[2] = "pla" /\ Replacement[3] = "ce"
  BY DEF Replacement, TextByte

\* The text of a character is the character, and that of anything else the replacement character.
LEMMA TextBytes ==
    /\ Text(Narrow) = Narrow /\ Text(Wide) = Wide /\ Text(Half) = Replacement /\ Text(Stray) = Replacement
  BY ChunksDiffer DEF Text

\* Texts have bytes of texts and begin with the first byte of a character.
LEMMA TextsOfReads ==
    ASSUME terminal \in {<<>>, Narrow, Wide, Stray}, terminal # <<>>, NEW chunk \in Reads
    PROVE  /\ chunk \in {Narrow, Wide, Half, Stray}
           /\ Text(chunk) \in Seq(TextByte) /\ Len(Text(chunk)) > 0 /\ StartsCharacter(Text(chunk)[1])
<1>1. chunk \in {Narrow, Wide, Half, Stray}
  BY DEF Reads
<1>2. Narrow \in Seq(TextByte) /\ Wide \in Seq(TextByte)
  BY DEF Narrow, Wide, TextByte
<1>3. CASE chunk = Narrow
  BY <1>2, <1>3, TextBytes, ChunkBytes DEF StartsCharacter
<1>4. CASE chunk = Wide
  BY <1>2, <1>4, TextBytes, ChunkBytes DEF StartsCharacter
<1>5. CASE chunk \in {Half, Stray}
  BY <1>5, TextBytes, ReplacementBytes DEF StartsCharacter
<1> QED
  BY <1>1, <1>3, <1>4, <1>5

\* The beginning of some bytes.
LEMMA BeginningBytes ==
    ASSUME NEW bytes \in Seq(TextByte)
    PROVE  /\ Beginning(bytes) \in Seq(TextByte)
           /\ Len(Beginning(bytes)) = (IF Len(bytes) > ByteLimit THEN ByteLimit ELSE Len(bytes))
           /\ \A i \in 1 .. Len(Beginning(bytes)) : Beginning(bytes)[i] = bytes[i]
           /\ Len(bytes) <= ByteLimit => Beginning(bytes) = bytes
<1> DEFINE n == IF Len(bytes) > ByteLimit THEN ByteLimit ELSE Len(bytes)
<1>1. n \in Nat /\ n <= Len(bytes) /\ Len(bytes) \in Nat
  BY ByteSorts
<1>2. Beginning(bytes) = SubSeq(bytes, 1, n)
  BY DEF Beginning
<1>3. n = (IF Len(bytes) > ByteLimit THEN ByteLimit ELSE Len(bytes))
  OBVIOUS
<1> HIDE DEF n
<1>4. \A i \in 1..n : bytes[i] \in TextByte
  BY <1>1
<1>5. /\ SubSeq(bytes, 1, n) \in Seq(TextByte)
      /\ Len(SubSeq(bytes, 1, n)) = IF 1 <= n THEN n - 1 + 1 ELSE 0
      /\ \A i \in 1 .. n - 1 + 1 : SubSeq(bytes, 1, n)[i] = bytes[1 + i - 1]
  BY <1>1, <1>4, SubSeqProperties
<1>6. Len(Beginning(bytes)) = n /\ \A i \in 1..n : Beginning(bytes)[i] = bytes[i]
  BY <1>1, <1>2, <1>5
<1>7. Len(bytes) <= ByteLimit => Beginning(bytes) = bytes
  BY <1>1, <1>2, <1>3, SubSeqFull, ByteSorts
<1> QED
  BY <1>2, <1>3, <1>5, <1>6, <1>7

\* The beginning of more bytes needs only the beginning of those there are; and a beginning that is
\* full stays as it is.
LEMMA BeginningGrows ==
    ASSUME NEW bytes \in Seq(TextByte), NEW more \in Seq(TextByte)
    PROVE  /\ Beginning(Beginning(bytes) \o more) = Beginning(bytes \o more)
           /\ Len(Beginning(bytes)) >= ByteLimit => Beginning(bytes) = Beginning(bytes \o more)
<1>1. CASE Len(bytes) <= ByteLimit /\ Len(Beginning(bytes)) < ByteLimit
  <2>1. Beginning(bytes) = bytes
    BY <1>1, BeginningBytes
  <2>2. ~(Len(Beginning(bytes)) >= ByteLimit)
    BY <1>1, <2>1, LenProperties, ByteSorts
  <2> QED
    BY <2>1, <2>2
<1>2. CASE Len(bytes) >= ByteLimit
  <2> DEFINE kept == Beginning(bytes)
  <2>1. kept \in Seq(TextByte) /\ Len(kept) = ByteLimit /\ \A i \in 1..ByteLimit : kept[i] = bytes[i]
    BY SMTT(30), <1>2, BeginningBytes, ByteSorts
  <2> HIDE DEF kept
  <2> DEFINE all == kept \o more  whole == bytes \o more
  <2>2. /\ all \in Seq(TextByte) /\ Len(all) = ByteLimit + Len(more) /\ Len(more) \in Nat
        /\ \A i \in 1..ByteLimit : all[i] = kept[i]
    <3>1. /\ all \in Seq(TextByte) /\ Len(all) = Len(kept) + Len(more) /\ Len(more) \in Nat
          /\ \A i \in 1 .. Len(kept) + Len(more) : all[i] = IF i <= Len(kept) THEN kept[i] ELSE more[i - Len(kept)]
      BY <2>1, ConcatProperties, LenProperties
    <3> HIDE DEF all
    <3> QED
      BY <2>1, <3>1, ByteSorts
  <2>3. /\ whole \in Seq(TextByte) /\ Len(whole) >= ByteLimit /\ Len(bytes) \in Nat
        /\ \A i \in 1..ByteLimit : whole[i] = bytes[i]
    <3>1. /\ whole \in Seq(TextByte) /\ Len(whole) = Len(bytes) + Len(more) /\ Len(more) \in Nat /\ Len(bytes) \in Nat
          /\ \A i \in 1 .. Len(bytes) + Len(more) : whole[i] = IF i <= Len(bytes) THEN bytes[i] ELSE more[i - Len(bytes)]
      BY ConcatProperties, LenProperties
    <3> HIDE DEF whole
    <3> QED
      BY <1>2, <3>1, ByteSorts
  <2> HIDE DEF all, whole
  <2>4. Beginning(all) \in Seq(TextByte) /\ Len(Beginning(all)) = ByteLimit /\ \A i \in 1..ByteLimit : Beginning(all)[i] = all[i]
    <3>1. /\ Beginning(all) \in Seq(TextByte)
          /\ Len(Beginning(all)) = (IF Len(all) > ByteLimit THEN ByteLimit ELSE Len(all))
          /\ \A i \in 1 .. Len(Beginning(all)) : Beginning(all)[i] = all[i]
      BY <2>2, BeginningBytes
    <3>2. Len(all) \in Nat /\ Len(all) >= ByteLimit
      BY <2>2, ByteSorts
    <3> QED
      BY <3>1, <3>2, ByteSorts
  <2>5. Beginning(whole) \in Seq(TextByte) /\ Len(Beginning(whole)) = ByteLimit
        /\ \A i \in 1..ByteLimit : Beginning(whole)[i] = whole[i]
    <3>1. /\ Beginning(whole) \in Seq(TextByte)
          /\ Len(Beginning(whole)) = (IF Len(whole) > ByteLimit THEN ByteLimit ELSE Len(whole))
          /\ \A i \in 1 .. Len(Beginning(whole)) : Beginning(whole)[i] = whole[i]
      BY <2>3, BeginningBytes
    <3>2. Len(whole) \in Nat /\ Len(whole) >= ByteLimit
      BY <2>3, ByteSorts
    <3> QED
      BY <3>1, <3>2, ByteSorts
  <2>6. Beginning(all) = Beginning(whole)
    BY <2>1, <2>2, <2>3, <2>4, <2>5, SeqEqual
  <2>7. kept = Beginning(whole)
    BY <2>1, <2>3, <2>5, SeqEqual
  <2> QED
    BY <2>6, <2>7 DEF kept, all, whole
<1>3. CASE Len(bytes) <= ByteLimit /\ Len(Beginning(bytes)) >= ByteLimit
  <2>1. Beginning(bytes) = bytes /\ Len(bytes) \in Nat
    BY <1>3, BeginningBytes
  <2> QED
    BY <1>2, <1>3, <2>1, ByteSorts
<1>4. Len(bytes) \in Nat /\ Len(Beginning(bytes)) \in Nat
  BY BeginningBytes, LenProperties
<1> QED
  BY <1>1, <1>2, <1>3, <1>4, ByteSorts

\* It holds in the beginning.
LEMMA CommandInitInv == CommandInit => CommandInv
<1> SUFFICES ASSUME CommandInit PROVE CommandInv
  OBVIOUS
<1>1. /\ how \in {"streaming", "capture"} /\ waiter = "idle" /\ shell = "none" /\ code = 0 /\ survivor = "none"
      /\ written = <<>> /\ terminal = <<>> /\ decoded = <<>> /\ origin = <<>> /\ ends = {} /\ copier = "reading"
      /\ captured = <<>> /\ told = <<>> /\ verdict = "none" /\ output = <<>>
  BY DEF CommandInit
<1>2. \A S : <<>> \in Seq(S)
  OBVIOUS
<1>3. Len(<<>>) = 0 /\ DOMAIN <<>> = {}
  OBVIOUS
<1>4. Beginning(decoded) = decoded
  <2>1. decoded \in Seq(TextByte) /\ Len(decoded) <= ByteLimit
    BY <1>1, <1>2, <1>3, ByteSorts
  <2> QED
    BY <2>1, BeginningBytes
<1>5. CommandTypes
  BY <1>1, <1>2, <1>3, ByteSorts DEF CommandTypes
<1>6. WaiterKnows
  BY <1>1 DEF WaiterKnows
<1>7. CopierKnows
  BY <1>1, <1>4 DEF CopierKnows
<1>8. BytesRead = 0
  BY <1>1, <1>3 DEF BytesRead
<1>9. TerminalHolds
  BY <1>1, <1>3, <1>8, ChunksDiffer DEF TerminalHolds
<1>10. TextShows
  BY <1>1, <1>2, <1>3, <1>8 DEF TextShows
<1> QED
  BY <1>5, <1>6, <1>7, <1>9, <1>10 DEF CommandInv

\* Nothing is written, read or told.
LEMMA CopierKept ==
    ASSUME CopierKnows, UNCHANGED <<how, terminal, copier, decoded, captured, told>>
    PROVE  CopierKnows'
  BY DEF CopierKnows

\* Nothing is written or read.
LEMMA ReaderKept ==
    ASSUME TerminalHolds, TextShows, UNCHANGED <<written, terminal, decoded, origin, ends>>
    PROVE  TerminalHolds' /\ TextShows'
<1>1. BytesRead' = BytesRead
  BY DEF BytesRead
<1>2. TerminalHolds'
  BY <1>1 DEF TerminalHolds
<1>3. TextShows'
  BY <1>1 DEF TextShows
<1> QED
  BY <1>2, <1>3

\* A step of the shell or of the bytes alone keeps the types of the others.
LEMMA TypesKept ==
    ASSUME CommandTypes, UNCHANGED <<how, shell, code, survivor, copier, waiter, verdict>>,
           UNCHANGED <<terminal, written, decoded, captured, output, told>>
    PROVE  CommandTypes'
<1>1. /\ Len(told') = Len(told) /\ Len(written') = Len(written) /\ Len(captured') = Len(captured)
      /\ Len(output') = Len(output) /\ Len(decoded') = Len(decoded)
  OBVIOUS
<1>2. /\ written' \in Seq(Byte) /\ captured' \in Seq(TextByte) /\ output' \in Seq(TextByte) /\ told' \in Seq(TextByte)
      /\ decoded' \in Seq(TextByte)
  BY DEF CommandTypes
<1>3. terminal' \in {<<>>, Narrow, Wide, Stray}
  BY DEF CommandTypes
<1>4. Len(written') <= MaxBytes /\ Len(captured') <= ByteLimit /\ Len(output') <= ByteLimit /\ Len(told') <= Len(decoded')
  BY <1>1 DEF CommandTypes
<1>5. /\ how' \in {"streaming", "capture"} /\ shell' \in {"none", "up", "killed", "zombie", "reaped"} /\ code' \in {0, 1}
      /\ survivor' \in {"none", "group", "session"} /\ copier' \in {"reading", "ended", "panicked"}
      /\ waiter' \in {"idle", "polling", "awaiting", "joining", "returned", "panicked"}
      /\ verdict' \in {"none", "exited", "timedOut"}
  BY DEF CommandTypes
<1> QED
  BY <1>2, <1>3, <1>4, <1>5 DEF CommandTypes

\* The shell starts, forks and ends, which the copier and the waiter do not see.
LEMMA ShellInv ==
    ASSUME CommandInv, RunCommand \/ ShellForks \/ ShellExits \/ ShellDies \/ SurvivorExits
    PROVE  CommandInv'
<1>1. CopierKnows'
  BY CopierKept DEF CommandInv, RunCommand, ShellForks, ShellExits, ShellDies, SurvivorExits, readVars
<1>2. CommandTypes'
  BY DEF CommandInv, CommandTypes, RunCommand, ShellForks, ShellExits, ShellDies, SurvivorExits, readVars
<1>3. WaiterKnows'
  BY DEF CommandInv, CommandTypes, WaiterKnows, RunCommand, ShellForks, ShellExits, ShellDies, SurvivorExits
<1>4. TerminalHolds' /\ TextShows'
  BY ReaderKept DEF CommandInv, RunCommand, ShellForks, ShellExits, ShellDies, SurvivorExits, readVars
<1> QED
  BY <1>1, <1>2, <1>3, <1>4 DEF CommandInv

\* What is known of the bytes that are read stays so, when more are written and more reads end.
LEMMA SpoiledStays ==
    ASSUME NEW b \in Nat, NEW i \in 1..b,
           \A e \in 1..b : (e \in ends' <=> e \in ends) /\ written'[e] = written[e]
    PROVE  SpoiledBy(written', ends', i) <=> SpoiledBy(written, ends, i)
<1>1. (i \in ends' <=> i \in ends) /\ written'[i] = written[i]
  OBVIOUS
<1>2. i # 1 => (i - 1 \in ends' <=> i - 1 \in ends) /\ written'[i - 1] = written[i - 1]
  OBVIOUS
<1> QED
  BY <1>1, <1>2 DEF SpoiledBy

\* A character, or a byte that is none, is written to an empty terminal.
LEMMA SomebodyWritesInv == ASSUME CommandInv, SomebodyWrites PROVE CommandInv'
<1> USE DEF CommandInv
<1>1. PICK chunk \in {Narrow, Wide, Stray} :
          Len(written \o chunk) <= MaxBytes /\ terminal' = chunk /\ written' = written \o chunk
  BY DEF SomebodyWrites
<1>2. /\ terminal = <<>> /\ copier = "reading"
      /\ UNCHANGED <<how, shell, code, survivor, copier, captured, told, waiter, verdict, output>>
      /\ UNCHANGED <<decoded, origin, ends>>
  BY DEF SomebodyWrites, readVars
<1>3. chunk \in Seq(Byte) /\ Len(chunk) \in Nat
  BY ChunkBytes
<1>4. written \in Seq(Byte) /\ Len(written) \in Nat
  BY LenProperties DEF CommandTypes
<1>5. /\ written' \in Seq(Byte) /\ Len(written') = Len(written) + Len(chunk) /\ Len(written') <= MaxBytes
      /\ \A i \in 1 .. Len(written) : written'[i] = written[i]
      /\ \A k \in 1 .. Len(chunk) : written'[Len(written) + k] = chunk[k]
  <2>1. /\ written' \in Seq(Byte) /\ Len(written') = Len(written) + Len(chunk) /\ Len(written') <= MaxBytes
        /\ \A i \in 1 .. Len(written) + Len(chunk) :
              written'[i] = IF i <= Len(written) THEN written[i] ELSE chunk[i - Len(written)]
    BY <1>1, <1>3, <1>4, ConcatProperties
  <2>2. ASSUME NEW k \in 1 .. Len(chunk) PROVE written'[Len(written) + k] = chunk[k]
    <3>1. Len(written) + k \in 1 .. Len(written) + Len(chunk) /\ ~(Len(written) + k <= Len(written))
          /\ (Len(written) + k) - Len(written) = k
      BY <1>3, <1>4
    <3> QED
      BY <2>1, <3>1
  <2>3. \A i \in 1 .. Len(written) : i \in 1 .. Len(written) + Len(chunk) /\ i <= Len(written)
    BY <1>3, <1>4
  <2> QED
    BY <2>1, <2>2, <2>3
<1>6. CommandTypes'
  <2>1. /\ how' \in {"streaming", "capture"} /\ shell' \in {"none", "up", "killed", "zombie", "reaped"} /\ code' \in {0, 1}
        /\ survivor' \in {"none", "group", "session"} /\ copier' \in {"reading", "ended", "panicked"}
        /\ waiter' \in {"idle", "polling", "awaiting", "joining", "returned", "panicked"}
        /\ verdict' \in {"none", "exited", "timedOut"}
    BY <1>2 DEF CommandTypes
  <2>2. terminal' \in {<<>>, Narrow, Wide, Stray}
    BY <1>1
  <2>3. /\ captured' \in Seq(TextByte) /\ Len(captured') <= ByteLimit /\ decoded' \in Seq(TextByte)
        /\ output' \in Seq(TextByte) /\ Len(output') <= ByteLimit /\ told' \in Seq(TextByte)
    BY <1>2 DEF CommandTypes
  <2>4. Len(told') <= Len(decoded')
    BY <1>2 DEF CommandTypes
  <2> QED
    BY <1>5, <2>1, <2>2, <2>3, <2>4 DEF CommandTypes
<1>7. WaiterKnows'
  BY <1>2 DEF WaiterKnows
<1>8. CopierKnows'
  BY <1>2 DEF CopierKnows
<1>9. BytesRead = Len(written) /\ BytesRead' = Len(written)
  <2>1. Len(<<>>) = 0
    OBVIOUS
  <2> QED
    BY <1>1, <1>2, <1>3, <1>4, <1>5, <2>1 DEF BytesRead
<1>10. \A i \in 1 .. Len(written) : SpoiledBy(written', ends', i) <=> SpoiledBy(written, ends, i)
  BY <1>2, <1>4, <1>5, SpoiledStays
<1>11. TerminalHolds'
  <2>1. /\ ends' \subseteq 1 .. Len(written) /\ (Len(written) # 0 => Len(written) \in ends')
    BY <1>2, <1>9 DEF TerminalHolds
  <2>2. terminal' = Stray => SpoiledBy(written', ends', Len(written) + 1)
    <3> SUFFICES ASSUME terminal' = Stray PROVE SpoiledBy(written', ends', Len(written) + 1)
      OBVIOUS
    <3>1. written'[Len(written) + 1] = "ide"
      BY <1>1, <1>5, ChunkBytes
    <3>2. Len(written) + 1 = 1 \/ (Len(written) + 1) - 1 \in ends'
      BY <1>4, <2>1
    <3> QED
      BY <3>1, <3>2 DEF SpoiledBy
  <2> QED
    BY <1>1, <1>4, <1>5, <1>9, <2>1, <2>2 DEF TerminalHolds
<1>12. TextShows'
  <2>1. \A j \in 1 .. Len(decoded) :
          /\ origin[j] \in 1 .. Len(written)
          /\ origin[j] = IF j = 1 THEN 1
                         ELSE IF decoded[j] \in {"pla", "ce"} THEN origin[j - 1] ELSE origin[j - 1] + 1
          /\ IF SpoiledBy(written', ends', origin[j])
             THEN decoded[j] \in {"re", "pla", "ce"}
             ELSE decoded[j] = written'[origin[j]]
    BY <1>5, <1>9, <1>10 DEF TextShows
  <2>2. /\ origin \in Seq(Nat) /\ Len(origin) = Len(decoded)
        /\ IF decoded = <<>> THEN Len(written) = 0 ELSE origin[Len(origin)] = Len(written)
    BY <1>9 DEF TextShows
  <2>3. decoded' = decoded /\ origin' = origin /\ BytesRead' = Len(written)
    BY <1>2, <1>9
  <2> QED
    BY <2>1, <2>2, <2>3 DEF TextShows
<1> QED
  BY <1>6, <1>7, <1>8, <1>11, <1>12

\* What a read takes: the text of a chunk comes from the bytes that follow those that were read, in
\* order, as they are or spoiled.
ChunkShows(b, n, text, from) ==
    /\ Len(from) = Len(text) /\ Len(text) > 0
    /\ from[1] = b + 1 /\ from[Len(text)] = b + n /\ text[1] \notin {"pla", "ce"}
    /\ \A k \in 1 .. Len(text) :
          /\ from[k] \in (b + 1) .. (b + n)
          /\ k > 1 => from[k] = IF text[k] \in {"pla", "ce"} THEN from[k - 1] ELSE from[k - 1] + 1
          /\ IF SpoiledBy(written', ends', from[k]) THEN text[k] \in {"re", "pla", "ce"} ELSE text[k] = written[from[k]]

\* What stays in the terminal is the second byte of a wide character.
LEMMA ReadShows ==
    ASSUME CommandTypes, TerminalHolds, terminal # <<>>, NEW chunk \in Reads, TakesFromTerminal(chunk), written' = written
    PROVE  /\ BytesRead' = BytesRead + Len(chunk) /\ Len(chunk) \in Nat \ {0}
           /\ ends' = ends \union {BytesRead + Len(chunk)}
           /\ terminal' \in {<<>>, Narrow, Wide, Stray}
           /\ \A k \in 1 .. Len(terminal') : written'[BytesRead + Len(chunk) + k] = terminal'[k]
           /\ terminal' = Stray => SpoiledBy(written', ends', BytesRead + Len(chunk) + 1)
           /\ Origin(chunk) \in Seq(Nat)
           /\ ChunkShows(BytesRead, Len(chunk), Text(chunk), Origin(chunk))
<1> DEFINE b == BytesRead
<1>1. /\ terminal' = (IF chunk = terminal THEN <<>> ELSE Stray) /\ ends' = ends \union {b + Len(chunk)}
  BY DEF TakesFromTerminal
<1>2. /\ b \in Nat /\ b = Len(written) - Len(terminal) /\ ends \subseteq 1..b /\ (b # 0 => b \in ends)
      /\ \A k \in 1 .. Len(terminal) : written[b + k] = terminal[k]
      /\ terminal = Stray => SpoiledBy(written, ends, b + 1)
      /\ b' = Len(written) - Len(terminal')
  BY DEF TerminalHolds, BytesRead
<1>3. Len(written) \in Nat /\ terminal \in {Narrow, Wide, Stray} /\ Len(<<>>) = 0
  BY LenProperties DEF CommandTypes
<1>4. Origin(chunk) = [k \in 1 .. Len(Text(chunk)) |-> IF chunk \in {Narrow, Wide} THEN b + k ELSE b + 1]
  BY DEF Origin
<1> HIDE DEF b
<1>5. CASE terminal = Narrow
  <2>1. chunk = Narrow /\ Len(chunk) = 1 /\ terminal' = <<>> /\ Text(chunk) = Narrow /\ Len(terminal) = 1
    BY <1>1, <1>5, ChunkBytes, ChunksDiffer, TextBytes DEF Reads
  <2>2. b' = b + 1 /\ written[b + 1] = "n"
    BY <1>2, <1>3, <1>5, <2>1, ChunkBytes
  <2>3. Origin(chunk) = [k \in 1..1 |-> b + k]
    BY <1>4, <2>1
  <2>4. Origin(chunk) \in Seq(Nat) /\ Len(Origin(chunk)) = 1 /\ Origin(chunk)[1] = b + 1
    BY <1>2, <2>3
  <2>5. ~SpoiledBy(written', ends', b + 1)
    BY <2>2 DEF SpoiledBy
  <2>6. ChunkShows(b, 1, Narrow, Origin(chunk))
    BY <1>2, <2>2, <2>4, <2>5, ChunkBytes DEF ChunkShows
  <2> QED
    BY <1>1, <1>2, <1>3, <2>1, <2>2, <2>4, <2>6, ChunksDiffer DEF b
<1>6. CASE terminal = Wide /\ chunk = Wide
  <2>1. Len(chunk) = 2 /\ terminal' = <<>> /\ Text(chunk) = Wide /\ Len(terminal) = 2
    BY <1>1, <1>6, ChunkBytes, ChunksDiffer, TextBytes DEF Reads
  <2>2. b' = b + 2 /\ written[b + 1] = "w" /\ written[b + 2] = "ide"
    BY <1>2, <1>3, <1>6, <2>1, ChunkBytes
  <2>3. Origin(chunk) = [k \in 1..2 |-> b + k]
    BY <1>4, <1>6, <2>1
  <2>4. Origin(chunk) \in Seq(Nat) /\ Len(Origin(chunk)) = 2 /\ Origin(chunk)[1] = b + 1 /\ Origin(chunk)[2] = b + 2
    BY <1>2, <2>3
  <2>5. b + 1 \notin ends'
    BY <1>1, <1>2, <2>1
  <2>6. ~SpoiledBy(written', ends', b + 1) /\ ~SpoiledBy(written', ends', b + 2)
    <3>1. b + 2 # 1 /\ (b + 2) - 1 = b + 1
      BY <1>2
    <3> QED
      BY <2>2, <2>5, <3>1 DEF SpoiledBy
  <2>7. ChunkShows(b, 2, Wide, Origin(chunk))
    <3> DEFINE from == Origin(chunk)
    <3>1. Len(from) = 2 /\ from[1] = b + 1 /\ from[2] = b + 2
      BY <2>4
    <3> HIDE DEF from
    <3>2. \A k \in 1..2 :
              /\ from[k] \in (b + 1) .. (b + 2)
              /\ k > 1 => from[k] = IF Wide[k] \in {"pla", "ce"} THEN from[k - 1] ELSE from[k - 1] + 1
              /\ IF SpoiledBy(written', ends', from[k]) THEN Wide[k] \in {"re", "pla", "ce"} ELSE Wide[k] = written[from[k]]
      <4>1. from[1] \in (b + 1) .. (b + 2) /\ from[2] \in (b + 1) .. (b + 2) /\ from[2] = from[1] + 1
        BY <1>2, <3>1
      <4>2. ~SpoiledBy(written', ends', from[1]) /\ ~SpoiledBy(written', ends', from[2]) /\ Wide[1] = written[from[1]] /\ Wide[2] = written[from[2]]
        BY <2>2, <2>6, <3>1, ChunkBytes
      <4>3. Wide[2] \notin {"pla", "ce"}
        BY ChunkBytes
      <4>4. \A k \in 1..2 : k = 1 \/ (k = 2 /\ k - 1 = 1)
        OBVIOUS
      <4> QED
        BY <4>1, <4>2, <4>3, <4>4
    <3> QED
      BY <3>1, <3>2, ChunkBytes DEF ChunkShows, from
  <2> QED
    BY <1>1, <1>2, <1>3, <1>6, <2>1, <2>2, <2>4, <2>7, ChunksDiffer DEF b
<1>7. ASSUME chunk \in {Half, Stray}, written[b + 1] \in {"w", "ide"}, SpoiledBy(written', ends', b + 1)
      PROVE  Origin(chunk) \in Seq(Nat) /\ ChunkShows(b, 1, Text(chunk), Origin(chunk))
  <2>1. Text(chunk) = Replacement /\ chunk \notin {Narrow, Wide}
    BY <1>7, TextBytes, ChunksDiffer
  <2>2. Origin(chunk) = [k \in 1..3 |-> b + 1]
    BY <1>4, <2>1, ReplacementBytes
  <2>3. Origin(chunk) \in Seq(Nat) /\ Len(Origin(chunk)) = 3 /\ \A k \in 1..3 : Origin(chunk)[k] = b + 1
    BY <1>2, <2>2
  <2>4. \A k \in 1..3 : Replacement[k] \in {"re", "pla", "ce"} /\ (k > 1 => Replacement[k] \in {"pla", "ce"})
    <3>1. \A k \in 1..3 : k = 1 \/ k = 2 \/ k = 3
      OBVIOUS
    <3> QED
      BY <3>1, ReplacementBytes
  <2> DEFINE from == Origin(chunk)
  <2>5. Len(from) = 3 /\ \A k \in 1..3 : from[k] = b + 1 /\ (k > 1 => from[k - 1] = b + 1)
    BY <2>3
  <2> HIDE DEF from
  <2>6. \A k \in 1..3 :
            /\ from[k] \in (b + 1) .. (b + 1)
            /\ k > 1 => from[k] = IF Replacement[k] \in {"pla", "ce"} THEN from[k - 1] ELSE from[k - 1] + 1
            /\ IF SpoiledBy(written', ends', from[k]) THEN Replacement[k] \in {"re", "pla", "ce"} ELSE Replacement[k] = written[from[k]]
    BY <1>2, <1>7, <2>4, <2>5
  <2>7. ChunkShows(b, 1, Replacement, from)
    BY <2>5, <2>6, ReplacementBytes DEF ChunkShows
  <2> QED
    BY <2>1, <2>3, <2>7 DEF from
<1>8. CASE terminal = Wide /\ chunk = Half
  <2>1. Len(chunk) = 1 /\ terminal' = Stray /\ Len(terminal) = 2 /\ Len(Stray) = 1 /\ Stray[1] = "ide"
    BY <1>1, <1>8, ChunkBytes, ChunksDiffer
  <2>2. b' = b + 1 /\ written[b + 1] = "w" /\ written[b + 2] = "ide" /\ b + 1 \in ends'
    BY <1>1, <1>2, <1>3, <1>8, <2>1, ChunkBytes
  <2>3. SpoiledBy(written', ends', b + 1) /\ SpoiledBy(written', ends', b + 2)
    <3>1. (b + 2) - 1 = b + 1
      BY <1>2
    <3> QED
      BY <2>2, <3>1 DEF SpoiledBy
  <2>4. Origin(chunk) \in Seq(Nat) /\ ChunkShows(b, 1, Text(chunk), Origin(chunk))
    BY <1>7, <1>8, <2>2, <2>3
  <2>5. \A k \in 1 .. Len(terminal') : written'[b + 1 + k] = terminal'[k]
    <3>1. \A k \in 1..1 : k = 1 /\ b + 1 + k = b + 2
      BY <1>2
    <3> QED
      BY <2>1, <2>2, <3>1
  <2>6. SpoiledBy(written', ends', b + 1 + 1)
    <3>1. b + 1 + 1 = b + 2
      BY <1>2
    <3> QED
      BY <2>3, <3>1
  <2> QED
    BY <1>1, <2>1, <2>2, <2>4, <2>5, <2>6 DEF b
<1>9. CASE terminal = Stray
  <2>1. chunk = Stray /\ Len(chunk) = 1 /\ terminal' = <<>> /\ Len(terminal) = 1
    BY <1>1, <1>9, ChunkBytes, ChunksDiffer DEF Reads
  <2>2. b' = b + 1 /\ written[b + 1] = "ide"
    BY <1>2, <1>3, <1>9, <2>1, ChunkBytes
  <2>3. SpoiledBy(written', ends', b + 1)
    <3>1. b + 1 = 1 \/ (b + 1) - 1 \in ends'
      BY <1>1, <1>2
    <3> QED
      BY <2>2, <3>1 DEF SpoiledBy
  <2>4. Origin(chunk) \in Seq(Nat) /\ ChunkShows(b, 1, Text(chunk), Origin(chunk))
    BY <1>7, <2>1, <2>2, <2>3
  <2> QED
    BY <1>1, <1>3, <2>1, <2>2, <2>4, ChunksDiffer DEF b
<1> QED
  BY <1>3, <1>5, <1>6, <1>8, <1>9 DEF Reads

\* So the text shows the bytes that were read up to the end of this read.
LEMMA TakesFromTerminalInv ==
    ASSUME CommandTypes, TerminalHolds, TextShows, terminal # <<>>, NEW chunk \in Reads, TakesFromTerminal(chunk),
           written' = written
    PROVE  /\ TerminalHolds' /\ TextShows' /\ terminal' \in {<<>>, Narrow, Wide, Stray}
           /\ decoded' \in Seq(TextByte) /\ decoded' = decoded \o Text(chunk)
<1>1. PICK b, n : b = BytesRead /\ n = Len(chunk)
  OBVIOUS
<1>2. PICK text, from : text = Text(chunk) /\ from = Origin(chunk)
  OBVIOUS
<1>3. /\ BytesRead' = b + n /\ n \in Nat \ {0} /\ ends' = ends \union {b + n}
      /\ terminal' \in {<<>>, Narrow, Wide, Stray}
      /\ \A k \in 1 .. Len(terminal') : written'[b + n + k] = terminal'[k]
      /\ terminal' = Stray => SpoiledBy(written', ends', b + n + 1)
      /\ from \in Seq(Nat) /\ ChunkShows(b, n, text, from)
  BY <1>1, <1>2, ReadShows
<1>4. text \in Seq(TextByte)
  BY <1>2, TextsOfReads DEF CommandTypes
<1>5. decoded' = decoded \o text /\ origin' = origin \o from
  BY <1>2 DEF TakesFromTerminal
<1>6. b \in Nat /\ ends \subseteq 1..b
  BY <1>1 DEF TerminalHolds
<1>7. TerminalHolds'
  <2>1. BytesRead' \in Nat /\ ends' \subseteq 1 .. BytesRead' /\ BytesRead' \in ends'
    BY <1>3, <1>6
  <2>2. /\ \A k \in 1 .. Len(terminal') : written'[BytesRead' + k] = terminal'[k]
        /\ terminal' = Stray => SpoiledBy(written', ends', BytesRead' + 1)
    BY <1>3
  <2>3. (terminal = Stray)' <=> terminal' = Stray
    BY DEF Stray
  <2> QED
    BY <2>1, <2>2, <2>3 DEF TerminalHolds
<1>8. \A i \in 1..b : SpoiledBy(written', ends', i) <=> SpoiledBy(written, ends, i)
  <2>1. \A e \in 1..b : (e \in ends' <=> e \in ends) /\ written'[e] = written[e]
    BY <1>3, <1>6
  <2> QED
    BY <1>6, <2>1, SpoiledStays
<1> DEFINE d == Len(decoded)
<1>9. decoded \in Seq(TextByte) /\ origin \in Seq(Nat) /\ d \in Nat /\ Len(origin) = d
  BY LenProperties DEF CommandTypes, TextShows
<1>10. \A j \in 1..d : /\ origin[j] \in 1..b
                       /\ origin[j] = IF j = 1 THEN 1
                                      ELSE IF decoded[j] \in {"pla", "ce"} THEN origin[j - 1] ELSE origin[j - 1] + 1
                       /\ IF SpoiledBy(written, ends, origin[j]) THEN decoded[j] \in {"re", "pla", "ce"} ELSE decoded[j] = written[origin[j]]
  BY <1>1, <1>9 DEF TextShows
<1>11. IF d = 0 THEN b = 0 ELSE origin[d] = b
  <2>1. d = 0 <=> decoded = <<>>
    BY <1>9, EmptySeq
  <2> QED
    BY <1>1, <1>9, <2>1 DEF TextShows
<1> HIDE DEF d
<1> DEFINE m == Len(text)
<1>12. m \in Nat /\ m > 0 /\ Len(from) = m
  BY <1>3, <1>4, LenProperties DEF ChunkShows
<1>13. /\ from[1] = b + 1 /\ from[m] = b + n /\ text[1] \notin {"pla", "ce"}
       /\ \A k \in 1..m :
          /\ from[k] \in (b + 1) .. (b + n)
          /\ k > 1 => from[k] = IF text[k] \in {"pla", "ce"} THEN from[k - 1] ELSE from[k - 1] + 1
          /\ IF SpoiledBy(written', ends', from[k]) THEN text[k] \in {"re", "pla", "ce"} ELSE text[k] = written[from[k]]
  BY <1>3 DEF ChunkShows
<1>14. /\ decoded' \in Seq(TextByte) /\ Len(decoded') = d + m
       /\ \A j \in 1 .. d + m : decoded'[j] = IF j <= d THEN decoded[j] ELSE text[j - d]
  BY <1>4, <1>5, <1>9, ConcatProperties DEF d
<1>15. /\ origin' \in Seq(Nat) /\ Len(origin') = d + m
       /\ \A j \in 1 .. d + m : origin'[j] = IF j <= d THEN origin[j] ELSE from[j - d]
  <2>1. /\ origin' \in Seq(Nat) /\ Len(origin') = Len(origin) + Len(from)
        /\ \A j \in 1 .. Len(origin) + Len(from) :
              origin'[j] = IF j <= Len(origin) THEN origin[j] ELSE from[j - Len(origin)]
    BY <1>3, <1>5, <1>9, ConcatProperties
  <2> QED
    BY <1>9, <1>12, <2>1
<1> HIDE DEF m
<1>16. \A j \in 1 .. d + m :
          /\ origin'[j] \in 1 .. b + n
          /\ origin'[j] = IF j = 1 THEN 1
                          ELSE IF decoded'[j] \in {"pla", "ce"} THEN origin'[j - 1] ELSE origin'[j - 1] + 1
          /\ IF SpoiledBy(written', ends', origin'[j]) THEN decoded'[j] \in {"re", "pla", "ce"} ELSE decoded'[j] = written[origin'[j]]
  <2> SUFFICES ASSUME NEW j \in 1 .. d + m
      PROVE /\ origin'[j] \in 1 .. b + n
            /\ origin'[j] = IF j = 1 THEN 1
                            ELSE IF decoded'[j] \in {"pla", "ce"} THEN origin'[j - 1] ELSE origin'[j - 1] + 1
            /\ IF SpoiledBy(written', ends', origin'[j]) THEN decoded'[j] \in {"re", "pla", "ce"} ELSE decoded'[j] = written[origin'[j]]
    OBVIOUS
  <2>1. CASE j <= d
    <3>1. /\ origin'[j] = origin[j] /\ decoded'[j] = decoded[j] /\ j \in 1..d
          /\ j # 1 => origin'[j - 1] = origin[j - 1]
      BY <1>9, <1>12, <1>14, <1>15, <2>1
    <3>2. origin[j] \in 1..b /\ (SpoiledBy(written', ends', origin[j]) <=> SpoiledBy(written, ends, origin[j]))
      BY <1>8, <1>10, <3>1
    <3>3. origin'[j] \in 1 .. b + n
      BY <1>3, <1>6, <3>1, <3>2
    <3>4. SpoiledBy(written', ends', origin'[j]) <=> SpoiledBy(written, ends, origin[j])
      BY <3>1, <3>2
    <3> QED
      BY <1>10, <3>1, <3>3, <3>4
  <2>2. CASE j > d
    <3>1. PICK k : k = j - d
      OBVIOUS
    <3>2. k \in 1..m /\ origin'[j] = from[k] /\ decoded'[j] = text[k]
      BY <1>9, <1>12, <1>14, <1>15, <2>2, <3>1
    <3>3. from[k] \in 1 .. b + n
      BY <1>3, <1>6, <1>13, <3>2
    <3>4. IF SpoiledBy(written', ends', origin'[j]) THEN decoded'[j] \in {"re", "pla", "ce"} ELSE decoded'[j] = written[origin'[j]]
      BY <1>13, <3>2
    <3>5. CASE k > 1
      <4>1. origin'[j - 1] = from[k - 1] /\ j # 1
        <5>1. j - 1 \in 1 .. d + m /\ ~(j - 1 <= d) /\ (j - 1) - d = k - 1 /\ j # 1
          BY <1>9, <1>12, <3>1, <3>2, <3>5
        <5> QED
          BY <1>15, <5>1
      <4> QED
        BY <1>13, <3>2, <3>3, <3>4, <3>5, <4>1
    <3>6. CASE k = 1
      <4>1. origin'[j] = b + 1 /\ decoded'[j] \notin {"pla", "ce"}
        BY <1>13, <3>2, <3>6
      <4>2. CASE d = 0
        <5>1. j = 1 /\ b = 0
          BY <1>11, <3>1, <3>6, <4>2
        <5> QED
          BY <3>2, <3>3, <3>4, <4>1, <5>1
      <4>3. CASE d # 0
        <5>1. j # 1 /\ origin'[j - 1] = b
          BY <1>9, <1>11, <1>12, <1>15, <3>1, <3>6, <4>3
        <5> QED
          BY <3>2, <3>3, <3>4, <4>1, <5>1
      <4> QED
        BY <4>2, <4>3
    <3> QED
      BY <3>2, <3>5, <3>6
  <2> QED
    BY <1>9, <1>12, <2>1, <2>2
<1>17. decoded' # <<>> /\ origin'[d + m] = b + n
  <2>1. Len(<<>>) = 0
    OBVIOUS
  <2> QED
    BY <1>9, <1>12, <1>13, <1>14, <1>15, <2>1
<1>18. TextShows'
  <2>1. Len(origin') = Len(decoded') /\ Len(decoded') = d + m /\ Len(origin') = d + m /\ origin' \in Seq(Nat)
    BY <1>14, <1>15
  <2>2. IF decoded' = <<>> THEN BytesRead' = 0 ELSE origin'[Len(origin')] = BytesRead'
    BY <1>3, <1>17, <2>1
  <2>3. \A j \in 1 .. Len(decoded') :
          /\ origin'[j] \in 1 .. BytesRead'
          /\ origin'[j] = IF j = 1 THEN 1
                          ELSE IF decoded'[j] \in {"pla", "ce"} THEN origin'[j - 1] ELSE origin'[j - 1] + 1
          /\ IF SpoiledBy(written', ends', origin'[j])
             THEN decoded'[j] \in {"re", "pla", "ce"}
             ELSE decoded'[j] = written'[origin'[j]]
    BY <1>3, <1>16, <2>1
  <2> QED
    BY <2>1, <2>2, <2>3 DEF TextShows
<1> QED
  BY <1>2, <1>3, <1>5, <1>7, <1>14, <1>18

\* The copier keeps as much of it as the limit allows, and tells all of it.
LEMMA CopyChunkInv == ASSUME CommandInv, CopyChunk PROVE CommandInv'
<1> USE DEF CommandInv
<1>1. PICK chunk \in Reads : /\ TakesFromTerminal(chunk) /\ captured' = Kept(captured, Text(chunk))
                             /\ told' = IF how = "streaming" THEN told \o Text(chunk) ELSE told
  BY DEF CopyChunk
<1>2. /\ copier = "reading" /\ terminal # <<>>
      /\ UNCHANGED <<how, shell, code, survivor, written, copier, waiter, verdict, output>>
  BY DEF CopyChunk
<1>3. PICK text : text = Text(chunk)
  OBVIOUS
<1>4. /\ text \in Seq(TextByte) /\ Len(text) > 0 /\ decoded \in Seq(TextByte) /\ told \in Seq(TextByte)
      /\ Len(told) <= Len(decoded)
  BY <1>2, <1>3, TextsOfReads DEF CommandTypes
<1>5. /\ TerminalHolds' /\ TextShows' /\ terminal' \in {<<>>, Narrow, Wide, Stray}
      /\ decoded' \in Seq(TextByte) /\ decoded' = decoded \o text
  BY <1>1, <1>2, <1>3, TakesFromTerminalInv
<1>6. captured = Beginning(decoded) /\ (how = "streaming" => told = decoded)
  BY <1>2 DEF CopierKnows
<1>7. captured' = Beginning(decoded')
  BY <1>1, <1>3, <1>4, <1>5, <1>6, BeginningGrows DEF Kept
<1>8. how = "streaming" => told' = decoded'
  BY <1>1, <1>3, <1>5, <1>6
<1>9. CopierKnows'
  BY <1>2, <1>7, <1>8 DEF CopierKnows
<1>10. captured' \in Seq(TextByte) /\ Len(captured') <= ByteLimit
  <2>1. PICK all : all = decoded'
    OBVIOUS
  <2>2. all \in Seq(TextByte) /\ Len(all) \in Nat
    BY <1>5, <2>1, LenProperties
  <2>3. Beginning(all) \in Seq(TextByte) /\ Len(Beginning(all)) = (IF Len(all) > ByteLimit THEN ByteLimit ELSE Len(all))
    BY <2>2, BeginningBytes
  <2>4. captured' = Beginning(all)
    BY <1>7, <2>1
  <2> QED
    BY <2>2, <2>3, <2>4, ByteSorts
<1>11. told' \in Seq(TextByte) /\ Len(told') <= Len(decoded')
  <2>1. CASE how = "streaming"
    <3>1. told' = decoded' /\ Len(decoded') \in Nat
      BY <1>5, <1>8, <2>1, LenProperties
    <3>2. Len(told') = Len(decoded')
      BY <3>1
    <3> QED
      BY <1>5, <3>1, <3>2
  <2>2. CASE how # "streaming"
    <3>1. told' = told
      BY <1>1, <2>2
    <3>2. Len(decoded') = Len(decoded) + Len(text) /\ Len(text) \in Nat /\ Len(decoded) \in Nat /\ Len(told) \in Nat
      BY <1>4, <1>5, ConcatProperties, LenProperties
    <3> QED
      BY <1>4, <3>1, <3>2
  <2> QED
    BY <2>1, <2>2
<1>12. CommandTypes'
  BY <1>2, <1>5, <1>10, <1>11 DEF CommandTypes
<1>13. WaiterKnows'
  BY <1>2 DEF WaiterKnows
<1> QED
  BY <1>5, <1>9, <1>12, <1>13

\* It panics where the limit falls inside the character.
LEMMA CopierPanicsInv == ASSUME CommandInv, CopierPanics PROVE CommandInv'
<1> USE DEF CommandInv
<1>1. PICK chunk \in Reads : Splits(captured, Text(chunk)) /\ TakesFromTerminal(chunk)
  BY DEF CopierPanics
<1>2. /\ copier = "reading" /\ terminal # <<>>
      /\ copier' = "panicked" /\ captured' = <<>>
      /\ shell' = (IF shell = "up" THEN "killed" ELSE shell)
      /\ UNCHANGED <<how, code, survivor, written, told, waiter, verdict, output>>
  BY DEF CopierPanics
<1>3. PICK text : text = Text(chunk)
  OBVIOUS
<1>4. text \in Seq(TextByte) /\ Len(text) > 0 /\ Len(text) \in Nat /\ StartsCharacter(text[1])
  BY <1>2, <1>3, TextsOfReads, LenProperties DEF CommandTypes
<1>5. /\ TerminalHolds' /\ TextShows' /\ terminal' \in {<<>>, Narrow, Wide, Stray}
      /\ decoded' \in Seq(TextByte) /\ decoded' = decoded \o text
  BY <1>1, <1>2, <1>3, TakesFromTerminalInv
<1>6. captured = Beginning(decoded) /\ decoded \in Seq(TextByte)
  BY <1>2 DEF CopierKnows, CommandTypes
<1>7. Len(captured) < ByteLimit
  <2>0. captured \in Seq(TextByte) /\ Len(captured) <= ByteLimit /\ Len(captured) \in Nat
    BY LenProperties DEF CommandTypes
  <2> SUFFICES ASSUME Len(captured) >= ByteLimit PROVE FALSE
    BY <2>0, ByteSorts
  <2>1. Len(captured) = ByteLimit /\ captured \in Seq(TextByte)
    BY <2>0, ByteSorts
  <2>2. (captured \o text)[ByteLimit + 1] = text[1]
    BY <1>4, <2>1, ConcatProperties, ByteSorts
  <2> QED
    BY <1>1, <1>3, <1>4, <2>2 DEF Splits
<1>8. captured = decoded
  BY <1>6, <1>7, BeginningBytes, ByteSorts
<1>9. ByteLimit < Len(decoded') /\ ~StartsCharacter(decoded'[ByteLimit + 1])
  <2>1. Len(decoded') \in Nat
    BY <1>5, LenProperties
  <2> QED
    BY <1>1, <1>3, <1>5, <1>8, <2>1, ByteSorts DEF Splits
<1>10. CopierKnows'
  <2>1. copier' = "panicked" => captured' = <<>> /\ ByteLimit < Len(decoded') /\ ~StartsCharacter(decoded'[ByteLimit + 1])
    BY <1>2, <1>9
  <2> QED
    BY <1>2, <2>1 DEF CopierKnows, StartsCharacter
<1>11. CommandTypes'
  <2>1. <<>> \in Seq(TextByte) /\ Len(<<>>) <= ByteLimit
    BY ByteSorts
  <2>2. told' \in Seq(TextByte) /\ Len(told') <= Len(decoded')
    <3>1. told' = told /\ told \in Seq(TextByte) /\ Len(told) <= Len(decoded)
      BY <1>2 DEF CommandTypes
    <3>2. Len(decoded') = Len(decoded) + Len(text) /\ Len(decoded) \in Nat /\ Len(told) \in Nat
      BY <1>4, <1>5, <1>6, <3>1, ConcatProperties, LenProperties
    <3> QED
      BY <1>4, <3>1, <3>2
  <2> QED
    BY <1>2, <1>5, <2>1, <2>2 DEF CommandTypes
<1>12. WaiterKnows'
  BY <1>2 DEF WaiterKnows
<1> QED
  BY <1>5, <1>10, <1>11, <1>12

\* It ends when nobody has the terminal open and nothing is in it.
LEMMA CopierEndsInv == ASSUME CommandInv, CopierEnds PROVE CommandInv'
<1> USE DEF CommandInv
<1>1. /\ copier = "reading" /\ terminal = <<>> /\ copier' = "ended"
      /\ UNCHANGED <<how, shell, code, survivor, written, terminal, captured, told, waiter, verdict, output>>
      /\ UNCHANGED <<decoded, origin, ends>>
  BY DEF CopierEnds, readVars
<1>2. CommandTypes' /\ WaiterKnows'
  BY <1>1 DEF CommandTypes, WaiterKnows
<1>3. CopierKnows'
  BY <1>1 DEF CopierKnows
<1>4. TerminalHolds' /\ TextShows'
  BY <1>1, ReaderKept
<1> QED
  BY <1>2, <1>3, <1>4

\* The thread that runs the command: it joins after the shell was reaped.
LEMMA WaiterInv == ASSUME CommandInv, Waiter PROVE CommandInv'
<1> USE DEF CommandInv
<1>1. CopierKnows'
  BY CopierKept DEF Waiter, PollShell, DeadlinePasses, AwaitShell, JoinCopier, readVars
<1>2. CommandTypes'
  BY DEF CommandTypes, Waiter, PollShell, DeadlinePasses, AwaitShell, JoinCopier, Kills, readVars
<1>3. WaiterKnows'
  BY DEF CommandTypes, WaiterKnows, Waiter, PollShell, DeadlinePasses, AwaitShell, JoinCopier, Joined, Kills
<1>4. TerminalHolds' /\ TextShows'
  BY ReaderKept DEF Waiter, PollShell, DeadlinePasses, AwaitShell, JoinCopier, readVars
<1> QED
  BY <1>1, <1>2, <1>3, <1>4

\* Every step keeps it.
LEMMA CommandStep == CommandInv /\ [CommandNext]_commandVars => CommandInv'
<1> SUFFICES ASSUME CommandInv, [CommandNext]_commandVars PROVE CommandInv'
  OBVIOUS
<1>1. CASE UNCHANGED commandVars
  <2>1. CopierKnows'
    BY <1>1, CopierKept DEF commandVars, readVars, CommandInv
  <2>2. CommandTypes'
    BY <1>1, TypesKept DEF commandVars, readVars, CommandInv
  <2>3. WaiterKnows'
    BY <1>1 DEF commandVars, CommandInv, WaiterKnows
  <2>4. TerminalHolds' /\ TextShows'
    BY <1>1, ReaderKept DEF commandVars, readVars, CommandInv
  <2> QED
    BY <2>1, <2>2, <2>3, <2>4 DEF CommandInv
<1>2. CASE CommandNext
  BY <1>2, ShellInv, SomebodyWritesInv, CopyChunkInv, CopierPanicsInv, CopierEndsInv, WaiterInv DEF CommandNext, Copier
<1> QED
  BY <1>1, <1>2

\* Along every behaviour.
THEOREM CommandInvariance == CommandSpec => []CommandInv
  BY CommandInitInv, CommandStep, PTL DEF CommandSpec

\* It gives the properties of a command.
LEMMA CommandInvTells == CommandInv => CommandTypeOK /\ OutputIsWhole /\ TimeoutEndsGroup
<1> SUFFICES ASSUME CommandInv PROVE CommandTypeOK /\ OutputIsWhole /\ TimeoutEndsGroup
  OBVIOUS
<1> USE DEF CommandInv
<1>1. CommandTypeOK
  BY DEF CommandTypes, CommandTypeOK
<1>2. TimeoutEndsGroup
  BY DEF WaiterKnows, TimeoutEndsGroup
<1>3. OutputIsWhole
  <2>0. Shows(BytesRead)
    BY TextShown DEF CommandTypes
  <2>1. CASE copier = "ended" /\ waiter = "returned"
    <3>1. BytesRead = Len(written)
      <4>1. terminal = <<>> /\ Len(<<>>) = 0 /\ Len(written) \in Nat
        BY <2>1, LenProperties DEF CopierKnows, CommandTypes
      <4> QED
        BY <4>1 DEF BytesRead
    <3> QED
      BY <2>0, <2>1, <3>1 DEF OutputIsWhole, WaiterKnows, CopierKnows
  <2>2. CASE copier # "ended" /\ waiter = "returned"
    BY <2>0, <2>2 DEF OutputIsWhole, WaiterKnows, CopierKnows, CommandTypes
  <2> QED
    BY <2>1, <2>2 DEF OutputIsWhole
<1> QED
  BY <1>1, <1>2, <1>3

-----------------------------------------------------------------------------
(* The client of the remote model *)

\* The types of the variables.
CallerTypes ==
    /\ stage \in Stages /\ asked \in BOOLEAN /\ native \in BOOLEAN
    /\ failed \in Nat /\ limited \in Nat /\ posts \in Nat /\ elapsed \in Nat /\ quiet \in Nat
\* The types of what the stream brings.
StreamedTypes ==
    /\ spoken \in Seq(BOOLEAN) /\ Len(spoken) <= MaxTexts /\ begun \in Begun \cup {NoLine} /\ saidDone \in BOOLEAN
    /\ heard \in BOOLEAN /\ usage \in {"none", "reported", "estimated"}

\* Posts of the current call that are made: those without native tools come after those with them.
Rounds == Retries + 1
PerCall == IF asked THEN Rounds + Rounds ELSE Rounds
Made == (IF asked /\ ~native THEN Rounds ELSE 0) + limited + (IF stage = "calling" THEN 0 ELSE 1)

\* The posts of the calls that failed, and of this one.
PostsCounted ==
    /\ limited <= Retries /\ (stage = "backoff" => limited < Retries) /\ (native => asked)
    /\ failed <= MaxCalls /\ (stage # "failed" => failed < MaxCalls)
    /\ stage \in {"pausing", "failed"} => posts <= failed * PerCall
    /\ stage \notin {"idle", "pausing", "failed"} => posts <= failed * PerCall + Made
    /\ stage = "idle" => posts = 0 /\ failed = 0 /\ limited = 0 /\ ~asked

\* A stream that goes on was in time at the last chunk, and the client does not wait longer than it may.
WaitBounded ==
    stage = "streaming" =>
        /\ elapsed <= quiet + Total - 1
        /\ ~heard => elapsed <= quiet + FirstToken - 1
        /\ quiet <= Patience

\* What was read is what was said.
TextsRead == content = [i \in 1..Len(spoken) |-> <<i, spoken[i]>>]
\* Only a stream that said it was done is an answer.
DoneSaid == stage = "returned" => saidDone

\* The inductive invariant of a completion.
CompletionInv == CallerTypes /\ StreamedTypes /\ PostsCounted /\ WaitBounded /\ TextsRead /\ DoneSaid

\* The constants.
LEMMA CompletionSorts ==
    /\ MaxCalls \in Nat \ {0} /\ FirstToken \in Nat \ {0} /\ IdleTimeout \in Nat \ {0} /\ Total \in Nat \ {0}
    /\ ReadTimeout \in Nat \ {0} /\ Retries \in Nat /\ Backoff \in Nat /\ MaxTexts \in Nat /\ NoLine \notin Begun
  BY CompletionAssumption

\* More calls have no fewer posts.
LEMMA MoreCalls ==
    ASSUME NEW k \in Nat
    PROVE  0 * k = 0 /\ \A m, n \in Nat : m <= n => m * k <= n * k
<1>1. ASSUME NEW m \in Nat, NEW n \in Nat, m <= n PROVE m * k <= n * k
  <2>1. PICK d \in Nat : n = m + d
    <3>1. n - m \in Nat /\ n = m + (n - m)
      BY <1>1
    <3> QED
      BY <3>1
  <2>2. n * k = m * k + d * k /\ d * k \in Nat /\ m * k \in Nat
    BY <2>1
  <2> QED
    BY <2>2
<1> QED
  BY <1>1

\* Nothing is said yet.
LEMMA NoTexts == <<>> \in Seq(BOOLEAN) /\ Len(<<>>) = 0 /\ Len(<<>>) <= MaxTexts
  BY CompletionSorts

\* Time goes on by no more than what passes.
LEMMA LaterTime ==
    ASSUME elapsed \in Nat, NEW time \in Nat
    PROVE  Later(time) \in Nat /\ Later(time) <= elapsed + time
  BY CompletionSorts DEF Later, Horizon

\* The client is as patient as its idle timers allow, and before it heard anything as the first.
LEMMA PatienceBounds ==
    ASSUME stage = "streaming"
    PROVE  /\ Patience \in Nat /\ Patience <= Longer(FirstToken, IdleTimeout) /\ (heard = FALSE => Patience <= FirstToken)
           /\ Longer(FirstToken, IdleTimeout) \in Nat
  BY CompletionSorts DEF Patience, Shorter, Longer

\* A call has no more posts than PerCall, and a call more or less is PerCall posts.
LEMMA CallsCount ==
    ASSUME CallerTypes
    PROVE  /\ Rounds \in Nat \ {0} /\ PerCall \in Nat \ {0} /\ Made \in Nat /\ failed * PerCall \in Nat
           /\ (failed + 1) * PerCall = failed * PerCall + PerCall
           /\ PostsCounted /\ stage # "idle" => (Made <= PerCall /\ (stage = "calling" => Made < PerCall))
<1>1. Rounds \in Nat \ {0} /\ PerCall \in Nat \ {0}
  BY CompletionSorts DEF Rounds, PerCall, CallerTypes
<1>2. Made \in Nat
  BY <1>1 DEF Made, CallerTypes
<1>3. failed * PerCall \in Nat /\ (failed + 1) * PerCall = failed * PerCall + PerCall
  BY <1>1 DEF CallerTypes
<1>4. PostsCounted /\ stage # "idle" => (Made <= PerCall /\ (stage = "calling" => Made < PerCall))
  BY CompletionSorts DEF Made, PerCall, Rounds, PostsCounted, CallerTypes
<1> QED
  BY <1>1, <1>2, <1>3, <1>4

\* It holds in the beginning.
LEMMA CompletionInitInv == CompletionInit => CompletionInv
<1> SUFFICES ASSUME CompletionInit PROVE CompletionInv
  OBVIOUS
<1> USE CompletionSorts DEF CompletionInit
<1>1. CallerTypes
  BY DEF CallerTypes, Stages
<1>2. StreamedTypes
  BY NoTexts DEF StreamedTypes
<1>3. PostsCounted
  BY DEF PostsCounted
<1>4. WaitBounded /\ DoneSaid
  BY DEF WaitBounded, DoneSaid
<1>5. TextsRead
  BY DEF TextsRead
<1> QED
  BY <1>1, <1>2, <1>3, <1>4, <1>5 DEF CompletionInv

\* What is said and read stays as it is.
LEMMA StreamKept ==
    ASSUME StreamedTypes, TextsRead, UNCHANGED <<wire, reading>>
    PROVE  StreamedTypes' /\ TextsRead'
  BY DEF StreamedTypes, TextsRead, wire, reading

\* A state that begins anew.
LEMMA FreshStream ==
    ASSUME Fresh
    PROVE  StreamedTypes' /\ TextsRead' /\ limited' = 0 /\ elapsed' = 0 /\ quiet' = 0
<1>1. StreamedTypes'
  <2>1. spoken' = <<>> /\ begun' = NoLine /\ saidDone' = FALSE /\ heard' = FALSE /\ usage' = "none"
    BY DEF Fresh
  <2> QED
    BY <2>1, NoTexts DEF StreamedTypes
<1>2. TextsRead'
  BY DEF Fresh, TextsRead
<1> QED
  BY <1>1, <1>2 DEF Fresh

\* The end of a call: its posts are those of a call that failed.
LEMMA CountFailureInv ==
    ASSUME CallerTypes, PostsCounted, stage \notin {"idle", "pausing", "failed"}, CountFailure,
           UNCHANGED <<asked, native, limited, posts, elapsed>>, quiet' \in Nat
    PROVE  CallerTypes' /\ PostsCounted' /\ stage' \in {"pausing", "failed"}
<1>1. failed' = failed + 1 /\ stage' = IF failed + 1 >= MaxCalls THEN "failed" ELSE "pausing"
  BY DEF CountFailure
<1>2. CallerTypes'
  <2>1. failed' \in Nat
    BY <1>1 DEF CallerTypes
  <2>2. stage' \in {"pausing", "failed"}
    BY <1>1
  <2>3. stage' \in Stages
    BY <2>2 DEF Stages
  <2> QED
    BY <2>1, <2>3 DEF CallerTypes
<1>3. posts <= failed' * PerCall /\ PerCall' = PerCall
  <2>1. posts <= failed * PerCall + Made /\ Made <= PerCall
    BY CallsCount DEF PostsCounted
  <2>2. failed' * PerCall = failed * PerCall + PerCall /\ failed * PerCall \in Nat /\ Made \in Nat /\ PerCall \in Nat
    BY <1>1, CallsCount
  <2> QED
    BY <2>1, <2>2 DEF CallerTypes, PerCall
<1>4. PostsCounted'
  BY <1>1, <1>3, CompletionSorts DEF PostsCounted, CallerTypes
<1> QED
  BY <1>1, <1>2, <1>4

\* A call that fails leaves its posts with those of the calls that failed.
LEMMA CallFailsInv ==
    ASSUME CompletionInv, stage \notin {"idle", "pausing", "failed", "returned"}, CallFails
    PROVE  CompletionInv'
<1> USE DEF CompletionInv
<1>1. CountFailure /\ UNCHANGED <<asked, native, limited, posts, elapsed, quiet, wire, reading>>
  BY DEF CallFails
<1>2. CallerTypes' /\ PostsCounted' /\ stage' \in {"pausing", "failed"}
  BY <1>1, CountFailureInv DEF CallerTypes
<1>3. StreamedTypes' /\ TextsRead'
  BY <1>1, StreamKept
<1>4. WaitBounded' /\ DoneSaid'
  BY <1>2 DEF WaitBounded, DoneSaid
<1> QED
  BY <1>2, <1>3, <1>4

\* The first call has made no post.
LEMMA BeginInv == ASSUME CompletionInv, Begin PROVE CompletionInv'
<1> USE DEF CompletionInv
<1>1. /\ stage = "idle" /\ stage' = "calling" /\ asked' \in BOOLEAN /\ native' = asked'
      /\ UNCHANGED <<failed, limited, posts, elapsed, quiet, wire, reading>>
  BY DEF Begin
<1>2. CallerTypes'
  BY <1>1 DEF CallerTypes, Stages
<1>3. PostsCounted'
  <2>1. posts' = 0 /\ failed' = 0 /\ limited' = 0
    BY <1>1 DEF PostsCounted
  <2>2. Rounds \in Nat
    BY CompletionSorts DEF Rounds
  <2>3. Made' \in Nat /\ PerCall' \in Nat
    BY <1>1, <2>1, <2>2 DEF Made, PerCall, Rounds
  <2>4. posts' <= failed' * PerCall' + Made'
    <3>1. \A n \in Nat : 0 * n = 0
      OBVIOUS
    <3>2. 0 * PerCall' = 0
      BY <2>3, <3>1
    <3>3. failed' * PerCall' = 0
      BY <2>1, <3>2
    <3>4. \A a, b, m : a = 0 /\ b = 0 /\ m \in Nat => a <= b + m
      OBVIOUS
    <3> QED
      BY <2>1, <2>3, <3>3, <3>4
  <2> QED
    BY <1>1, <2>1, <2>4, CompletionSorts DEF PostsCounted
<1>4. StreamedTypes' /\ TextsRead'
  BY <1>1, StreamKept
<1>5. WaitBounded' /\ DoneSaid'
  BY <1>1 DEF WaitBounded, DoneSaid
<1> QED
  BY <1>2, <1>3, <1>4, <1>5

\* A post is one more.
LEMMA PostInv == ASSUME CompletionInv, Post PROVE CompletionInv'
<1> USE DEF CompletionInv
<1>1. /\ stage = "calling" /\ stage' = "posted" /\ posts' = posts + 1 /\ quiet' = 0
      /\ UNCHANGED <<asked, native, failed, limited, elapsed, wire, reading>>
  BY DEF Post
<1>2. CallerTypes'
  BY <1>1 DEF CallerTypes, Stages
<1>3. PostsCounted'
  <2>1. PerCall' = PerCall /\ Made' = Made + 1
    BY <1>1, CompletionSorts DEF PerCall, Made, Rounds, CallerTypes
  <2>2. posts <= failed * PerCall + Made /\ failed * PerCall \in Nat /\ Made \in Nat
    BY <1>1, CallsCount DEF PostsCounted
  <2>3. posts' <= failed' * PerCall' + Made'
    BY <1>1, <2>1, <2>2 DEF CallerTypes
  <2> QED
    BY <1>1, <2>3 DEF PostsCounted
<1>4. StreamedTypes' /\ TextsRead'
  BY <1>1, StreamKept
<1>5. WaitBounded' /\ DoneSaid'
  BY <1>1 DEF WaitBounded, DoneSaid
<1> QED
  BY <1>2, <1>3, <1>4, <1>5

\* The next call starts from the posts of those that failed.
LEMMA CallAgainInv == ASSUME CompletionInv, CallAgain PROVE CompletionInv'
<1> USE DEF CompletionInv
<1>1. stage = "pausing" /\ stage' = "calling" /\ native' = asked /\ Fresh /\ UNCHANGED <<asked, failed, posts>>
  BY DEF CallAgain
<1>2. limited' = 0 /\ elapsed' = 0 /\ quiet' = 0 /\ StreamedTypes' /\ TextsRead'
  BY <1>1, FreshStream
<1>3. CallerTypes'
  BY <1>1, <1>2 DEF CallerTypes, Stages
<1>4. PostsCounted'
  <2>1. PerCall' = PerCall /\ Made' = 0
    BY <1>1, <1>2 DEF PerCall, Made
  <2>2. posts <= failed * PerCall /\ failed * PerCall \in Nat
    BY <1>1, CallsCount DEF PostsCounted
  <2>3. posts' <= failed' * PerCall' + Made'
    BY <1>1, <2>1, <2>2
  <2> QED
    BY <1>1, <1>2, <2>3, CompletionSorts DEF PostsCounted
<1>5. WaitBounded' /\ DoneSaid'
  BY <1>1 DEF WaitBounded, DoneSaid
<1> QED
  BY <1>2, <1>3, <1>4, <1>5

\* The posts without native tools come after those with them.
LEMMA RefusesToolsInv == ASSUME CompletionInv, RefusesTools PROVE CompletionInv'
<1> USE DEF CompletionInv
<1>1. /\ stage = "posted" /\ native /\ stage' = "calling" /\ native' = FALSE /\ Fresh /\ UNCHANGED <<asked, failed, posts>>
  BY DEF RefusesTools
<1>2. limited' = 0 /\ elapsed' = 0 /\ quiet' = 0 /\ StreamedTypes' /\ TextsRead'
  BY <1>1, FreshStream
<1>3. CallerTypes'
  BY <1>1, <1>2 DEF CallerTypes, Stages
<1>4. PostsCounted'
  <2>1. PerCall' = PerCall /\ Made' = Rounds /\ Made <= Rounds /\ asked
    BY <1>1, <1>2, CompletionSorts DEF PerCall, Made, Rounds, PostsCounted, CallerTypes
  <2>2. posts <= failed * PerCall + Made /\ failed * PerCall \in Nat /\ Made \in Nat /\ Rounds \in Nat
    BY <1>1, CallsCount DEF PostsCounted
  <2>3. posts' <= failed' * PerCall' + Made'
    BY <1>1, <2>1, <2>2 DEF CallerTypes
  <2> QED
    BY <1>1, <1>2, <2>3, CompletionSorts DEF PostsCounted
<1>5. WaitBounded' /\ DoneSaid'
  BY <1>1 DEF WaitBounded, DoneSaid
<1> QED
  BY <1>2, <1>3, <1>4, <1>5

\* A step within a call that posts nothing.
LEMMA CallGoesOn ==
    ASSUME CallerTypes, PostsCounted, UNCHANGED <<asked, native, failed, limited, posts>>,
           elapsed' \in Nat, quiet' \in Nat,
           stage \in {"posted", "backoff", "readingBody", "streaming"},
           stage' \in {"posted", "backoff", "readingBody", "streaming", "returned"},
           stage' = "backoff" => limited < Retries
    PROVE  CallerTypes' /\ PostsCounted'
<1>1. CallerTypes'
  BY DEF CallerTypes, Stages
<1>2. PerCall' = PerCall /\ Made' = Made
  BY DEF PerCall, Made
<1>3. PostsCounted'
  BY <1>2 DEF PostsCounted
<1> QED
  BY <1>1, <1>3

\* A post that is over the rate may be repeated.
LEMMA RateLimitedInv == ASSUME CompletionInv, RateLimited PROVE CompletionInv'
<1> USE DEF CompletionInv
<1>1. CASE CallFails
  BY <1>1, CallFailsInv DEF RateLimited
<1>2. CASE /\ limited < Retries /\ stage' = "backoff"
           /\ UNCHANGED <<asked, native, failed, limited, posts, elapsed, quiet, wire, reading>>
  <2>1. CallerTypes' /\ PostsCounted'
    BY <1>2, CallGoesOn DEF RateLimited, CallerTypes
  <2>2. StreamedTypes' /\ TextsRead'
    BY <1>2, StreamKept
  <2>3. WaitBounded' /\ DoneSaid'
    BY <1>2 DEF WaitBounded, DoneSaid
  <2> QED
    BY <2>1, <2>2, <2>3
<1> QED
  BY <1>1, <1>2 DEF RateLimited

\* After the pause it is.
LEMMA PostAgainInv == ASSUME CompletionInv, PostAgain PROVE CompletionInv'
<1> USE DEF CompletionInv
<1>1. /\ stage = "backoff" /\ stage' = "calling" /\ limited' = limited + 1 /\ elapsed' = Later(Backoff)
      /\ UNCHANGED <<asked, native, failed, posts, quiet, wire, reading>>
  BY DEF PostAgain
<1>2. CallerTypes'
  BY <1>1, LaterTime, CompletionSorts DEF CallerTypes, Stages
<1>3. PostsCounted'
  <2>1. PerCall' = PerCall /\ Made' = Made
    BY <1>1, CompletionSorts DEF PerCall, Made, Rounds, CallerTypes
  <2>2. limited + 1 <= Retries
    BY <1>1, CompletionSorts DEF PostsCounted, CallerTypes
  <2> QED
    BY <1>1, <2>1, <2>2 DEF PostsCounted
<1>4. StreamedTypes' /\ TextsRead'
  BY <1>1, StreamKept
<1>5. WaitBounded' /\ DoneSaid'
  BY <1>1 DEF WaitBounded, DoneSaid
<1> QED
  BY <1>2, <1>3, <1>4, <1>5

\* The body of an answer to native tools trickles in, under none of the timeouts.
LEMMA AcceptsNativeInv == ASSUME CompletionInv, AcceptsNative \/ BodyTrickles PROVE CompletionInv'
<1> USE DEF CompletionInv
<1>1. /\ stage \in {"posted", "readingBody"} /\ stage' = "readingBody" /\ quiet' = 0
      /\ UNCHANGED <<asked, native, failed, limited, posts, elapsed, wire, reading>>
  BY DEF AcceptsNative, BodyTrickles
<1>2. CallerTypes' /\ PostsCounted'
  BY <1>1, CallGoesOn DEF CallerTypes
<1>3. StreamedTypes' /\ TextsRead'
  BY <1>1, StreamKept
<1>4. WaitBounded' /\ DoneSaid'
  BY <1>1 DEF WaitBounded, DoneSaid
<1> QED
  BY <1>2, <1>3, <1>4

\* It is read at once.
LEMMA BodyReadInv == ASSUME CompletionInv, BodyRead PROVE CompletionInv'
<1> USE DEF CompletionInv
<1>1. /\ stage = "readingBody" /\ stage' = "returned" /\ saidDone' = TRUE /\ usage' \in {"reported", "estimated"}
      /\ UNCHANGED <<asked, native, failed, limited, posts, elapsed, quiet, begun>>
  BY DEF BodyRead
<1>2. PICK n \in 0..MaxTexts : /\ spoken' = [i \in 1..n |-> FALSE]
                               /\ content' = [i \in 1..n |-> <<i, FALSE>>] /\ heard' = (n > 0)
  BY DEF BodyRead
<1>3. CallerTypes' /\ PostsCounted'
  BY <1>1, CallGoesOn DEF CallerTypes
<1>4. spoken' \in Seq(BOOLEAN) /\ Len(spoken') = n /\ n \in Nat /\ n <= MaxTexts
  BY <1>2, CompletionSorts
<1>5. StreamedTypes'
  <2>1. heard' \in BOOLEAN
    BY <1>2
  <2>2. begun' \in Begun \cup {NoLine} /\ usage' \in {"none", "reported", "estimated"} /\ saidDone' \in BOOLEAN
    BY <1>1 DEF StreamedTypes
  <2>3. Len(spoken') <= MaxTexts
    BY <1>4
  <2> QED
    BY <1>4, <2>1, <2>2, <2>3 DEF StreamedTypes
<1>6. TextsRead'
  BY <1>2, <1>4 DEF TextsRead
<1>7. WaitBounded' /\ DoneSaid'
  BY <1>1 DEF WaitBounded, DoneSaid
<1> QED
  BY <1>3, <1>5, <1>6, <1>7

\* A stream begins with nothing read, whatever an earlier one had brought.
LEMMA AcceptsStreamInv == ASSUME CompletionInv, AcceptsStream PROVE CompletionInv'
<1> USE DEF CompletionInv
<1>1. CASE CallFails
  BY <1>1, CallFailsInv DEF AcceptsStream
<1>2. CASE /\ ~Overdue(FALSE) /\ stage' = "streaming" /\ quiet' = 0
           /\ UNCHANGED <<asked, native, failed, limited, posts, elapsed, wire, reading>>
  <2>1. CallerTypes' /\ PostsCounted'
    BY <1>2, CallGoesOn DEF AcceptsStream, CallerTypes
  <2>2. StreamedTypes' /\ TextsRead'
    BY <1>2, StreamKept
  <2>3. WaitBounded'
    <3>1. Patience' \in Nat
      BY <1>2, CompletionSorts DEF Patience, Shorter
    <3>2. elapsed < Total /\ elapsed < FirstToken /\ elapsed \in Nat
      BY <1>2, CompletionSorts DEF Overdue, CallerTypes
    <3> QED
      BY <1>2, <3>1, <3>2, CompletionSorts DEF WaitBounded
  <2>4. DoneSaid'
    BY <1>2 DEF DoneSaid
  <2> QED
    BY <2>1, <2>2, <2>3, <2>4
<1> QED
  BY <1>1, <1>2 DEF AcceptsStream

\* The texts of a chunk, and the content with them.
LEMMA ChunkTexts ==
    ASSUME StreamedTypes, TextsRead, NEW chunk \in Chunks, GoesOn(chunk)
    PROVE  /\ Texts(chunk) \in Seq(BOOLEAN)
           /\ ReadTexts(chunk) = [i \in 1 .. Len(spoken \o Texts(chunk)) |-> <<i, (spoken \o Texts(chunk))[i]>>]
           /\ Ends(chunk) \subseteq LineKinds /\ chunk.tail \in Begun \cup {NoLine}
           /\ spoken \o Texts(chunk) \in Seq(BOOLEAN)
<1>1. /\ chunk.rest \in BOOLEAN /\ chunk.texts \in 0..MaxTexts /\ chunk.others \in SUBSET (LineKinds \ {"text"})
      /\ chunk.tail \in Begun \cup {NoLine}
  BY DEF Chunks
<1>2. chunk.rest => begun \in Begun
  BY DEF GoesOn, StreamedTypes
<1>3. begun \in Begun => begun.kind \in LineKinds /\ begun.split \in BOOLEAN
  BY DEF Begun
<1>4. [i \in 1..chunk.texts |-> FALSE] \in Seq(BOOLEAN)
  <2> DEFINE k == chunk.texts
  <2>1. k \in Nat
    BY <1>1, CompletionSorts
  <2> HIDE DEF k
  <2>2. [i \in 1..k |-> FALSE] \in Seq(BOOLEAN)
    BY <2>1
  <2> QED
    BY <2>2 DEF k
<1>5. Texts(chunk) \in Seq(BOOLEAN)
  <2>1. CASE chunk.rest /\ begun.kind = "text"
    <3>1. <<begun.split>> \in Seq(BOOLEAN)
      BY <1>2, <1>3, <2>1
    <3> QED
      BY <1>4, <2>1, <3>1, ConcatProperties DEF Texts
  <2>2. CASE ~(chunk.rest /\ begun.kind = "text")
    BY <1>4, <2>2, ConcatProperties, EmptySeq DEF Texts
  <2> QED
    BY <2>1, <2>2
<1>6. Ends(chunk) \subseteq LineKinds
  BY <1>1, <1>2, <1>3 DEF Ends, LineKinds
<1> DEFINE texts == Texts(chunk)  all == spoken \o texts  n == Len(spoken)
<1>7. texts \in Seq(BOOLEAN) /\ Len(texts) \in Nat /\ spoken \in Seq(BOOLEAN) /\ n \in Nat
  BY <1>5 DEF StreamedTypes
<1> HIDE DEF texts
<1>8. /\ all \in Seq(BOOLEAN) /\ Len(all) = n + Len(texts)
      /\ \A i \in 1 .. n + Len(texts) : all[i] = IF i <= n THEN spoken[i] ELSE texts[i - n]
  BY <1>7, ConcatProperties
<1> DEFINE more == [i \in 1..Len(texts) |-> <<n + i, texts[i]>>]
<1>9. /\ content \in Seq(Nat \X BOOLEAN) /\ Len(content) = n /\ \A i \in 1..n : content[i] = <<i, spoken[i]>>
  BY <1>7 DEF TextsRead
<1>10. more \in Seq(Nat \X BOOLEAN) /\ Len(more) = Len(texts)
  BY <1>7
<1>11. \A i \in 1..Len(texts) : more[i] = <<n + i, texts[i]>>
  OBVIOUS
<1>17. n \in Nat /\ Len(texts) \in Nat
  BY <1>7
<1> HIDE DEF more, all, n
<1>12. /\ content \o more \in Seq(Nat \X BOOLEAN) /\ Len(content \o more) = n + Len(texts)
       /\ \A i \in 1 .. n + Len(texts) : (content \o more)[i] = IF i <= n THEN content[i] ELSE more[i - n]
  <2> DEFINE S == Nat \X BOOLEAN
  <2>1. content \in Seq(S) /\ more \in Seq(S)
    BY <1>9, <1>10
  <2> HIDE DEF S
  <2>2. /\ content \o more \in Seq(S) /\ Len(content \o more) = Len(content) + Len(more)
        /\ \A i \in 1 .. Len(content) + Len(more) :
               (content \o more)[i] = IF i <= Len(content) THEN content[i] ELSE more[i - Len(content)]
    BY <2>1, ConcatProperties
  <2> QED
    BY <1>9, <1>10, <2>2 DEF S
<1> DEFINE want == [i \in 1 .. n + Len(texts) |-> <<i, all[i]>>]
<1>13. want \in Seq(Nat \X BOOLEAN) /\ Len(want) = n + Len(texts) /\ \A i \in 1 .. n + Len(texts) : want[i] = <<i, all[i]>>
  <2>1. n \in Nat /\ Len(texts) \in Nat /\ n + Len(texts) \in Nat
    BY <1>7 DEF n
  <2>2. \A i \in 1 .. n + Len(texts) : all[i] \in BOOLEAN
    BY <1>8, <2>1
  <2> QED
    BY <2>1, <2>2
<1>14. ASSUME NEW i \in 1 .. n + Len(texts) PROVE (content \o more)[i] = want[i]
  <2>1. CASE i <= n
    <3>1. i \in 1..n
      BY <1>17, <2>1
    <3> QED
      BY <1>8, <1>9, <1>12, <1>13, <2>1, <3>1
  <2>2. CASE i > n
    <3>1. i - n \in 1..Len(texts) /\ n + (i - n) = i /\ ~(i <= n)
      BY <1>17, <2>2
    <3>2. (content \o more)[i] = more[i - n] /\ all[i] = texts[i - n]
      BY <1>8, <1>12, <3>1
    <3>3. more[i - n] = <<i, texts[i - n]>>
      BY <1>11, <3>1
    <3> QED
      BY <1>13, <3>2, <3>3
  <2>3. i <= n \/ i > n
    BY <1>17
  <2> QED
    BY <2>1, <2>2, <2>3
<1> HIDE DEF want
<1>15. content \o more = want
  BY <1>12, <1>13, <1>14, SeqEqual
<1>16. ReadTexts(chunk) = content \o more
  BY <1>9 DEF ReadTexts, With, more, texts
<1> QED
  BY <1>1, <1>5, <1>6, <1>8, <1>15, <1>16 DEF want, all, texts

\* The texts of a chunk are read as they are spoken.
LEMMA ChunkInv == ASSUME CompletionInv, Chunk PROVE CompletionInv'
<1> USE DEF CompletionInv
<1>1. stage = "streaming" /\ UNCHANGED <<asked, native, limited, posts, elapsed>>
  BY DEF Chunk
<1>2. PICK chunk \in Chunks :
          LET kinds == Ends(chunk)
              reported == IF "usage" \in kinds THEN "reported" ELSE usage
          IN  /\ GoesOn(chunk) /\ Len(spoken \o Texts(chunk)) <= MaxTexts
              /\ spoken' = spoken \o Texts(chunk) /\ begun' = chunk.tail /\ saidDone' = ("done" \in kinds)
              /\ content' = ReadTexts(chunk) /\ heard' = (heard \/ kinds \cap {"text", "think"} # {})
              /\ usage' = IF saidDone' THEN UsageOf(reported) ELSE reported
  BY DEF Chunk
<1>3. /\ spoken' \in Seq(BOOLEAN) /\ begun' \in Begun \cup {NoLine}
      /\ content' = [i \in 1..Len(spoken') |-> <<i, spoken'[i]>>]
  BY <1>2, ChunkTexts
<1>4. heard' \in BOOLEAN /\ saidDone' \in BOOLEAN
  BY <1>2 DEF StreamedTypes
<1>5. usage' \in {"none", "reported", "estimated"}
  BY <1>2 DEF StreamedTypes, UsageOf
<1>6. StreamedTypes'
  BY <1>2, <1>3, <1>4, <1>5 DEF StreamedTypes
<1>7. TextsRead'
  BY <1>3 DEF TextsRead
<1>8. CASE saidDone' /\ stage' = "returned" /\ UNCHANGED <<failed, quiet>>
  <2>1. CallerTypes' /\ PostsCounted'
    BY <1>1, <1>8, CallGoesOn DEF CallerTypes
  <2>2. WaitBounded' /\ DoneSaid'
    BY <1>8 DEF WaitBounded, DoneSaid
  <2> QED
    BY <1>6, <1>7, <2>1, <2>2
<1>9. CASE ~Overdue(heard') /\ quiet' = 0 /\ UNCHANGED <<stage, failed>>
  <2>1. CallerTypes' /\ PostsCounted'
    BY <1>1, <1>9, CallGoesOn DEF CallerTypes
  <2>2. WaitBounded'
    <3>1. Patience' \in Nat
      BY <1>1, <1>9, CompletionSorts DEF Patience, Shorter
    <3>2. elapsed < Total /\ (~heard' => elapsed < FirstToken) /\ elapsed \in Nat
      BY <1>9, CompletionSorts DEF Overdue, CallerTypes
    <3> QED
      BY <1>1, <1>9, <3>1, <3>2, CompletionSorts DEF WaitBounded
  <2>3. DoneSaid'
    BY <1>1, <1>9 DEF DoneSaid
  <2> QED
    BY <1>6, <1>7, <2>1, <2>2, <2>3
<1>10. CASE CountFailure /\ UNCHANGED quiet
  <2>1. CallerTypes' /\ PostsCounted' /\ stage' \in {"pausing", "failed"}
    BY <1>1, <1>10, CountFailureInv DEF CallerTypes
  <2>2. WaitBounded' /\ DoneSaid'
    BY <2>1 DEF WaitBounded, DoneSaid
  <2> QED
    BY <1>6, <1>7, <2>1, <2>2
<1> QED
  BY <1>8, <1>9, <1>10 DEF Chunk

\* The client does not wait longer than its patience.
LEMMA TimePassesInv == ASSUME CompletionInv, TimePasses PROVE CompletionInv'
<1> USE DEF CompletionInv
<1>1. /\ stage \in {"posted", "readingBody", "streaming"} /\ quiet < Patience /\ quiet' = quiet + 1
      /\ elapsed' = (IF stage = "readingBody" THEN elapsed ELSE Later(1))
      /\ UNCHANGED <<stage, asked, native, failed, limited, posts, wire, reading>>
  BY DEF TimePasses, Waiting
<1>2. elapsed' \in Nat /\ elapsed' <= elapsed + 1 /\ elapsed \in Nat /\ quiet \in Nat
  <2>1. elapsed \in Nat /\ quiet \in Nat /\ 1 \in Nat
    BY DEF CallerTypes
  <2>2. Later(1) \in Nat /\ Later(1) <= elapsed + 1
    BY <2>1, LaterTime
  <2>3. elapsed' = elapsed \/ elapsed' = Later(1)
    BY <1>1
  <2> QED
    BY <2>1, <2>2, <2>3
<1>3. CallerTypes' /\ PostsCounted'
  <2>3. quiet' \in Nat
    <3>1. quiet' = quiet + 1 /\ quiet \in Nat
      BY <1>1, <1>2
    <3> HIDE DEF CompletionInv
    <3> QED
      BY <3>1
  <2>4. UNCHANGED <<asked, native, failed, limited, posts>> /\ stage' = stage
    BY <1>1
  <2>1. quiet' \in Nat /\ UNCHANGED <<asked, native, failed, limited, posts>> /\ stage' = stage
    BY <2>3, <2>4
  <2>2. stage \in {"posted", "backoff", "readingBody", "streaming"} /\ stage' # "backoff"
        /\ stage' \in {"posted", "backoff", "readingBody", "streaming", "returned"}
    BY <1>1, <2>1
  <2> QED
    BY <1>2, <2>1, <2>2, CallGoesOn
<1>4. StreamedTypes' /\ TextsRead'
  BY <1>1, StreamKept
<1>5. WaitBounded'
  <2> SUFFICES ASSUME stage = "streaming" PROVE WaitBounded'
    BY <1>1 DEF WaitBounded
  <2>1. Patience' = Patience /\ Patience \in Nat /\ heard' = heard
    BY <1>1, PatienceBounds DEF Patience, reading
  <2> QED
    BY <1>1, <1>2, <2>1, CompletionSorts DEF WaitBounded
<1>6. DoneSaid'
  BY <1>1 DEF DoneSaid
<1> QED
  BY <1>3, <1>4, <1>5, <1>6

\* Every step keeps it.
LEMMA CompletionStep == CompletionInv /\ [CompletionNext]_completionVars => CompletionInv'
<1> SUFFICES ASSUME CompletionInv, [CompletionNext]_completionVars PROVE CompletionInv'
  OBVIOUS
<1>1. CASE UNCHANGED completionVars
  <2>1. UNCHANGED <<stage, asked, native, failed, limited, posts, elapsed, quiet>> /\ UNCHANGED <<wire, reading>>
    BY <1>1 DEF completionVars
  <2>2. CallerTypes' /\ PostsCounted' /\ WaitBounded' /\ DoneSaid'
    BY <2>1 DEF CompletionInv, CallerTypes, PostsCounted, PerCall, Made, WaitBounded, Patience, DoneSaid, wire, reading
  <2> QED
    BY <2>1, <2>2, StreamKept DEF CompletionInv
<1>2. CASE Breaks \/ TimesOut \/ StreamCloses
  BY <1>2, CallFailsInv DEF Breaks, TimesOut, StreamCloses, Waiting
<1>3. CASE CompletionNext /\ ~(Breaks \/ TimesOut \/ StreamCloses)
  BY <1>3, BeginInv, PostInv, CallAgainInv, RefusesToolsInv, RateLimitedInv, PostAgainInv, AcceptsNativeInv, BodyReadInv,
     AcceptsStreamInv, ChunkInv, TimePassesInv DEF CompletionNext, ClientRuns, Provider
<1> QED
  BY <1>1, <1>2, <1>3

\* Along every behaviour.
THEOREM CompletionInvariance == CompletionSpec => []CompletionInv
  BY CompletionInitInv, CompletionStep, PTL DEF CompletionSpec

\* It gives the properties of a completion.
LEMMA CompletionInvTells == CompletionInv => CompletionTypeOK /\ AnswerIsWhole /\ PostsBounded /\ StreamTimely
<1> SUFFICES ASSUME CompletionInv PROVE CompletionTypeOK /\ AnswerIsWhole /\ PostsBounded /\ StreamTimely
  OBVIOUS
<1> USE DEF CompletionInv
<1>1. CompletionTypeOK
  <2>1. \A i \in DOMAIN content : content[i] \in (1..MaxTexts) \X BOOLEAN
    <3>1. spoken \in Seq(BOOLEAN) /\ Len(spoken) \in Nat /\ Len(spoken) <= MaxTexts
      BY LenProperties DEF StreamedTypes
    <3>2. \A i \in 1..Len(spoken) : i \in 1..MaxTexts /\ spoken[i] \in BOOLEAN
      BY <3>1, CompletionSorts
    <3> QED
      BY <3>2 DEF TextsRead
  <2> QED
    BY <2>1 DEF CompletionTypeOK, CallerTypes, StreamedTypes
<1>2. AnswerIsWhole
  BY DEF AnswerIsWhole, TextsRead, DoneSaid
<1>3. PostsBounded
  <2>1. posts <= MaxCalls * PerCall
    <3>1. failed * PerCall <= MaxCalls * PerCall /\ (failed < MaxCalls => (failed + 1) * PerCall <= MaxCalls * PerCall)
      <4>1. failed \in Nat /\ MaxCalls \in Nat /\ PerCall \in Nat /\ failed <= MaxCalls
        BY CallsCount, CompletionSorts DEF PostsCounted, CallerTypes
      <4>2. failed < MaxCalls => failed + 1 \in Nat /\ failed + 1 <= MaxCalls
        BY <4>1
      <4> QED
        BY <4>1, <4>2, MoreCalls
    <3>2. posts <= failed * PerCall \/ (failed < MaxCalls /\ posts <= failed * PerCall + PerCall)
      <4>1. CASE stage \in {"pausing", "failed"}
        BY <4>1 DEF PostsCounted
      <4>2. CASE stage = "idle"
        <5>1. posts = 0 /\ failed * PerCall \in Nat
          BY <4>2, CallsCount DEF PostsCounted
        <5> QED
          BY <5>1
      <4>3. CASE stage \notin {"idle", "pausing", "failed"}
        <5>1. posts <= failed * PerCall + Made /\ failed < MaxCalls /\ posts \in Nat
          BY <4>3 DEF PostsCounted, CallerTypes
        <5>2. Made <= PerCall /\ Made \in Nat /\ PerCall \in Nat /\ failed * PerCall \in Nat
          BY <4>3, CallsCount
        <5> QED
          BY <5>1, <5>2
      <4> QED
        BY <4>1, <4>2, <4>3
    <3> QED
      BY <3>1, <3>2, CallsCount, CompletionSorts DEF CallerTypes
  <2>2. MaxCalls * PerCall = MaxCalls * (Retries + 1) * (IF asked THEN 2 ELSE 1)
    BY CompletionSorts DEF PerCall, Rounds
  <2> QED
    BY <2>1, <2>2 DEF PostsBounded
<1>4. StreamTimely
  <2> SUFFICES ASSUME stage = "streaming"
               PROVE  elapsed < Total + Longer(FirstToken, IdleTimeout) /\ (~heard => elapsed < 2 * FirstToken + 1)
    BY DEF StreamTimely
  <2>1. /\ elapsed <= quiet + Total - 1 /\ quiet <= Patience /\ (~heard => elapsed <= quiet + FirstToken - 1)
        /\ elapsed \in Nat /\ quiet \in Nat /\ heard \in BOOLEAN
    BY DEF WaitBounded, CallerTypes, StreamedTypes
  <2>2. Patience \in Nat /\ Patience <= Longer(FirstToken, IdleTimeout) /\ (heard = FALSE => Patience <= FirstToken)
        /\ Longer(FirstToken, IdleTimeout) \in Nat
    BY PatienceBounds
  <2>3. elapsed < Total + Longer(FirstToken, IdleTimeout)
    BY <2>1, <2>2, CompletionSorts
  <2>4. ~heard => elapsed < 2 * FirstToken + 1
    BY <2>1, <2>2, CompletionSorts
  <2> QED
    BY <2>3, <2>4
<1> QED
  BY <1>1, <1>2, <1>3, <1>4

-----------------------------------------------------------------------------
(* Together *)

(* The invariants of the parts. *)
CallsInv ==
    /\ BrokerInv /\ RunInv /\ McpInv /\ AreRequests /\ LspInv /\ CompletionInv /\ ProcessInv /\ CommandInv

\* A step of the whole is one of a part, or leaves the part as it is.
LEMMA CallsParts ==
    ASSUME [MCNext]_<<part, desktopVars, remoteVars, childrenVars>>
    PROVE  /\ [BrokerNext]_brokerVars /\ [RunNext]_runVars
           /\ [McpNext]_mcpVars /\ [LspNext]_lspVars /\ [CompletionNext]_completionVars
           /\ [ProcessNext]_processVars /\ [CommandNext]_commandVars
<1> USE DEF MCNext, desktopVars, remoteVars, childrenVars
<1>1. [BrokerNext]_brokerVars
  OBVIOUS
<1>2. [RunNext]_runVars
  OBVIOUS
<1>3. [McpNext]_mcpVars
  OBVIOUS
<1>4. [LspNext]_lspVars
  OBVIOUS
<1>5. [CompletionNext]_completionVars
  OBVIOUS
<1>6. [ProcessNext]_processVars
  OBVIOUS
<1>7. [CommandNext]_commandVars
  OBVIOUS
<1> QED
  BY <1>1, <1>2, <1>3, <1>4, <1>5, <1>6, <1>7

\* They hold in the beginning.
LEMMA CallsInitInv == MCInit => CallsInv
<1>1. MCInit => /\ BrokerInit /\ RunInit /\ McpInit /\ LspInit /\ CompletionInit /\ ProcessInit /\ CommandInit
  BY DEF MCInit
<1>2. McpInit => AreRequests
  BY DEF McpInit, AreRequests
<1> QED
  BY <1>1, <1>2, InvInit, RunInitInv, McpInitInv, LspInitInv, CompletionInitInv, ProcessInitInv, CommandInitInv
     DEF CallsInv

\* Every step keeps them.
LEMMA CallsStep == CallsInv /\ [MCNext]_<<part, desktopVars, remoteVars, childrenVars>> => CallsInv'
<1> SUFFICES ASSUME CallsInv, [MCNext]_<<part, desktopVars, remoteVars, childrenVars>> PROVE CallsInv'
  OBVIOUS
<1>1. /\ [BrokerNext]_brokerVars /\ [RunNext]_runVars
      /\ [McpNext]_mcpVars /\ [LspNext]_lspVars /\ [CompletionNext]_completionVars
      /\ [ProcessNext]_processVars /\ [CommandNext]_commandVars
  BY CallsParts
<1>2. BrokerInv' /\ RunInv' /\ McpInv' /\ AreRequests'
  BY <1>1, InvNext, RunStep, McpStep DEF CallsInv
<1>3. LspInv' /\ CompletionInv' /\ ProcessInv' /\ CommandInv'
  BY <1>1, LspStep, CompletionStep, ProcessStep, CommandStep DEF CallsInv
<1> QED
  BY <1>2, <1>3 DEF CallsInv

\* They hold always.
LEMMA CallsInvariance == MCSpec => []CallsInv
  BY CallsInitInv, CallsStep, PTL DEF MCSpec

\* Whatever waits for an answer, every variable of it keeps its type, for any numbers of requests,
\* runs, calls, lookups, texts, tools and bytes.
THEOREM CallsAreTyped == MCSpec => []CallsTypeOK
<1>1. CallsInv => BrokerTypeOK /\ RunTypeOK /\ McpTypeOK /\ LspTypeOK
  BY RunInvTells DEF CallsInv, BrokerInv, McpInv, LspInv, LspTypes
<1>2. CallsInv => CompletionTypeOK /\ ProcessTypeOK /\ CommandTypeOK
  BY CompletionInvTells, ProcessInvIsTyped, CommandInvTells DEF CallsInv
<1>3. CallsInv => CallsTypeOK
  BY <1>1, <1>2 DEF CallsTypeOK
<1> QED
  BY <1>3, CallsInvariance, PTL

\* What comes in pieces comes whole, in order and in time, and what a call took is given back when
\* it is over, whatever fails, is late, is killed or is cancelled.
THEOREM CallsAreAccounted == MCSpec => []CallsAccounted
<1>1. CallsInv => StreamInOrder /\ AnswerIsWhole /\ PostsBounded /\ StreamTimely
  BY RunInvTells, CompletionInvTells DEF CallsInv
<1>2. CallsInv => OutputIsTail /\ OutputIsWhole
  BY CommandInvTells DEF CallsInv, ProcessInv
<1>3. CallsInv => NoSenderLeaks /\ StopsItsChild /\ TimeoutEndsGroup
  BY CommandInvTells DEF CallsInv, ProcessInv, LspInv
<1>4. CallsInv => CallsAccounted
  BY <1>1, <1>2, <1>3 DEF CallsAccounted, StreamsWhole, NothingLeftBehind
<1> QED
  BY <1>4, CallsInvariance, PTL
=============================================================================
