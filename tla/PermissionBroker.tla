-------------------------- MODULE PermissionBroker --------------------------
(***************************************************************************)
(* The desktop's permission broker: request() registers the sending half   *)
(* of a oneshot channel, tells the frontend and waits, with a timeout;     *)
(* resolve() is the frontend's answer; cancel_all() tears every request    *)
(* down.  Each holds the lock on the map of pending requests only while it *)
(* inserts or removes, so the steps between are interleaved.               *)
(*                                                                         *)
(* Every request has an id of its own (a nanosecond timestamp in the       *)
(* code).  The broker is not wired to the agent loop yet: who calls it is  *)
(* modelled as anyone, at any time.                                        *)
(***************************************************************************)
CONSTANTS Requests,  \* bound: the calls of request()
          NoDecision

Decisions == {"Allowed", "Denied"}
Outcomes == Decisions \cup {"TimedOut"}

ASSUME NoDecisionAssumption == NoDecision \notin Outcomes

VARIABLES
    asker,    \* asker[r]: where the call of request() is, or how it ended
    pending,  \* requests whose sender is in the map
    oneshot,  \* oneshot[r]: what was sent to the waiter of r, or NoDecision
    result,   \* result[r]: what request() returned, or NoDecision
    frontend, \* whether the run's event channel has a receiver
    shown,    \* requests the frontend was told of
    resolver, \* resolver[r]: decision of a resolve() that has taken the sender of r
    drained,  \* requests whose sender a cancel_all() has taken
    accepted  \* accepted[r]: decision that resolve() reported as Ok, or NoDecision

brokerVars == <<asker, pending, oneshot, result, frontend, shown, resolver, drained, accepted>>

BrokerInit ==
    /\ asker = [r \in Requests |-> "idle"]
    /\ pending = {}
    /\ oneshot = [r \in Requests |-> NoDecision]
    /\ result = [r \in Requests |-> NoDecision]
    /\ frontend = TRUE
    /\ shown = {}
    /\ resolver = [r \in Requests |-> NoDecision]
    /\ drained = {}
    /\ accepted = [r \in Requests |-> NoDecision]

Returns(r, outcome) ==
    /\ asker' = [asker EXCEPT ![r] = "returned"]
    /\ result' = [result EXCEPT ![r] = outcome]

-----------------------------------------------------------------------------
(* request() *)

Register(r) ==
    /\ asker[r] = "idle"
    /\ asker' = [asker EXCEPT ![r] = "registered"]
    /\ pending' = pending \cup {r}
    /\ UNCHANGED <<oneshot, result, frontend, shown, resolver, drained, accepted>>

Announce(r) ==
    /\ asker[r] = "registered"
    /\ frontend
    /\ asker' = [asker EXCEPT ![r] = "waiting"]
    /\ shown' = shown \cup {r}
    /\ UNCHANGED <<pending, oneshot, result, frontend, resolver, drained, accepted>>

\* The receiver is gone: the entry is removed again.
Disconnected(r) ==
    /\ asker[r] = "registered"
    /\ ~frontend
    /\ asker' = [asker EXCEPT ![r] = "disconnected"]
    /\ pending' = pending \ {r}
    /\ UNCHANGED <<oneshot, result, frontend, shown, resolver, drained, accepted>>

Hear(r) ==
    /\ asker[r] = "waiting"
    /\ oneshot[r] # NoDecision
    /\ Returns(r, oneshot[r])
    /\ UNCHANGED <<pending, oneshot, frontend, shown, resolver, drained, accepted>>

\* Fault for Elapse: the timer wins over an answer that has been sent.
ElapseFirst(r) ==
    /\ asker[r] = "waiting"
    /\ asker' = [asker EXCEPT ![r] = "elapsed"]
    /\ UNCHANGED <<pending, oneshot, result, frontend, shown, resolver, drained, accepted>>

\* Fault for Elapse: no timer.
ElapseNever(r) == FALSE /\ UNCHANGED brokerVars

\* The timeout polls the oneshot before its timer: an answer that is there is heard.
Elapse(r) ==
    /\ asker[r] = "waiting"
    /\ oneshot[r] = NoDecision
    /\ asker' = [asker EXCEPT ![r] = "elapsed"]
    /\ UNCHANGED <<pending, oneshot, result, frontend, shown, resolver, drained, accepted>>

\* Fault for Expire: the entry stays in the map.
ExpireInPlace(r) ==
    /\ asker[r] = "elapsed"
    /\ Returns(r, "TimedOut")
    /\ UNCHANGED <<pending, oneshot, frontend, shown, resolver, drained, accepted>>

Expire(r) ==
    /\ asker[r] = "elapsed"
    /\ pending' = pending \ {r}
    /\ Returns(r, "TimedOut")
    /\ UNCHANGED <<oneshot, frontend, shown, resolver, drained, accepted>>

\* The future is dropped at its await: nothing removes the entry.
Abandon(r) ==
    /\ asker[r] = "waiting"
    /\ asker' = [asker EXCEPT ![r] = "dropped"]
    /\ UNCHANGED <<pending, oneshot, result, frontend, shown, resolver, drained, accepted>>

-----------------------------------------------------------------------------
(* resolve() and cancel_all() *)

\* A oneshot takes a value while its receiver waits for it.
Sent(r, outcome) ==
    oneshot' = IF asker[r] \in {"registered", "waiting"}
               THEN [oneshot EXCEPT ![r] = outcome] ELSE oneshot

\* Fault for TakeSender: the sender is looked up and stays in the map.
BorrowSender(r, decision) ==
    /\ r \in shown \cap pending
    /\ resolver[r] = NoDecision
    /\ resolver' = [resolver EXCEPT ![r] = decision]
    /\ UNCHANGED <<asker, pending, oneshot, result, frontend, shown, drained, accepted>>

\* A resolve() of an unknown id returns Stale and changes nothing.
TakeSender(r, decision) ==
    /\ r \in shown \cap pending
    /\ pending' = pending \ {r}
    /\ resolver' = [resolver EXCEPT ![r] = decision]
    /\ UNCHANGED <<asker, oneshot, result, frontend, shown, drained, accepted>>

\* Ok is reported whether or not there still is a waiter.
SendDecision(r) ==
    /\ resolver[r] # NoDecision
    /\ Sent(r, resolver[r])
    /\ accepted' = [accepted EXCEPT ![r] = resolver[r]]
    /\ resolver' = [resolver EXCEPT ![r] = NoDecision]
    /\ UNCHANGED <<asker, pending, result, frontend, shown, drained>>

\* The requests of every run are drained, whichever run is torn down.
CancelAll ==
    /\ pending # {}
    /\ drained' = drained \cup pending
    /\ pending' = {}
    /\ UNCHANGED <<asker, oneshot, result, frontend, shown, resolver, accepted>>

SendTimedOut(r) ==
    /\ r \in drained
    /\ Sent(r, "TimedOut")
    /\ drained' = drained \ {r}
    /\ UNCHANGED <<asker, pending, result, frontend, shown, resolver, accepted>>

FrontendCloses ==
    /\ frontend
    /\ frontend' = FALSE
    /\ UNCHANGED <<asker, pending, oneshot, result, shown, resolver, drained, accepted>>

-----------------------------------------------------------------------------
Asking(r) == Register(r) \/ Announce(r) \/ Disconnected(r) \/ Hear(r) \/ Elapse(r) \/ Expire(r)
             \/ Abandon(r)

Resolving(r) == (\E d \in Decisions : TakeSender(r, d)) \/ SendDecision(r) \/ SendTimedOut(r)

BrokerNext == (\E r \in Requests : Asking(r) \/ Resolving(r)) \/ CancelAll \/ FrontendCloses

BrokerSpec == BrokerInit /\ [][BrokerNext]_brokerVars

\* What a polled request() does by itself: the timer fires.
AskerRuns(r) == Announce(r) \/ Disconnected(r) \/ Hear(r) \/ Elapse(r) \/ Expire(r)

-----------------------------------------------------------------------------
(* Properties *)

\* Every variable keeps its type.
BrokerTypeOK ==
    /\ asker \in [Requests -> {"idle", "registered", "waiting", "elapsed", "returned",
                               "disconnected", "dropped"}]
    /\ pending \subseteq Requests /\ shown \subseteq Requests /\ drained \subseteq Requests
    /\ oneshot \in [Requests -> Outcomes \cup {NoDecision}]
    /\ result \in [Requests -> Outcomes \cup {NoDecision}]
    /\ frontend \in BOOLEAN
    /\ resolver \in [Requests -> Decisions \cup {NoDecision}]
    /\ accepted \in [Requests -> Decisions \cup {NoDecision}]

Registered(r) == asker[r] \in {"registered", "waiting", "elapsed"}

\* An action is allowed only by the user's own answer to it: whatever races with the answer
\* (the timer, a teardown of another run, a second answer), what request() returns is what
\* resolve() accepted for it, or TimedOut.
ReturnsOwnAnswer ==
    \A r \in Requests : result[r] \in Decisions => result[r] = accepted[r]

\* "remove the pending entry so a late resolve returns Stale": after request() has returned,
\* resolve() finds nothing; only a future that was dropped leaves its entry behind.
OnlyDroppedLeak == \A r \in pending : Registered(r) \/ asker[r] = "dropped"

\* The permission broker gives an asker its own answer, and forgets only those who went away.
AnswersAccounted == ReturnsOwnAnswer /\ OnlyDroppedLeak

\* "We just couldn't relay it": an accepted answer misses its waiter only if the waiter had
\* left, by its timer or because it was dropped, before the answer was sent; the sender that
\* was taken from the map is used once, by resolve() or by cancel_all(), never by both.
Calls == INSTANCE CallReply WITH
    Callers <- Requests, Replies <- [r \in Requests |-> Outcomes], Silence <- NoDecision,
    reply <- oneshot,
    call <- [r \in Requests |->
                IF asker[r] \in {"registered", "waiting"} THEN "waiting"
                ELSE IF asker[r] = "idle" THEN "idle"
                ELSE IF asker[r] \in {"dropped", "disconnected"} THEN "withdrawn"
                ELSE IF asker[r] = "returned" /\ oneshot[r] # NoDecision THEN "returned"
                ELSE "failed"]
BrokerReplies == Calls!CSpec

\* To be so again and again: the default timeout is 120 seconds, and no request() waits for ever,
\* whatever the frontend does.
NobodyAsks == \A r \in Requests : ~Registered(r)
=============================================================================
