----------------------------- MODULE McpClient -----------------------------
(***************************************************************************)
(* The client of an MCP server.  Callers put requests into a channel; one  *)
(* task, the loop, writes them to the server under fresh ids, keeps the    *)
(* caller of each id, and reads what the server writes: responses, in any  *)
(* order, and requests of its own, which the loop answers.  While the loop *)
(* writes a message it does not read.  spawn() itself makes the first      *)
(* call, "initialize", and then sends a notification.                      *)
(*                                                                         *)
(* The server is external: any process behind two pipes of bounded size.   *)
(* A message that does not parse is dropped like a stray response.         *)
(***************************************************************************)
EXTENDS Integers, Sequences, FiniteSets

CONSTANTS Callers,
          Opener,   \* the call that spawn() makes
          Silence,  \* no response yet
          Broken,   \* the error of a call whose connection is gone
          Cap,      \* bound: messages a pipe holds
          MaxAsks,  \* bound: requests of the server
          MaxStray  \* bound: responses to what is answered already

ASSUME McpAssumption ==
    /\ IsFiniteSet(Callers)
    /\ Opener \in Callers
    /\ Silence \notin Callers \cup {Broken} /\ Broken \notin Callers
    /\ Cap \in Nat \ {0}
    /\ {MaxAsks, MaxStray} \subseteq Nat

Ids == 1..Cardinality(Callers)
Nobody == Silence

\* A message: a request or response with the id and what it is about, or one of the others.
Message(kind, id, about) == [kind |-> kind, id |-> id, about |-> about]
Initialized == Message("notification", 0, Nobody)
Ask == Message("ask", 0, Nobody)
Answer == Message("answer", 0, Nobody)
Nothing == Message("none", 0, Nobody)

VARIABLES
    caller,   \* caller[c]: "idle", "waiting", "returned", "failed" or "withdrawn"
    response, \* response[c]: what was sent to c: the subject of a response, or Broken
    channel,  \* requests of callers and the notification, in order
    loop,     \* "selecting", "writing", "answering", "draining" or "gone"
    held,     \* the message the loop writes
    nextId,
    waiting,  \* waiting[id]: the caller whose request has the id, or Nobody
    toServer, \* the server's stdin
    toClient, \* the server's stdout
    server,   \* "up" or "gone"
    serverHeld, \* the message the server writes
    received, \* requests the server has not answered
    answered, \* requests it has
    asks,
    strays

clientVars == <<caller, response, channel, loop, held, nextId, waiting>>
serverVars == <<server, serverHeld, received, answered, asks, strays>>
mcpVars == <<clientVars, toServer, toClient, serverVars>>

McpInit ==
    /\ caller = [c \in Callers |-> "idle"]
    /\ response = [c \in Callers |-> Silence]
    /\ channel = <<>>
    /\ loop = "selecting"
    /\ held = Nothing
    /\ nextId = 1
    /\ waiting = [id \in Ids |-> Nobody]
    /\ toServer = <<>> /\ toClient = <<>>
    /\ server = "up" /\ serverHeld = Nothing
    /\ received = {} /\ answered = {}
    /\ asks = 0 /\ strays = 0

-----------------------------------------------------------------------------
(* Callers *)

Ready == caller[Opener] = "returned" /\ response[Opener] = Opener

\* The channel is closed once the loop is gone.
Call(c) ==
    /\ caller[c] = "idle"
    /\ c = Opener \/ Ready
    /\ caller' = [caller EXCEPT ![c] = "waiting"]
    /\ channel' = IF loop = "gone" THEN channel ELSE Append(channel, Message("call", 0, c))
    /\ UNCHANGED <<response, loop, held, nextId, waiting, toServer, toClient, serverVars>>

Return(c) ==
    /\ caller[c] = "waiting" /\ response[c] # Silence
    /\ caller' = [caller EXCEPT ![c] = "returned"]
    /\ channel' = IF c = Opener /\ response[c] = Opener /\ loop # "gone"
                  THEN Append(channel, Initialized) ELSE channel
    /\ UNCHANGED <<response, loop, held, nextId, waiting, toServer, toClient, serverVars>>

\* The request was dropped with the channel.
Fail(c) ==
    /\ caller[c] = "waiting" /\ response[c] = Silence
    /\ loop = "gone"
    /\ caller' = [caller EXCEPT ![c] = "failed"]
    /\ UNCHANGED <<response, channel, loop, held, nextId, waiting, toServer, toClient, serverVars>>

\* The future of the call is dropped; its request is made nevertheless.
Withdraw(c) ==
    /\ caller[c] = "waiting"
    /\ caller' = [caller EXCEPT ![c] = "withdrawn"]
    /\ UNCHANGED <<response, channel, loop, held, nextId, waiting, toServer, toClient, serverVars>>

-----------------------------------------------------------------------------
(* The loop *)

Respond(c, r) == response' = IF caller[c] = "waiting" THEN [response EXCEPT ![c] = r] ELSE response

\* Fault for FreshId: the lowest id nobody waits for.
LowestId == CHOOSE id \in Ids : waiting[id] = Nobody /\ \A low \in 1..(id - 1) : waiting[low] # Nobody

FreshId == nextId

TakeRequest ==
    /\ loop = "selecting" /\ channel # <<>>
    /\ loop' = "writing"
    /\ channel' = Tail(channel)
    /\ IF Head(channel).kind = "call"
       THEN LET c == Head(channel).about IN
            /\ held' = Message("request", FreshId, c)
            /\ waiting' = [waiting EXCEPT ![FreshId] = c]
            /\ nextId' = nextId + 1
       ELSE held' = Head(channel) /\ UNCHANGED <<nextId, waiting>>
    /\ UNCHANGED <<caller, response, toServer, toClient, serverVars>>

WriteMessage ==
    /\ loop \in {"writing", "answering"} /\ server = "up" /\ Len(toServer) < Cap
    /\ toServer' = Append(toServer, held)
    /\ held' = Nothing
    /\ loop' = "selecting"
    /\ UNCHANGED <<caller, response, channel, nextId, waiting, toClient, serverVars>>

\* The caller of the message is told, the others when the loop has ended.
WriteFails ==
    /\ loop = "writing" /\ server = "gone"
    /\ loop' = "draining"
    /\ held' = Nothing
    /\ IF held.kind = "request" /\ waiting[held.id] # Nobody
       THEN Respond(waiting[held.id], Broken) /\ waiting' = [waiting EXCEPT ![held.id] = Nobody]
       ELSE UNCHANGED <<response, waiting>>
    /\ UNCHANGED <<caller, channel, nextId, toServer, toClient, serverVars>>

\* An answer that cannot be written is only logged.
AnswerFails ==
    /\ loop = "answering" /\ server = "gone"
    /\ loop' = "selecting"
    /\ held' = Nothing
    /\ UNCHANGED <<caller, response, channel, nextId, waiting, toServer, toClient, serverVars>>

ReadResponse ==
    /\ loop = "selecting" /\ toClient # <<>> /\ Head(toClient).kind = "response"
    /\ toClient' = Tail(toClient)
    /\ LET id == Head(toClient).id IN
       IF waiting[id] = Nobody THEN UNCHANGED <<response, waiting>>
       ELSE Respond(waiting[id], Head(toClient).about) /\ waiting' = [waiting EXCEPT ![id] = Nobody]
    /\ UNCHANGED <<caller, channel, loop, held, nextId, toServer, serverVars>>

ReadAsk ==
    /\ loop = "selecting" /\ toClient # <<>> /\ Head(toClient) = Ask
    /\ toClient' = Tail(toClient)
    /\ loop' = "answering"
    /\ held' = Answer
    /\ UNCHANGED <<caller, response, channel, nextId, waiting, toServer, serverVars>>

\* Fault for EndOfStream: an end of file is taken for an empty line.
EndOfStreamUnnoticed == FALSE

EndOfStream == server = "gone" /\ toClient = <<>>

ReadEnd ==
    /\ loop = "selecting" /\ EndOfStream
    /\ loop' = "draining"
    /\ UNCHANGED <<caller, response, channel, held, nextId, waiting, toServer, toClient, serverVars>>

DrainOne(id) ==
    /\ loop = "draining" /\ waiting[id] # Nobody
    /\ Respond(waiting[id], Broken)
    /\ waiting' = [waiting EXCEPT ![id] = Nobody]
    /\ UNCHANGED <<caller, channel, loop, held, nextId, toServer, toClient, serverVars>>

LoopEnds ==
    /\ loop = "draining" /\ \A id \in Ids : waiting[id] = Nobody
    /\ loop' = "gone"
    /\ channel' = <<>>
    /\ UNCHANGED <<caller, response, held, nextId, waiting, toServer, toClient, serverVars>>

LoopStep == \/ TakeRequest \/ WriteMessage \/ WriteFails \/ AnswerFails
            \/ ReadResponse \/ ReadAsk \/ ReadEnd \/ LoopEnds \/ (\E id \in Ids : DrainOne(id))

-----------------------------------------------------------------------------
(* The server: while it writes it does not read *)

Listening == server = "up" /\ serverHeld = Nothing

ServerReads ==
    /\ Listening /\ toServer # <<>>
    /\ toServer' = Tail(toServer)
    /\ received' = IF Head(toServer).kind = "request" THEN received \cup {Head(toServer)} ELSE received
    /\ UNCHANGED <<clientVars, toClient, server, serverHeld, answered, asks, strays>>

ServerResponds(request) ==
    /\ Listening /\ request \in received
    /\ serverHeld' = [request EXCEPT !.kind = "response"]
    /\ received' = received \ {request}
    /\ answered' = answered \cup {request}
    /\ UNCHANGED <<clientVars, toServer, toClient, server, asks, strays>>

ServerRepeats(request) ==
    /\ Listening /\ request \in answered /\ strays < MaxStray
    /\ serverHeld' = [request EXCEPT !.kind = "response"]
    /\ strays' = strays + 1
    /\ UNCHANGED <<clientVars, toServer, toClient, server, received, answered, asks>>

ServerAsks ==
    /\ Listening /\ asks < MaxAsks
    /\ serverHeld' = Ask
    /\ asks' = asks + 1
    /\ UNCHANGED <<clientVars, toServer, toClient, server, received, answered, strays>>

ServerWrites ==
    /\ server = "up" /\ serverHeld # Nothing /\ Len(toClient) < Cap
    /\ toClient' = Append(toClient, serverHeld)
    /\ serverHeld' = Nothing
    /\ UNCHANGED <<clientVars, toServer, server, received, answered, asks, strays>>

ServerExits ==
    /\ server = "up"
    /\ server' = "gone"
    /\ UNCHANGED <<clientVars, toServer, toClient, serverHeld, received, answered, asks, strays>>

-----------------------------------------------------------------------------
ServerServes == ServerReads \/ ServerWrites \/ \E request \in received : ServerResponds(request)

McpNext ==
    \/ \E c \in Callers : Call(c) \/ Return(c) \/ Fail(c) \/ Withdraw(c)
    \/ LoopStep
    \/ ServerServes
    \/ \E request \in answered : ServerRepeats(request)
    \/ ServerAsks \/ ServerExits

McpSpec == McpInit /\ [][McpNext]_mcpVars

CallerRuns(c) == Return(c) \/ Fail(c)

-----------------------------------------------------------------------------
(* Properties *)

Messages == [kind : {"call", "request", "response", "notification", "ask", "answer", "none"},
             id : Ids \cup {0}, about : Callers \cup {Nobody}]

\* Every variable keeps its type.
McpTypeOK ==
    /\ caller \in [Callers -> {"idle", "waiting", "returned", "failed", "withdrawn"}]
    /\ response \in [Callers -> Callers \cup {Broken, Silence}]
    /\ channel \in Seq(Messages) /\ toServer \in Seq(Messages) /\ toClient \in Seq(Messages)
    /\ loop \in {"selecting", "writing", "answering", "draining", "gone"}
    /\ held \in Messages /\ serverHeld \in Messages
    /\ nextId \in 1..(Cardinality(Callers) + 1)
    /\ waiting \in [Ids -> Callers \cup {Nobody}]
    /\ server \in {"up", "gone"}
    /\ received \subseteq Messages /\ answered \subseteq Messages
    /\ asks \in 0..MaxAsks /\ strays \in 0..MaxStray

\* Each call is replied to once, by the response to its own request or by the error of the
\* connection, whatever the server answers late, twice or out of order, and whoever stopped
\* waiting; without a response it fails only when the loop has ended.
McpCalls == INSTANCE CallReply WITH
    Callers <- Callers, Replies <- [c \in Callers |-> {c, Broken}], Silence <- Silence,
    call <- caller, reply <- response
McpReplies == McpCalls!CSpec

\* Both sides write to a full pipe, and neither reads.
Jammed ==
    /\ loop \in {"writing", "answering"} /\ Len(toServer) = Cap
    /\ server = "up" /\ serverHeld # Nothing /\ Len(toClient) = Cap

\* To be so again and again: no call waits for ever on a server that serves or exits; the only other way to hang (there
\* is no timeout) is that client and server fill each other's pipe, since the loop does not
\* read while it writes.
NoCallWaits == (\A c \in Callers : caller[c] # "waiting") \/ Jammed
=============================================================================
