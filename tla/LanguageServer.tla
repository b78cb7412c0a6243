--------------------------- MODULE LanguageServer ---------------------------
(***************************************************************************)
(* A session with a rust language server.  spawn() makes the first call,   *)
(* "initialize", and sends a notification; every later call first opens    *)
(* its document, once per session, then registers the sending half of a    *)
(* channel under a fresh id, writes the request and waits for REQUEST_     *)
(* TIMEOUT.  A reader thread takes responses to their channels and answers *)
(* the server's own requests.  A session that does not come about, and a   *)
(* call that fails, leave the caller with the index it made itself.        *)
(*                                                                         *)
(* One thread makes the calls, one after the other.  The server is         *)
(* external: any process behind two pipes of bounded size.                 *)
(***************************************************************************)
EXTENDS Integers, Sequences, FiniteSets

CONSTANTS Lookups,    \* calls made through the session
          Initialize, \* the call that spawn() makes
          Unanswered, \* no response yet
          Error,      \* an error in place of a result
          PipeSize,   \* bound: messages a pipe holds
          MaxRequests,\* bound: requests of the server
          MaxRepeats  \* bound: responses to what is answered already

ASSUME LanguageServerAssumption ==
    /\ Initialize \in Lookups /\ {Unanswered, Error} \cap Lookups = {}
    /\ Unanswered # Error
    /\ PipeSize \in Nat \ {0} /\ {MaxRequests, MaxRepeats} \subseteq Nat

NoLookup == Unanswered

Lsp(what, about) == [what |-> what, about |-> about]
NoMessage == Lsp("none", Unanswered)
DidOpen == Lsp("didOpen", Unanswered)

VARIABLES
    lookup,   \* lookup[c]: "idle", "waiting", "returned", "failed" or "withdrawn"
    found,   \* found[c]: what the reader sent to c's channel, Unanswered before
    current,  \* the call under way, or NoLookup
    doing,    \* what its thread does: "nothing", "initialized", "opening", "writing", "waiting"
    session,  \* whether spawn() has returned the session
    opened,   \* whether didOpen was sent
    senders,  \* calls whose sender is registered
    stdin, stdout, \* the server's pipes
    reader,   \* "reading", "answering", "draining" or "gone"
    lsp,      \* "up" or "gone"
    replying, \* the message the server writes
    taken,    \* requests it has read and not answered
    done,     \* requests it has answered
    requests, repeats

sessionVars == <<lookup, found, current, doing, session, opened, senders>>
peerVars == <<lsp, replying, taken, done, requests, repeats>>
lspVars == <<sessionVars, stdin, stdout, reader, peerVars>>

LspInit ==
    /\ lookup = [c \in Lookups |-> "idle"] /\ found = [c \in Lookups |-> Unanswered]
    /\ current = NoLookup /\ doing = "nothing" /\ session = FALSE /\ opened = FALSE /\ senders = {}
    /\ stdin = <<>> /\ stdout = <<>> /\ reader = "reading"
    /\ lsp = "up" /\ replying = NoMessage /\ taken = {} /\ done = {}
    /\ requests = 0 /\ repeats = 0

-----------------------------------------------------------------------------
(* The thread that calls *)

Writes(message) == lsp = "up" /\ Len(stdin) < PipeSize /\ stdin' = Append(stdin, message)

\* ensure_document_open: the set has the document before the server does.
StartLookup(c) ==
    /\ current = NoLookup /\ doing = "nothing" /\ lookup[c] = "idle"
    /\ c # Initialize => session
    /\ current' = c
    /\ doing' = IF c = Initialize \/ opened THEN "registering" ELSE "opening"
    /\ opened' = (opened \/ c # Initialize)
    /\ UNCHANGED <<lookup, found, session, senders, stdin, stdout, reader, peerVars>>

OpenDocument ==
    /\ doing = "opening" /\ Writes(DidOpen)
    /\ doing' = "registering"
    /\ UNCHANGED <<lookup, found, current, session, opened, senders, stdout, reader, peerVars>>

\* The call ends before it was made.
OpenFails ==
    /\ doing = "opening" /\ lsp = "gone"
    /\ doing' = "nothing" /\ current' = NoLookup
    /\ UNCHANGED <<lookup, found, session, opened, senders, stdin, stdout, reader, peerVars>>

RegisterSender ==
    /\ doing = "registering"
    /\ doing' = "writing"
    /\ senders' = senders \cup {current}
    /\ lookup' = [lookup EXCEPT ![current] = "waiting"]
    /\ UNCHANGED <<found, current, session, opened, stdin, stdout, reader, peerVars>>

WriteRequest ==
    /\ doing = "writing" /\ Writes(Lsp("request", current))
    /\ doing' = "waiting"
    /\ UNCHANGED <<lookup, found, current, session, opened, senders, stdout, reader, peerVars>>

\* The request never got out; its sender stays registered.
RequestUnwritten ==
    /\ doing = "writing" /\ lsp = "gone"
    /\ doing' = "nothing" /\ current' = NoLookup
    /\ lookup' = [lookup EXCEPT ![current] = "withdrawn"]
    /\ UNCHANGED <<found, session, opened, senders, stdin, stdout, reader, peerVars>>

Receive ==
    /\ doing = "waiting" /\ found[current] # Unanswered
    /\ lookup' = [lookup EXCEPT ![current] = "returned"]
    /\ doing' = IF current = Initialize /\ found[current] # Error THEN "initialized" ELSE "nothing"
    /\ current' = NoLookup
    /\ UNCHANGED <<found, session, opened, senders, stdin, stdout, reader, peerVars>>

\* Fault for Unregister: the sender of a call that timed out stays.
StayRegistered(c) == senders

Unregister(c) == senders \ {c}

\* Fault for RequestTimesOut: the wait for a response has no limit.
WaitsForever == FALSE

RequestTimesOut ==
    /\ doing = "waiting" /\ found[current] = Unanswered
    /\ lookup' = [lookup EXCEPT ![current] = "failed"]
    /\ senders' = Unregister(current)
    /\ doing' = "nothing" /\ current' = NoLookup
    /\ UNCHANGED <<found, session, opened, stdin, stdout, reader, peerVars>>

\* The notification; when it cannot be written there is no session.
SayInitialized ==
    /\ doing = "initialized"
    /\ \/ Writes(Lsp("initialized", Unanswered)) /\ session' = TRUE
       \/ lsp = "gone" /\ UNCHANGED <<stdin, session>>
    /\ doing' = "nothing"
    /\ UNCHANGED <<lookup, found, current, opened, senders, stdout, reader, peerVars>>

CallingThread ==
    \/ OpenDocument \/ OpenFails \/ RegisterSender \/ WriteRequest \/ RequestUnwritten
    \/ Receive \/ RequestTimesOut \/ SayInitialized

-----------------------------------------------------------------------------
(* The reader thread *)

\* Fault for Addressees: a response is for whoever waits.
AnyAddressee(c) == senders

Addressees(c) == senders \cap {c}

\* A response that nobody waits for is dropped.
ReadResult ==
    /\ reader = "reading" /\ stdout # <<>> /\ Head(stdout).what \in {"response", "error"}
    /\ stdout' = Tail(stdout)
    /\ LET c == Head(stdout).about
           r == IF Head(stdout).what = "error" THEN Error ELSE c
       IN  /\ found' = [d \in Lookups |-> IF d \in Addressees(c) /\ lookup[d] = "waiting" THEN r ELSE found[d]]
           /\ senders' = senders \ Addressees(c)
    /\ UNCHANGED <<lookup, current, doing, session, opened, stdin, reader, peerVars>>

ReadRequest ==
    /\ reader = "reading" /\ stdout # <<>> /\ Head(stdout).what = "ask"
    /\ stdout' = Tail(stdout) /\ reader' = "answering"
    /\ UNCHANGED <<sessionVars, stdin, peerVars>>

\* An answer that cannot be written is dropped.
AnswerRequest ==
    /\ reader = "answering"
    /\ \/ Writes(Lsp("answer", Unanswered))
       \/ lsp = "gone" /\ UNCHANGED stdin
    /\ reader' = "reading"
    /\ UNCHANGED <<sessionVars, stdout, peerVars>>

\* The end of the stream, or a message that has no length or is not UTF-8.
ReadFails ==
    /\ reader = "reading"
    /\ \/ stdout = <<>> /\ lsp = "gone"
       \/ stdout # <<>> /\ Head(stdout).what = "garbage"
    /\ reader' = "draining" /\ stdout' = <<>>
    /\ UNCHANGED <<sessionVars, stdin, peerVars>>

DrainSenders ==
    /\ reader = "draining"
    /\ reader' = "gone" /\ senders' = {}
    /\ found' = [c \in Lookups |-> IF c \in senders /\ lookup[c] = "waiting" THEN Error ELSE found[c]]
    /\ UNCHANGED <<lookup, current, doing, session, opened, stdin, stdout, peerVars>>

Reader == ReadResult \/ ReadRequest \/ AnswerRequest \/ ReadFails \/ DrainSenders

-----------------------------------------------------------------------------
(* The server: while it writes it does not read *)

Attentive == lsp = "up" /\ replying = NoMessage

PeerReads ==
    /\ Attentive /\ stdin # <<>>
    /\ stdin' = Tail(stdin)
    /\ taken' = IF Head(stdin).what = "request" THEN taken \cup {Head(stdin).about} ELSE taken
    /\ UNCHANGED <<sessionVars, stdout, reader, lsp, replying, done, requests, repeats>>

PeerResponds(c) ==
    /\ Attentive /\ c \in taken
    /\ replying' \in {Lsp("response", c), Lsp("error", c), Lsp("garbage", c)}
    /\ taken' = taken \ {c} /\ done' = done \cup {c}
    /\ UNCHANGED <<sessionVars, stdin, stdout, reader, lsp, requests, repeats>>

PeerRepeats(c) ==
    /\ Attentive /\ c \in done /\ repeats < MaxRepeats
    /\ replying' = Lsp("response", c) /\ repeats' = repeats + 1
    /\ UNCHANGED <<sessionVars, stdin, stdout, reader, lsp, taken, done, requests>>

PeerAsks ==
    /\ Attentive /\ requests < MaxRequests
    /\ replying' = Lsp("ask", Unanswered) /\ requests' = requests + 1
    /\ UNCHANGED <<sessionVars, stdin, stdout, reader, lsp, taken, done, repeats>>

\* Nobody reads any more once the reader is gone.
PeerWrites ==
    /\ lsp = "up" /\ replying # NoMessage /\ Len(stdout) < PipeSize
    /\ stdout' = IF reader \in {"draining", "gone"} THEN stdout ELSE Append(stdout, replying)
    /\ replying' = NoMessage
    /\ UNCHANGED <<sessionVars, stdin, reader, lsp, taken, done, requests, repeats>>

PeerExits ==
    /\ lsp = "up" /\ lsp' = "gone"
    /\ UNCHANGED <<sessionVars, stdin, stdout, reader, replying, taken, done, requests, repeats>>

PeerServes == PeerReads \/ PeerWrites

LspNext ==
    \/ \E c \in Lookups : StartLookup(c) \/ PeerResponds(c) \/ PeerRepeats(c)
    \/ CallingThread \/ Reader \/ PeerServes \/ PeerAsks \/ PeerExits

LspSpec == LspInit /\ [][LspNext]_lspVars

-----------------------------------------------------------------------------
(* Properties *)

LspTypeOK ==
    /\ lookup \in [Lookups -> {"idle", "waiting", "returned", "failed", "withdrawn"}]
    /\ found \in [Lookups -> Lookups \cup {Unanswered, Error}]
    /\ current \in Lookups \cup {NoLookup} /\ {session, opened} \subseteq BOOLEAN
    /\ doing \in {"nothing", "initialized", "opening", "registering", "writing", "waiting"}
    /\ senders \subseteq Lookups /\ taken \subseteq Lookups /\ done \subseteq Lookups
    /\ reader \in {"reading", "answering", "draining", "gone"} /\ lsp \in {"up", "gone"}
    /\ Len(stdin) <= PipeSize /\ Len(stdout) <= PipeSize
    /\ requests \in 0..MaxRequests /\ repeats \in 0..MaxRepeats

\* A sender is registered for the call that waits; one is left behind only by a call whose request
\* the server never got.
NoSenderLeaks == \A c \in senders : lookup[c] = "waiting" \/ (lookup[c] = "withdrawn" /\ c \notin taken \cup done)

\* A call returns the result of its own request, or an error, however late, often or wrongly the
\* server answers; a call that timed out is never replied to.
LspCalls == INSTANCE CallReply WITH
    Callers <- Lookups, Replies <- [c \in Lookups |-> {c, Error}], Silence <- Unanswered,
    call <- lookup, reply <- found
LspReplies == LspCalls!CSpec

\* Both sides write to a full pipe: only here the calling thread waits without a limit of time.
PipesFull ==
    /\ reader = "answering" /\ Len(stdin) = PipeSize
    /\ lsp = "up" /\ replying # NoMessage /\ Len(stdout) = PipeSize

\* To be so again and again: a call is over in the end, on a server that reads or exits, unless
\* both sides fill their pipes.
NoLookupWaits == doing = "nothing" \/ PipesFull
=============================================================================
