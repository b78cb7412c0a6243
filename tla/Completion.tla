----------------------------- MODULE Completion -----------------------------
(***************************************************************************)
(* One completion of the remote model: RemoteCompletionClient calls until  *)
(* a call succeeds or too many have failed; a call posts the request,      *)
(* again when the provider is over its rate and once more, as a stream,    *)
(* when the provider refuses the schema of native tools; and a stream is   *)
(* read chunk by chunk, line by line, under three timeouts.  The body of   *)
(* an answer to native tools is read at once and under none of the three.  *)
(*                                                                         *)
(* The provider is external: it answers as it likes and its stream comes   *)
(* in chunks that end anywhere, within a line or a character.  It says     *)
(* nothing after "[DONE]".  Texts are numbered; "think" is reasoning,      *)
(* "noise" a comment or a line that does not parse, an error included.  Of *)
(* the lines of a chunk that are not texts it makes no difference how many *)
(* there are and where.                                                    *)
(***************************************************************************)
EXTENDS Integers, Sequences

CONSTANTS MaxCalls,   \* calls the client makes before it reports the error (5)
          Retries,    \* posts of a call that may be repeated over the provider's rate
          Backoff,    \* the pause before such a post
          FirstToken, \* watchdog: time until something is said
          IdleTimeout,       \* watchdog: time until the next chunk
          Total,      \* watchdog: time of the call
          ReadTimeout,\* time until the next bytes, of the HTTP client
          MaxTexts,   \* bound: texts in a stream
          NoLine

LineKinds == {"text", "think", "usage", "noise", "done"}

\* The begun line: its kind, and whether a chunk ended within a character of its text.
Begun == {line \in [kind : LineKinds, split : BOOLEAN] : line.split => line.kind = "text"}

ASSUME CompletionAssumption ==
    /\ {MaxCalls, FirstToken, IdleTimeout, Total, ReadTimeout} \subseteq Nat \ {0}
    /\ {Retries, Backoff, MaxTexts} \subseteq Nat /\ NoLine \notin Begun

\* A chunk: whether it ends the begun line, how many whole texts it has, which other lines, and the
\* line it begins.
Chunks ==
    {chunk \in [rest : BOOLEAN, texts : 0..MaxTexts, others : SUBSET (LineKinds \ {"text"}),
                tail : Begun \cup {NoLine}] :
        /\ chunk.rest \/ chunk.texts > 0 \/ chunk.others # {} \/ chunk.tail # NoLine
        /\ "done" \in chunk.others => chunk.tail = NoLine}

VARIABLES
    stage,   \* how far the client is
    asked,   \* whether native tools are asked for
    native,  \* whether the current post asks for them
    failed,  \* calls that have failed
    limited, \* posts of the call that were over the rate
    posts,   \* history: all posts
    elapsed, \* time since the call began
    quiet,   \* time since the client waits
    spoken,  \* texts the provider has finished, TRUE for one that was split within a character
    begun,   \* the line it has begun, which is what the client has in line_buffer
    content, \* what the client has read: numbers of texts, TRUE for a character that was lost
    heard,   \* whether text or reasoning was read
    usage,   \* "none", "reported" or "estimated"
    saidDone    \* whether the provider has said "[DONE]"

wire == <<spoken, begun, saidDone>>
reading == <<content, heard, usage>>
completionVars == <<stage, asked, native, failed, limited, posts, elapsed, quiet, wire, reading>>

CompletionInit ==
    /\ stage = "idle" /\ asked = FALSE /\ native = FALSE
    /\ failed = 0 /\ limited = 0 /\ posts = 0 /\ elapsed = 0 /\ quiet = 0
    /\ spoken = <<>> /\ begun = NoLine /\ saidDone = FALSE
    /\ content = <<>> /\ heard = FALSE /\ usage = "none"

\* Time beyond this is told apart by nothing.
Horizon == Total + FirstToken + IdleTimeout
Later(time) == IF elapsed + time < Horizon THEN elapsed + time ELSE Horizon

Stages == {"idle", "calling", "posted", "backoff", "readingBody", "streaming", "pausing", "returned", "failed"}

-----------------------------------------------------------------------------
(* The call *)

\* Fault for Fresh: what was read of the last stream is kept.
FreshButContent ==
    /\ limited' = 0 /\ elapsed' = 0 /\ quiet' = 0
    /\ spoken' = <<>> /\ begun' = NoLine /\ saidDone' = FALSE
    /\ UNCHANGED reading

\* request_single_completion_details: every state of its own begins anew.
Fresh ==
    /\ limited' = 0 /\ elapsed' = 0 /\ quiet' = 0
    /\ spoken' = <<>> /\ begun' = NoLine /\ saidDone' = FALSE
    /\ content' = <<>> /\ heard' = FALSE /\ usage' = "none"

Begin ==
    /\ stage = "idle" /\ stage' = "calling"
    /\ asked' \in BOOLEAN /\ native' = asked'
    /\ UNCHANGED <<failed, limited, posts, elapsed, quiet, wire, reading>>

Post ==
    /\ stage = "calling"
    /\ stage' = "posted" /\ posts' = posts + 1 /\ quiet' = 0
    /\ UNCHANGED <<asked, native, failed, limited, elapsed, wire, reading>>

\* Fault for CountFailure: the last call of all is not counted.
CountFailureLate ==
    /\ failed' = failed + 1
    /\ stage' = IF failed >= MaxCalls THEN "failed" ELSE "pausing"

\* An error of any kind ends the call; after the last one the client gives up.
CountFailure ==
    /\ failed' = failed + 1
    /\ stage' = IF failed + 1 >= MaxCalls THEN "failed" ELSE "pausing"

CallFails == CountFailure /\ UNCHANGED <<asked, native, limited, posts, elapsed, quiet, wire, reading>>

\* The client has slept for its delay.
CallAgain ==
    /\ stage = "pausing"
    /\ stage' = "calling" /\ native' = asked
    /\ Fresh
    /\ UNCHANGED <<asked, failed, posts>>

RateLimited ==
    /\ stage = "posted"
    /\ \/ limited < Retries /\ stage' = "backoff"
          /\ UNCHANGED <<asked, native, failed, limited, posts, elapsed, quiet, wire, reading>>
       \/ limited >= Retries /\ CallFails

PostAgain ==
    /\ stage = "backoff"
    /\ stage' = "calling" /\ limited' = limited + 1 /\ elapsed' = Later(Backoff)
    /\ UNCHANGED <<asked, native, failed, posts, quiet, wire, reading>>

\* The request is made once more without native tools, as a call within the call.
RefusesTools ==
    /\ stage = "posted" /\ native
    /\ stage' = "calling" /\ native' = FALSE
    /\ Fresh
    /\ UNCHANGED <<asked, failed, posts>>

\* Another status, a connection that fails, a body that does not parse.
Breaks == stage \in {"posted", "readingBody"} /\ CallFails

AcceptsNative ==
    /\ stage = "posted" /\ native
    /\ stage' = "readingBody" /\ quiet' = 0
    /\ UNCHANGED <<asked, native, failed, limited, posts, elapsed, wire, reading>>

\* The body comes in pieces; each restarts the timeout of the HTTP client.
BodyTrickles ==
    /\ stage = "readingBody" /\ quiet > 0
    /\ quiet' = 0
    /\ UNCHANGED <<stage, asked, native, failed, limited, posts, elapsed, wire, reading>>

BodyRead ==
    /\ stage = "readingBody"
    /\ stage' = "returned" /\ saidDone' = TRUE
    /\ \E n \in 0..MaxTexts :
          /\ spoken' = [i \in 1..n |-> FALSE]
          /\ content' = [i \in 1..n |-> <<i, FALSE>>] /\ heard' = (n > 0)
    /\ usage' \in {"reported", "estimated"}
    /\ UNCHANGED <<asked, native, failed, limited, posts, elapsed, quiet, begun>>

-----------------------------------------------------------------------------
(* The stream *)

\* Fault for Overdue: the time of the whole call is not looked at.
OverdueAtFirst(someHeard) == ~someHeard /\ elapsed >= FirstToken

\* The checks at the top of the reading loop.
Overdue(someHeard) == elapsed >= Total \/ (~someHeard /\ elapsed >= FirstToken)

AcceptsStream ==
    /\ stage = "posted" /\ ~native
    /\ \/ Overdue(FALSE) /\ CallFails
       \/ /\ ~Overdue(FALSE) /\ stage' = "streaming" /\ quiet' = 0
          /\ UNCHANGED <<asked, native, failed, limited, posts, elapsed, wire, reading>>

\* The begun line goes on, a chunk that says no more than that included.
GoesOn(chunk) ==
    /\ chunk.rest => begun # NoLine
    /\ begun # NoLine /\ ~chunk.rest =>
          chunk.texts = 0 /\ chunk.others = {} /\ chunk.tail # NoLine /\ chunk.tail.kind = begun.kind
          /\ (begun.split => chunk.tail.split)
    /\ chunk.rest /\ begun.kind = "done" => chunk.texts = 0 /\ chunk.others = {} /\ chunk.tail = NoLine

\* The kinds of the lines that it ends, and the texts, TRUE for one that was split.
Ends(chunk) ==
    chunk.others \cup (IF chunk.texts > 0 THEN {"text"} ELSE {}) \cup (IF chunk.rest THEN {begun.kind} ELSE {})
Texts(chunk) ==
    (IF chunk.rest /\ begun.kind = "text" THEN <<begun.split>> ELSE <<>>) \o [i \in 1..chunk.texts |-> FALSE]

\* The content with more texts.
With(texts) == content \o [i \in 1..Len(texts) |-> <<Len(content) + i, texts[i]>>]

\* Fault for ReadTexts: a line that a chunk ended in is lost.
ReadWholeTexts(chunk) == With([i \in 1..chunk.texts |-> FALSE])

\* Reads the lines that a chunk ends, up to "[DONE]".
ReadTexts(chunk) == With(Texts(chunk))

\* The client's estimate, when no usage was streamed.
UsageOf(reported) == IF reported = "none" THEN "estimated" ELSE reported

Chunk ==
    /\ stage = "streaming"
    /\ \E chunk \in Chunks :
          LET kinds == Ends(chunk)
              reported == IF "usage" \in kinds THEN "reported" ELSE usage
          IN  /\ GoesOn(chunk) /\ Len(spoken \o Texts(chunk)) <= MaxTexts
              /\ spoken' = spoken \o Texts(chunk) /\ begun' = chunk.tail /\ saidDone' = ("done" \in kinds)
              /\ content' = ReadTexts(chunk) /\ heard' = (heard \/ kinds \cap {"text", "think"} # {})
              /\ usage' = IF saidDone' THEN UsageOf(reported) ELSE reported
    /\ \/ saidDone' /\ stage' = "returned" /\ UNCHANGED <<failed, quiet>>
       \/ ~saidDone' /\ ~Overdue(heard') /\ quiet' = 0 /\ UNCHANGED <<stage, failed>>
       \/ ~saidDone' /\ Overdue(heard') /\ CountFailure /\ UNCHANGED quiet
    /\ UNCHANGED <<asked, native, limited, posts, elapsed>>

\* Fault for StreamCloses: the end of the stream is taken for the end of the answer.
StreamClosesWell ==
    /\ stage = "streaming"
    /\ stage' = "returned" /\ usage' = UsageOf(usage)
    /\ UNCHANGED <<asked, native, failed, limited, posts, elapsed, quiet, wire, content, heard>>

\* The end of the stream, by an error or not: what is left in the buffer is read, but the call fails.
StreamCloses ==
    /\ stage = "streaming"
    /\ CallFails

-----------------------------------------------------------------------------
(* Time *)

Shorter(m, n) == IF m < n THEN m ELSE n
Longer(m, n) == IF m < n THEN n ELSE m

\* How long the client waits for what comes next.
Patience ==
    IF stage = "streaming" THEN Shorter(ReadTimeout, IF heard THEN IdleTimeout ELSE FirstToken) ELSE ReadTimeout

Waiting == stage \in {"posted", "readingBody", "streaming"}

\* Bound: a body of an answer to native tools has no limit of time.
TimePasses ==
    /\ Waiting /\ quiet < Patience
    /\ quiet' = quiet + 1
    /\ elapsed' = IF stage = "readingBody" THEN elapsed ELSE Later(1)
    /\ UNCHANGED <<stage, asked, native, failed, limited, posts, wire, reading>>

TimesOut == Waiting /\ quiet >= Patience /\ CallFails

-----------------------------------------------------------------------------
ClientRuns == Post \/ CallAgain \/ PostAgain \/ TimesOut

Provider ==
    \/ RateLimited \/ RefusesTools \/ Breaks \/ AcceptsNative \/ BodyTrickles \/ BodyRead
    \/ AcceptsStream \/ Chunk \/ StreamCloses

CompletionNext == Begin \/ ClientRuns \/ Provider \/ TimePasses

CompletionSpec == CompletionInit /\ [][CompletionNext]_completionVars

-----------------------------------------------------------------------------
(* Properties *)

CompletionTypeOK ==
    /\ stage \in Stages /\ {asked, native, heard, saidDone} \subseteq BOOLEAN
    /\ {failed, limited, posts, elapsed, quiet} \subseteq Nat
    /\ spoken \in Seq(BOOLEAN) /\ Len(spoken) <= MaxTexts /\ begun \in Begun \cup {NoLine}
    /\ \A i \in DOMAIN content : content[i] \in (1..MaxTexts) \X BOOLEAN
    /\ usage \in {"none", "reported", "estimated"}

\* An answer is everything the provider said in the last stream, to its "[DONE]", and nothing of
\* an earlier one; characters are lost only where a chunk ended within one.
AnswerIsWhole ==
    stage = "returned" => saidDone /\ content = [i \in 1..Len(spoken) |-> <<i, spoken[i]>>]

\* The provider is asked no more often than the retries, the calls and the fallback allow.
PostsBounded == posts <= MaxCalls * (Retries + 1) * (IF asked THEN 2 ELSE 1)

\* A stream is over in the time of the call and one more wait; and so long as nothing was said,
\* in twice the time for the first token.
StreamTimely ==
    stage = "streaming" =>
        /\ elapsed < Total + Longer(FirstToken, IdleTimeout)
        /\ ~heard => elapsed < 2 * FirstToken + 1

\* To be so again and again: a completion returns, whatever the provider says and for how long; but
\* the body of an answer to native tools may trickle in for ever.
CompletionOver == stage \in {"idle", "readingBody", "returned", "failed"}
=============================================================================
