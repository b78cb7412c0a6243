--------------------------- MODULE ManagedProcess ---------------------------
(***************************************************************************)
(* A process that the agent starts and keeps: process_start enters it in a *)
(* registry and starts two threads that read its output and one that reaps *)
(* it; each later tool is a thread of its own that looks the process up    *)
(* and takes its mutex.  process_write writes to a pipe, and process_stop  *)
(* kills and waits, with the mutex held; process_wait_for_port takes it    *)
(* once per poll.  The readers need it for every line.                     *)
(*                                                                         *)
(* A reader stops at the first line that it cannot read, as one that is    *)
(* not UTF-8, and drops its end of the pipe.                               *)
(*                                                                         *)
(* One process.  Its child is external: it reads its input or does not,    *)
(* and writes lines, through pipes of bounded size.  That killpg fails     *)
(* while the group exists, and poisoned mutexes, are left out.             *)
(***************************************************************************)
EXTENDS Integers, Sequences, FiniteSets

CONSTANTS Tools,       \* the threads of the tools
          NoTool,
          Jobs,        \* the jobs they may have, a set of functions
          MaxWrite,    \* bound: what one process_write writes
          MaxPolls,    \* bound: polls of a port before its deadline
          MaxSaid,     \* bound: lines the child writes
          PipeRoom,    \* bound: what a pipe holds
          OutputLines  \* PROCESS_OUTPUT_LINE_LIMIT

ASSUME ManagedProcessAssumption ==
    /\ NoTool \notin Tools /\ Jobs \subseteq [Tools -> {"read", "write", "stop", "port"}]
    /\ {MaxWrite, MaxPolls, PipeRoom, OutputLines} \subseteq Nat \ {0} /\ MaxSaid \in Nat

Streams == {"stdout", "stderr"}

VARIABLES
    registered, \* whether the registry has the process
    mutex,      \* the tool that holds the mutex from one step to the next, or NoTool
    exited,     \* whether exit_status is known
    shownLines, \* output_lines, each [from, line]
    tool,       \* tool[t]: "idle", "looking", "locking", ...
    job,        \* job[t]: the kind of tool t
    left,       \* left[t]: what it has still to write, or to poll
    lineReader, \* lineReader[s]: "reading", "gone", or "broken" off at a line it cannot read
    reaper,     \* "on" or "off"
    child,      \* "none", "up", "killed", "zombie" or "reaped"
    readsInput, \* whether the child reads what is written to it
    input,      \* what the pipe of its input holds
    saying,     \* the stream it writes to at the moment, or "none"
    said,       \* said[s]: lines it has begun to write
    pipe,       \* pipe[s]: the lines in the pipe, and in the buffer of its reader
    lost,       \* history: lost[s]: lines that were written, and that nobody read
    strayKill   \* whether a signal went to a process id that the system had taken back

toolVars == <<tool, job, left>>
outputVars == <<shownLines, lineReader, lost>>
childVars == <<readsInput, saying, said>>
processVars == <<registered, mutex, exited, reaper, child, input, pipe, strayKill,
                 toolVars, outputVars, childVars>>

ProcessInit ==
    /\ registered = FALSE /\ mutex = NoTool /\ exited = FALSE /\ shownLines = <<>>
    /\ tool = [t \in Tools |-> "idle"] /\ job \in Jobs /\ left = [t \in Tools |-> 0]
    /\ lineReader = [s \in Streams |-> "gone"] /\ reaper = "off"
    /\ child = "none" /\ readsInput = TRUE /\ input = 0 /\ saying = "none"
    /\ said = [s \in Streams |-> 0] /\ pipe = [s \in Streams |-> <<>>]
    /\ lost = [s \in Streams |-> 0] /\ strayKill = FALSE

-----------------------------------------------------------------------------
(* The tools *)

Becomes(t, state) == tool' = [tool EXCEPT ![t] = state]

\* Nobody knows the id before the threads run.
StartProcess ==
    /\ child = "none"
    /\ child' = "up" /\ registered' = TRUE /\ reaper' = "on"
    /\ lineReader' = [s \in Streams |-> "reading"]
    /\ UNCHANGED <<mutex, exited, shownLines, lost, input, pipe, strayKill, toolVars, childVars>>

CallTool(t) ==
    /\ tool[t] = "idle" /\ child # "none"
    /\ Becomes(t, "looking")
    /\ left' = [left EXCEPT ![t] = CASE job[t] = "write" -> MaxWrite [] job[t] = "port" -> MaxPolls [] OTHER -> 0]
    /\ UNCHANGED <<registered, mutex, exited, reaper, child, input, pipe, strayKill, job, outputVars, childVars>>

\* lookup_process, and for a stop the removal of the entry.
LookUp(t) ==
    /\ tool[t] = "looking"
    /\ Becomes(t, IF registered THEN "locking" ELSE "failed")
    /\ registered' = (registered /\ job[t] # "stop")
    /\ UNCHANGED <<mutex, exited, reaper, child, input, pipe, strayKill, job, left, outputVars, childVars>>

Locks(t, kind) == tool[t] = "locking" /\ job[t] = kind /\ mutex = NoTool

ReadOutput(t) ==
    /\ Locks(t, "read") /\ Becomes(t, "done")
    /\ UNCHANGED <<registered, mutex, exited, reaper, child, input, pipe, strayKill, job, left, outputVars, childVars>>

\* write_all, which blocks while the pipe is full, and fails once nobody reads it.
BeginWrite(t) ==
    /\ Locks(t, "write") /\ Becomes(t, "writing") /\ mutex' = t
    /\ readsInput' \in BOOLEAN
    /\ UNCHANGED <<registered, exited, reaper, child, input, saying, said, pipe, strayKill, job, left, outputVars>>

WriteOn(t) ==
    /\ tool[t] = "writing" /\ child = "up" /\ input < PipeRoom
    /\ input' = input + 1 /\ left' = [left EXCEPT ![t] = @ - 1]
    /\ IF left[t] = 1
       THEN Becomes(t, "done") /\ mutex' = NoTool
       ELSE UNCHANGED <<tool, mutex>>
    /\ UNCHANGED <<registered, exited, reaper, child, pipe, strayKill, job, outputVars, childVars>>

WriteBreaks(t) ==
    /\ tool[t] = "writing" /\ child \in {"zombie", "reaped"}
    /\ Becomes(t, "failed") /\ mutex' = NoTool
    /\ UNCHANGED <<registered, exited, reaper, child, input, pipe, strayKill, job, left, outputVars, childVars>>

\* try_wait: the status of a child that has exited is taken once.
TryWait ==
    IF child = "zombie" THEN child' = "reaped" /\ exited' = TRUE
                        ELSE exited' = (exited \/ child = "reaped") /\ UNCHANGED child

StopChecks(t) ==
    /\ Locks(t, "stop") /\ TryWait
    /\ IF exited' THEN Becomes(t, "done") /\ UNCHANGED mutex
                  ELSE Becomes(t, "killing") /\ mutex' = t
    /\ UNCHANGED <<registered, reaper, input, pipe, strayKill, job, left, outputVars, childVars>>

\* Fault for Killed: the signal is one that the child may ignore.
KilledPolitely == child

Killed == IF child = "up" THEN "killed" ELSE child

KillGroup(t) ==
    /\ tool[t] = "killing"
    /\ child' = Killed
    /\ strayKill' = (strayKill \/ child = "reaped")
    /\ Becomes(t, "awaiting")
    /\ UNCHANGED <<registered, mutex, exited, reaper, input, pipe, job, left, outputVars, childVars>>

AwaitChild(t) ==
    /\ tool[t] = "awaiting" /\ child \in {"zombie", "reaped"}
    /\ TryWait
    /\ Becomes(t, "done") /\ mutex' = NoTool
    /\ UNCHANGED <<registered, reaper, input, pipe, strayKill, job, left, outputVars, childVars>>

\* process_exit_status; a child that is up is connected to.
PollPort(t) ==
    /\ Locks(t, "port") /\ TryWait
    /\ Becomes(t, IF exited' THEN "failed" ELSE "connecting")
    /\ UNCHANGED <<registered, mutex, reaper, input, pipe, strayKill, job, left, outputVars, childVars>>

\* It is ready, or it is looked up and polled again until the deadline.
Connect(t) ==
    /\ tool[t] = "connecting"
    /\ left' = [left EXCEPT ![t] = @ - 1]
    /\ \/ Becomes(t, "done")
       \/ Becomes(t, IF left[t] = 1 THEN "failed" ELSE "looking")
    /\ UNCHANGED <<registered, mutex, exited, reaper, child, input, pipe, strayKill, job, outputVars, childVars>>

ToolRuns(t) ==
    \/ LookUp(t) \/ ReadOutput(t) \/ BeginWrite(t) \/ WriteOn(t) \/ WriteBreaks(t)
    \/ StopChecks(t) \/ KillGroup(t) \/ AwaitChild(t) \/ PollPort(t) \/ Connect(t)

-----------------------------------------------------------------------------
(* The threads of the process *)

\* Fault for ReaperEnters: the reaper asks the system without the mutex.
ReaperBargesIn == TRUE

ReaperEnters == mutex = NoTool

Reap ==
    /\ reaper = "on" /\ ReaperEnters
    /\ child \in {"zombie", "reaped"}
    /\ TryWait /\ reaper' = "off"
    /\ UNCHANGED <<registered, mutex, input, pipe, strayKill, toolVars, outputVars, childVars>>

\* Fault for Pushed: the oldest line goes when the new one has come.
PushedOver(lines, new) ==
    LET all == Append(lines, new) IN IF Len(all) >= OutputLines THEN Tail(all) ELSE all

Pushed(lines, new) == Append(IF Len(lines) >= OutputLines THEN Tail(lines) ELSE lines, new)

\* Every line needs the mutex.
PushOutput(s) ==
    /\ lineReader[s] = "reading" /\ pipe[s] # <<>> /\ mutex = NoTool
    /\ shownLines' = Pushed(shownLines, [from |-> s, line |-> Head(pipe[s])])
    /\ pipe' = [pipe EXCEPT ![s] = Tail(@)]
    /\ UNCHANGED <<registered, mutex, exited, lineReader, lost, reaper, child, input, strayKill, toolVars,
                   childVars>>

\* A read that fails ends the reader like the end of its stream: the next line is not UTF-8.
ReadBreaks(s) ==
    /\ lineReader[s] = "reading" /\ pipe[s] # <<>>
    /\ lineReader' = [lineReader EXCEPT ![s] = "broken"]
    /\ lost' = [lost EXCEPT ![s] = @ + Len(pipe[s])] /\ pipe' = [pipe EXCEPT ![s] = <<>>]
    /\ UNCHANGED <<registered, mutex, exited, shownLines, reaper, child, input, strayKill, toolVars, childVars>>

ReadToEnd(s) ==
    /\ lineReader[s] = "reading" /\ pipe[s] = <<>> /\ child \in {"zombie", "reaped"}
    /\ lineReader' = [lineReader EXCEPT ![s] = "gone"]
    /\ UNCHANGED <<registered, mutex, exited, shownLines, lost, reaper, child, input, pipe, strayKill, toolVars,
                   childVars>>

LineReader(s) == PushOutput(s) \/ ReadToEnd(s)

-----------------------------------------------------------------------------
(* The child: while it writes it does not read *)

ChildSays(s) ==
    /\ child = "up" /\ saying = "none" /\ said["stdout"] + said["stderr"] < MaxSaid
    /\ saying' = s /\ said' = [said EXCEPT ![s] = @ + 1]
    /\ UNCHANGED <<registered, mutex, exited, reaper, child, readsInput, input, pipe, strayKill, toolVars, outputVars>>

ChildWrites ==
    /\ child = "up" /\ saying # "none" /\ lineReader[saying] # "broken" /\ Len(pipe[saying]) < PipeRoom
    /\ pipe' = [pipe EXCEPT ![saying] = Append(@, said[saying])]
    /\ saying' = "none"
    /\ UNCHANGED <<registered, mutex, exited, reaper, child, readsInput, said, input, strayKill, toolVars, outputVars>>

\* Nobody reads the pipe any more: the child gets SIGPIPE, which it may survive.
ChildWritesInVain ==
    /\ child = "up" /\ saying # "none" /\ lineReader[saying] = "broken"
    /\ lost' = [lost EXCEPT ![saying] = @ + 1] /\ saying' = "none" /\ child' \in {"up", "zombie"}
    /\ UNCHANGED <<registered, mutex, exited, shownLines, lineReader, reaper, readsInput, said, input, pipe,
                   strayKill, toolVars>>

ChildReads ==
    /\ child = "up" /\ saying = "none" /\ readsInput /\ input > 0
    /\ input' = input - 1
    /\ UNCHANGED <<registered, mutex, exited, reaper, child, pipe, strayKill, toolVars, outputVars, childVars>>

ChildServes == ChildWrites \/ ChildWritesInVain \/ ChildReads

ChildExits ==
    /\ child = "up" /\ child' = "zombie"
    /\ UNCHANGED <<registered, mutex, exited, reaper, input, pipe, strayKill, toolVars, outputVars, childVars>>

ChildDies ==
    /\ child = "killed" /\ child' = "zombie"
    /\ UNCHANGED <<registered, mutex, exited, reaper, input, pipe, strayKill, toolVars, outputVars, childVars>>

ProcessNext ==
    \/ StartProcess \/ Reap \/ ChildServes \/ ChildExits \/ ChildDies
    \/ \E t \in Tools : CallTool(t) \/ ToolRuns(t)
    \/ \E s \in Streams : LineReader(s) \/ ReadBreaks(s) \/ ChildSays(s)

ProcessSpec == ProcessInit /\ [][ProcessNext]_processVars

-----------------------------------------------------------------------------
(* Properties *)

ProcessTypeOK ==
    /\ {registered, exited, readsInput, strayKill} \subseteq BOOLEAN /\ mutex \in Tools \cup {NoTool}
    /\ tool \in [Tools -> {"idle", "looking", "locking", "writing", "killing", "awaiting",
                           "connecting", "done", "failed"}]
    /\ job \in Jobs /\ \A t \in Tools : left[t] \in 0..(MaxWrite + MaxPolls)
    /\ lineReader \in [Streams -> {"reading", "gone", "broken"}] /\ lost \in [Streams -> Nat]
    /\ reaper \in {"on", "off"} /\ child \in {"none", "up", "killed", "zombie", "reaped"}
    /\ input \in 0..PipeRoom /\ saying \in Streams \cup {"none"} /\ said \in [Streams -> 0..MaxSaid]
    /\ \A s \in Streams : Len(pipe[s]) <= PipeRoom
    /\ Len(shownLines) <= OutputLines

\* Lines of a stream that its reader has pushed: those that are not being written, in its pipe or lost.
ReadOf(s) == said[s] - (IF saying = s THEN 1 ELSE 0) - Len(pipe[s]) - lost[s]

\* What the child wrote to a stream is in the output, in its order and without a gap, up to what is
\* still on its way; the output is as long as the limit allows.  Lines are lost only of a stream
\* whose reader broke off, and those are the line that it could not read and all that follow it.
OutputIsTail ==
    /\ \A s \in Streams : \A i \in DOMAIN pipe[s] : pipe[s][i] = ReadOf(s) + i
    /\ \A s \in Streams : IF lineReader[s] = "broken" THEN pipe[s] = <<>> ELSE lost[s] = 0
    /\ \A i \in DOMAIN shownLines :
           LET shown == shownLines[i]
               after == {shownLines[j] : j \in i + 1 .. Len(shownLines)}
           IN  /\ shown.line <= ReadOf(shown.from)
               /\ \A l \in after : l.from = shown.from => l.line > shown.line
               /\ \A n \in shown.line + 1 .. ReadOf(shown.from) : [from |-> shown.from, line |-> n] \in after
    /\ LET pushed == ReadOf("stdout") + ReadOf("stderr")
       IN  Len(shownLines) = (IF pushed < OutputLines THEN pushed ELSE OutputLines)

\* A stop kills the child it was asked to stop and nothing else: whoever reaps the child, no signal
\* goes to an id that the system may have given away; and a stop that succeeded has left no child.
StopsItsChild ==
    /\ ~strayKill
    /\ \A t \in Tools : job[t] = "stop" /\ tool[t] = "done" => child = "reaped"

\* The mutex is held by a write that waits for the child, which waits for a reader, which waits for
\* the mutex; or the child does not read its input.  Only here a tool waits without a limit of time.
WriteJammed ==
    /\ mutex # NoTool /\ tool[mutex] = "writing" /\ input = PipeRoom /\ child = "up"
    /\ \/ ~readsInput
       \/ saying # "none" /\ Len(pipe[saying]) = PipeRoom

\* To be so again and again: every tool returns, unless a write is jammed.
NoToolWaits == WriteJammed \/ \A t \in Tools : tool[t] \in {"idle", "done", "failed"}
=============================================================================
