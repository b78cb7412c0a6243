------------------------------- MODULE LogFile -------------------------------
(***************************************************************************)
(* The log file of quorp (crate zlog): every process appends its lines to  *)
(* the one file paths::log_file() names, and copies it to the old log,     *)
(* then empties it, when its own count says that the file is full.         *)
(*                                                                         *)
(* The threads of a process take turns under a mutex, so a process is one  *)
(* actor; processes share only the two files.  A line is written piece by  *)
(* piece, one system call each, and sizes are counted in pieces.  A file   *)
(* that is opened at the start is appended to; after a rotation a process  *)
(* writes where its own last piece ended.                                  *)
(***************************************************************************)
EXTENDS Integers, Sequences, SequencesExt, FiniteSets

CONSTANTS LogProcesses,
          AtEnd,        \* the position of a handle that appends
          Hole,         \* what a file has between its end and a write beyond it
          MaxLog,       \* SINK_FILE_SIZE_BYTES_MAX
          LineParts,    \* pieces of a line
          MaxSubmitted, \* bound: pieces spent in all
          MaxOutages,   \* bound: file operations that fail
          MaxExits      \* bound: processes that end or are killed

ASSUME LogAssumption ==
    /\ IsFiniteSet(LogProcesses) /\ AtEnd \notin Nat
    /\ {MaxLog, LineParts} \subseteq Nat \ {0}
    /\ {MaxSubmitted, MaxOutages, MaxExits} \subseteq Nat

VARIABLES
    logFile, oldLog, \* the two files, as sequences of pieces
    rotates,         \* whether there is a path for the old log
    sink,            \* sink[w]: "off", "starting", "open", "full", "copying", "copied" or "mute"
    position,        \* position[w]: where its handle writes next
    pieces,          \* pieces[w]: what it has written of the line it is at
    counted,         \* counted[w]: SINK_FILE_SIZE_BYTES
    spent,           \* pieces written so far
    submitted,       \* history: these, in order, until two processes have the log or something fails
    crowded,         \* history: whether two processes have had the log at one time
    outages, exits

sinkVars == <<sink, position, pieces, counted>>
logVars == <<logFile, oldLog, rotates, sinkVars, spent, submitted, crowded, outages, exits>>

LogInit ==
    /\ logFile = <<>> /\ oldLog = <<>> /\ rotates \in BOOLEAN
    /\ sink = [w \in LogProcesses |-> "off"] /\ position = [w \in LogProcesses |-> 0]
    /\ pieces = position /\ counted = position
    /\ spent = 0 /\ submitted = <<>> /\ crowded = FALSE /\ outages = 0 /\ exits = 0

-----------------------------------------------------------------------------
(* init_output_file *)

\* Its test of the size; the thread that logs comes later.
StartLog(w) ==
    /\ sink[w] = "off"
    /\ sink' = [sink EXCEPT ![w] = IF Len(logFile) >= MaxLog THEN "full" ELSE "starting"]
    /\ crowded' = (crowded \/ \E v \in LogProcesses \ {w} : sink[v] # "off")
    /\ submitted' = IF crowded' THEN <<>> ELSE submitted
    /\ UNCHANGED <<logFile, oldLog, rotates, position, pieces, counted, spent, outages, exits>>

\* Fault for FirstCount: what the file has already is not counted.
FirstCountOfOwn == 0

FirstCount == Len(logFile)

OpenAppend(w) ==
    /\ sink[w] = "starting"
    /\ sink' = [sink EXCEPT ![w] = "open"] /\ position' = [position EXCEPT ![w] = AtEnd]
    /\ counted' = [counted EXCEPT ![w] = FirstCount]
    /\ UNCHANGED <<logFile, oldLog, rotates, pieces, spent, submitted, crowded, outages, exits>>

-----------------------------------------------------------------------------
(* submit *)

\* A write at an offset: over what is there, or beyond the end.
WrittenAt(file, n, piece) ==
    [k \in 1..(IF n < Len(file) THEN Len(file) ELSE n + 1) |->
        IF k = n + 1 THEN piece ELSE IF k <= Len(file) THEN file[k] ELSE Hole]

\* What a process does next at the end of its line: it rotates when its count passes the limit.
AfterLogged(w, total) == IF total > MaxLog THEN "full" ELSE "open"

WritePiece(w) ==
    LET piece == [by |-> w, nth |-> pieces[w] + 1]
        last == pieces[w] + 1 = LineParts
    IN
    /\ sink[w] = "open" /\ spent < MaxSubmitted /\ spent' = spent + 1
    /\ IF position[w] = AtEnd
       THEN logFile' = Append(logFile, piece) /\ UNCHANGED position
       ELSE /\ logFile' = WrittenAt(logFile, position[w], piece)
            /\ position' = [position EXCEPT ![w] = @ + 1]
    /\ submitted' = IF crowded \/ outages > 0 THEN <<>> ELSE Append(submitted, piece)
    /\ pieces' = [pieces EXCEPT ![w] = IF last THEN 0 ELSE @ + 1]
    /\ IF last
       THEN /\ counted' = [counted EXCEPT ![w] = @ + LineParts]
            /\ sink' = [sink EXCEPT ![w] = AfterLogged(w, counted[w] + LineParts)]
       ELSE UNCHANGED <<counted, sink>>
    /\ UNCHANGED <<oldLog, rotates, crowded, outages, exits>>

\* The rest of the line is dropped.
WriteFails(w) ==
    /\ sink[w] = "open" /\ outages < MaxOutages /\ outages' = outages + 1 /\ submitted' = <<>>
    /\ pieces' = [pieces EXCEPT ![w] = 0]
    /\ counted' = [counted EXCEPT ![w] = @ + pieces[w]]
    /\ sink' = [sink EXCEPT ![w] = AfterLogged(w, counted[w] + pieces[w])]
    /\ UNCHANGED <<logFile, oldLog, rotates, position, spent, crowded, exits>>

-----------------------------------------------------------------------------
(* rotate_log_file: the handle has been dropped *)

SinkGoes(w, state) == sink' = [sink EXCEPT ![w] = state]
OnlyFiles == <<rotates, position, pieces, counted, spent, crowded, exits>>

\* Fault for Copies: an old log that is there already is not replaced.
CopiesOnce == rotates /\ oldLog = <<>>

\* Without a path the log is emptied only.
Copies == rotates

\* The copy empties its target first.
BeginCopy(w) ==
    /\ sink[w] = "full"
    /\ IF Copies THEN SinkGoes(w, "copying") /\ oldLog' = <<>> ELSE SinkGoes(w, "copied") /\ UNCHANGED oldLog
    /\ UNCHANGED <<logFile, submitted, outages, OnlyFiles>>

FinishCopy(w) ==
    /\ sink[w] = "copying" /\ SinkGoes(w, "copied") /\ oldLog' = logFile
    /\ UNCHANGED <<logFile, submitted, outages, OnlyFiles>>

\* A copy that fails is only reported.
CopyFails(w) ==
    /\ sink[w] = "copying" /\ outages < MaxOutages /\ outages' = outages + 1 /\ submitted' = <<>>
    /\ SinkGoes(w, "copied")
    /\ UNCHANGED <<logFile, oldLog, OnlyFiles>>

\* At the start the count is the length of the emptied file, else it is reset.
TruncateLog(w) ==
    /\ sink[w] = "copied" /\ SinkGoes(w, "open") /\ logFile' = <<>>
    /\ position' = [position EXCEPT ![w] = 0] /\ counted' = [counted EXCEPT ![w] = 0]
    /\ UNCHANGED <<oldLog, rotates, pieces, spent, submitted, crowded, outages, exits>>

\* No later line of the process reaches a file.
TruncateFails(w) ==
    /\ sink[w] = "copied" /\ outages < MaxOutages /\ outages' = outages + 1 /\ submitted' = <<>>
    /\ SinkGoes(w, "mute")
    /\ UNCHANGED <<logFile, oldLog, OnlyFiles>>

\* It ends, or is killed; nothing is buffered.
LeaveLog(w) ==
    /\ sink[w] # "off" /\ exits < MaxExits /\ exits' = exits + 1
    /\ SinkGoes(w, "off")
    /\ position' = [position EXCEPT ![w] = 0] /\ pieces' = [pieces EXCEPT ![w] = 0]
    /\ counted' = [counted EXCEPT ![w] = 0]
    /\ UNCHANGED <<logFile, oldLog, rotates, spent, submitted, crowded, outages>>

LogNext ==
    \E w \in LogProcesses :
        \/ StartLog(w) \/ OpenAppend(w) \/ WritePiece(w) \/ WriteFails(w) \/ BeginCopy(w) \/ FinishCopy(w)
        \/ CopyFails(w) \/ TruncateLog(w) \/ TruncateFails(w) \/ LeaveLog(w)

LogSpec == LogInit /\ [][LogNext]_logVars

-----------------------------------------------------------------------------
(* Properties *)

LogPieces == [by : LogProcesses, nth : 1..LineParts]

LogTypeOK ==
    /\ logFile \in Seq(LogPieces \cup {Hole}) /\ oldLog \in Seq(LogPieces \cup {Hole})
    /\ sink \in [LogProcesses -> {"off", "starting", "open", "full", "copying", "copied", "mute"}]
    /\ position \in [LogProcesses -> 0..MaxSubmitted \cup {AtEnd}]
    /\ pieces \in [LogProcesses -> 0..LineParts - 1] /\ counted \in [LogProcesses -> Nat]
    /\ rotates \in BOOLEAN /\ crowded \in BOOLEAN /\ spent \in 0..MaxSubmitted

\* As long as processes log one after the other and no file operation has failed, the old log and
\* the log are what was written last, in order and without a gap, as much as fills a file, also
\* when a process is killed in the middle of a rotation.  (Two processes at a time overwrite each
\* other after a rotation, and the second to rotate empties the old log.)
RecentLinesKept ==
    ~crowded /\ outages = 0 =>
        /\ IsSuffix(logFile, submitted)
        /\ rotates => \E kept \in {oldLog \o logFile, logFile} :
                         /\ IsSuffix(kept, submitted)
                         /\ Len(kept) >= IF spent < MaxLog THEN spent ELSE MaxLog

\* The log stays within what fits and a line, over processes that are killed and start again and
\* rotations that fail; processes that log at the same time can each add as much.
LogBounded ==
    Len(logFile) <= (IF crowded THEN Cardinality(LogProcesses) ELSE 1) * (MaxLog + LineParts)
=============================================================================
