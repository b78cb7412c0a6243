---------------------------- MODULE ShellCommand ----------------------------
(***************************************************************************)
(* A command that the agent runs in a shell on a pseudo terminal.  A copier*)
(* thread reads the terminal until nobody has it open, and keeps what it   *)
(* reads up to a limit; the thread that runs the command waits for the     *)
(* shell, joins the copier and returns the output.                         *)
(*                                                                         *)
(* run_command_streaming polls the shell until a deadline, kills its       *)
(* process group then, and tells every chunk to the event channel;         *)
(* run_command_capture, which validations use, has no deadline.            *)
(*                                                                         *)
(* The shell and a descendant that outlives it are external.  They write   *)
(* characters of one byte or of two, and bytes that are no character.  A   *)
(* read returns whatever 4096 bytes hold and is decoded by itself, so a    *)
(* character it cuts, like a byte that is none, becomes the replacement    *)
(* character, once for each part.  The limit counts bytes of the text, and *)
(* String::truncate panics inside a character.                             *)
(***************************************************************************)
EXTENDS Integers, Sequences, FiniteSets

CONSTANTS ByteLimit,  \* command_output_limit
          MaxBytes    \* bound: bytes that are written

ASSUME ShellCommandAssumption == {ByteLimit, MaxBytes} \subseteq Nat \ {0}

Narrow == <<"n">>
Wide == <<"w", "ide">>
Half == <<"w">>
Stray == <<"ide">>                     \* a byte that begins no character
Replacement == <<"re", "pla", "ce">>   \* U+FFFD

VARIABLES
    how,       \* "streaming" or "capture"
    shell,     \* "none", "up", "killed", "zombie" or "reaped"
    code,      \* its exit code, once it has exited
    survivor,  \* a descendant that a hangup does not end: "none", "group" or "session", whose it is
    written,   \* the bytes that were written
    terminal,  \* the bytes in the terminal that nobody has read
    copier,    \* "reading", "ended" or "panicked"
    decoded,   \* the text of all its reads (history)
    origin,    \* for each byte of that text, the byte it was decoded from (history)
    ends,      \* where its reads ended (history)
    captured,  \* the text it has kept
    told,      \* the text it sent as events
    waiter,    \* the thread that runs the command: "idle", "polling", "awaiting", "joining", ...
    verdict,   \* "none", "exited" or "timedOut"
    output     \* the text it returned

readVars == <<decoded, origin, ends>>
commandVars == <<how, shell, code, survivor, written, terminal, copier, readVars, captured, told, waiter, verdict, output>>

CommandInit ==
    /\ how \in {"streaming", "capture"} /\ waiter = "idle"
    /\ shell = "none" /\ code = 0 /\ survivor = "none" /\ written = <<>> /\ terminal = <<>>
    /\ decoded = <<>> /\ origin = <<>> /\ ends = {}
    /\ copier = "reading" /\ captured = <<>> /\ told = <<>> /\ verdict = "none" /\ output = <<>>

RunCommand ==
    /\ waiter = "idle"
    /\ shell' = "up" /\ waiter' = IF how = "streaming" THEN "polling" ELSE "awaiting"
    /\ UNCHANGED <<how, code, survivor, written, terminal, copier, readVars, captured, told, verdict, output>>

-----------------------------------------------------------------------------
(* The shell and its descendants *)

TerminalOpen == shell \in {"up", "killed"} \/ survivor # "none"

\* A descendant that left the session, or that ignores the hangup.
ShellForks ==
    /\ shell = "up" /\ survivor = "none"
    /\ survivor' \in {"group", "session"}
    /\ UNCHANGED <<how, shell, code, written, terminal, copier, readVars, captured, told, waiter, verdict, output>>

SomebodyWrites ==
    /\ shell = "up" \/ survivor # "none"
    /\ terminal = <<>> /\ copier = "reading"
    /\ \E bytes \in {Narrow, Wide, Stray} :
          /\ Len(written \o bytes) <= MaxBytes
          /\ terminal' = bytes /\ written' = written \o bytes
    /\ UNCHANGED <<how, shell, code, survivor, copier, readVars, captured, told, waiter, verdict, output>>

ShellExits ==
    /\ shell = "up" /\ shell' = "zombie" /\ code' \in {0, 1}
    /\ UNCHANGED <<how, survivor, written, terminal, copier, readVars, captured, told, waiter, verdict, output>>

ShellDies ==
    /\ shell = "killed" /\ shell' = "zombie" /\ code' = 1
    /\ UNCHANGED <<how, survivor, written, terminal, copier, readVars, captured, told, waiter, verdict, output>>

SurvivorExits ==
    /\ survivor # "none" /\ survivor' = "none"
    /\ UNCHANGED <<how, shell, code, written, terminal, copier, readVars, captured, told, waiter, verdict, output>>

-----------------------------------------------------------------------------
(* The copier *)

\* What a read may return: it may end inside a character.
Reads == IF terminal = Wide THEN {Wide, Half} ELSE {terminal}

\* Fault for Text: no read cuts a character.
TextAsIfWhole(bytes) == bytes

Text(bytes) == IF bytes \in {Narrow, Wide} THEN bytes ELSE Replacement

\* How many bytes have been read.
BytesRead == Len(written) - Len(terminal)

\* Where the text of a read comes from: its byte with the same place, or the only one it has.
Origin(bytes) ==
    [k \in 1..Len(Text(bytes)) |-> IF bytes \in {Narrow, Wide} THEN BytesRead + k ELSE BytesRead + 1]

TakesFromTerminal(bytes) ==
    /\ terminal' = IF bytes = terminal THEN <<>> ELSE Stray
    /\ decoded' = decoded \o Text(bytes) /\ origin' = origin \o Origin(bytes)
    /\ ends' = ends \union {BytesRead + Len(bytes)}

\* Whether a byte starts a character.
StartsCharacter(byte) == byte \notin {"ide", "pla", "ce"}

\* As much of it as the limit allows.
Beginning(text) == SubSeq(text, 1, IF Len(text) > ByteLimit THEN ByteLimit ELSE Len(text))

\* What is kept of more text, streaming: a full buffer is left alone.
Kept(text, more) ==
    IF how = "streaming" /\ Len(text) >= ByteLimit THEN text ELSE Beginning(text \o more)

\* truncate() inside a character.
Splits(text, more) ==
    /\ ~(how = "streaming" /\ Len(text) >= ByteLimit)
    /\ Len(text \o more) > ByteLimit /\ ~StartsCharacter((text \o more)[ByteLimit + 1])

CopyChunk ==
    /\ copier = "reading" /\ terminal # <<>>
    /\ \E chunk \in Reads :
          /\ ~Splits(captured, Text(chunk))
          /\ TakesFromTerminal(chunk)
          /\ captured' = Kept(captured, Text(chunk))
          /\ told' = IF how = "streaming" THEN told \o Text(chunk) ELSE told
    /\ UNCHANGED <<how, shell, code, survivor, written, copier, waiter, verdict, output>>

\* The thread ends, and with it the reading side: the session gets a hangup.  The buffer is lost.
CopierPanics ==
    /\ copier = "reading" /\ terminal # <<>>
    /\ \E chunk \in Reads : Splits(captured, Text(chunk)) /\ TakesFromTerminal(chunk)
    /\ copier' = "panicked" /\ captured' = <<>>
    /\ shell' = IF shell = "up" THEN "killed" ELSE shell
    /\ UNCHANGED <<how, code, survivor, written, told, waiter, verdict, output>>

CopierEnds ==
    /\ copier = "reading" /\ waiter # "idle" /\ terminal = <<>> /\ ~TerminalOpen
    /\ copier' = "ended"
    /\ UNCHANGED <<how, shell, code, survivor, written, terminal, readVars, captured, told, waiter, verdict, output>>

Copier == CopyChunk \/ CopierPanics \/ CopierEnds

-----------------------------------------------------------------------------
(* The thread that runs the command *)

PollShell ==
    /\ waiter = "polling" /\ shell = "zombie"
    /\ shell' = "reaped" /\ verdict' = "exited" /\ waiter' = "joining"
    /\ UNCHANGED <<how, code, survivor, written, terminal, copier, readVars, captured, told, output>>

\* Fault for Kills: the signal goes to nobody.
KillsNobody == UNCHANGED <<shell, survivor>>

\* killpg reaches the shell and what stayed in its group.
Kills ==
    /\ shell' = IF shell = "up" THEN "killed" ELSE shell
    /\ survivor' = IF survivor = "group" THEN "none" ELSE survivor

\* The deadline is looked at first: a shell that has just exited is killed too.
DeadlinePasses ==
    /\ waiter = "polling"
    /\ Kills
    /\ verdict' = "timedOut" /\ waiter' = "awaiting"
    /\ UNCHANGED <<how, code, written, terminal, copier, readVars, captured, told, output>>

AwaitShell ==
    /\ waiter = "awaiting" /\ shell = "zombie"
    /\ shell' = "reaped" /\ waiter' = "joining"
    /\ verdict' = IF verdict = "none" THEN "exited" ELSE verdict
    /\ UNCHANGED <<how, code, survivor, written, terminal, copier, readVars, captured, told, output>>

\* Fault for Joined: the output is taken when the shell is over.
JoinedAtOnce == TRUE

Joined == copier # "reading"

\* A panic of the copier goes on in a thread that captures, and is only logged in one that streams.
JoinCopier ==
    /\ waiter = "joining" /\ Joined
    /\ IF copier = "panicked" /\ how = "capture"
       THEN waiter' = "panicked" /\ UNCHANGED output
       ELSE waiter' = "returned" /\ output' = captured
    /\ UNCHANGED <<how, shell, code, survivor, written, terminal, copier, readVars, captured, told, verdict>>

Waiter == PollShell \/ DeadlinePasses \/ AwaitShell \/ JoinCopier

CommandNext ==
    \/ RunCommand \/ ShellForks \/ SomebodyWrites \/ ShellExits \/ ShellDies \/ SurvivorExits
    \/ Copier \/ Waiter

CommandSpec == CommandInit /\ [][CommandNext]_commandVars

-----------------------------------------------------------------------------
(* Properties *)

CommandTypeOK ==
    /\ how \in {"streaming", "capture"} /\ shell \in {"none", "up", "killed", "zombie", "reaped"} /\ code \in {0, 1}
    /\ survivor \in {"none", "group", "session"} /\ copier \in {"reading", "ended", "panicked"}
    /\ waiter \in {"idle", "polling", "awaiting", "joining", "returned", "panicked"}
    /\ verdict \in {"none", "exited", "timedOut"}
    /\ Len(captured) <= ByteLimit /\ Len(output) <= ByteLimit
    /\ terminal \in {<<>>, Narrow, Wide, Stray} /\ Len(written) <= MaxBytes /\ Len(told) <= Len(decoded)

\* A byte that the text cannot show: it begins or ends a character that a read cut, or is none.
Spoiled(i) ==
    \/ written[i] = "w" /\ i \in ends
    \/ written[i] = "ide" /\ (i = 1 \/ written[i - 1] # "w" \/ i - 1 \in ends)

\* The text shows every byte that was written up to here, in order and once, as it was, or as a
\* replacement character if it is spoiled.
Shows(bytes) ==
    /\ Len(origin) = Len(decoded)
    /\ \A j \in DOMAIN decoded :
          /\ origin[j] = IF j = 1 THEN 1
                         ELSE IF decoded[j] \in {"pla", "ce"} THEN origin[j - 1]
                         ELSE origin[j - 1] + 1
          /\ IF Spoiled(origin[j])
             THEN decoded[j] \in {"re", "pla", "ce"}
             ELSE decoded[j] = written[origin[j]]
    /\ IF decoded = <<>> THEN bytes = 0 ELSE origin[Len(origin)] = bytes

\* The output of a command is the beginning of the text of what was written while anybody had its
\* terminal open, as much as the limit allows, and the events have all of it: also after a timeout,
\* and what came in the moment before the shell exited.  The text is what was written, but for the
\* replacement characters that stand for bytes which are no text, and for the parts of a character
\* that the end of a read has cut.  When the limit falls inside a character the code returns nothing
\* of it: the caller of a validation learns that a channel was closed, and a command that streams
\* returns an empty output, and with success if its shell was over already.
OutputIsWhole ==
    waiter = "returned" =>
        /\ copier = "ended" =>
               /\ Shows(Len(written)) /\ output = Beginning(decoded)
               /\ how = "streaming" => told = decoded
        /\ copier # "ended" =>
               /\ copier = "panicked" /\ output = <<>> /\ Shows(BytesRead)
               /\ ByteLimit < Len(decoded) /\ ~StartsCharacter(decoded[ByteLimit + 1])

\* A command that timed out has left no shell and no process of its group behind.
TimeoutEndsGroup ==
    verdict = "timedOut" /\ waiter = "returned" => shell = "reaped" /\ survivor # "group"

\* Only here a command may wait without a limit of time: a descendant keeps the terminal open, and
\* nobody looks at the deadline any more; or the command is one of a validation.
HeldOpen ==
    \/ waiter = "joining" /\ survivor # "none" /\ copier = "reading"
    \/ how = "capture" /\ TerminalOpen

\* To be so again and again: a command is over, unless its terminal is held open.
CommandOver == waiter \in {"idle", "returned", "panicked"} \/ HeldOpen
=============================================================================
