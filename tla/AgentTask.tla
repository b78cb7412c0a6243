----------------------------- MODULE AgentTask -----------------------------
(***************************************************************************)
(* AgentTaskState of quorp_agent_core: what one dispatched action does to  *)
(* the state the agent loop decides with, and which actions the mode and   *)
(* the autonomy profile refuse.  Everything here is a function of that     *)
(* state; AgentRun is the machine that applies it.                         *)
(*                                                                         *)
(* A run without benchmark metadata is modelled: no case ledger, no        *)
(* benchmark repair phase.  Files stands for source files (a .toml target  *)
(* wants a full reread instead of a focused one).                          *)
(***************************************************************************)
EXTENDS Integers, Sequences

CONSTANTS Files,      \* files the agent reads and edits
          NoFile,     \* the absent file
          Configured  \* validation plans the workspace has commands for

ASSUME FilesAssumption == NoFile \notin Files
ASSUME ConfiguredAssumption == Configured \subseteq {"fmt", "full"}

Modes == {"Ask", "Plan", "Act"}
Profiles == {"Interactive", "AutonomousHost", "AutonomousSandboxed"}
Plans == {"fmt", "followup", "full"}

Read(f, ranged) == [kind |-> "read", file |-> f, ranged |-> ranged]
Write(f) == [kind |-> "write", file |-> f, ranged |-> FALSE]
Validate == [kind |-> "validate", file |-> NoFile, ranged |-> FALSE]
Actions == {Read(f, r) : f \in Files, r \in BOOLEAN} \cup {Write(f) : f \in Files} \cup {Validate}

\* RepairRequirement: the file that must be reread before the next edit.
NoRequirement == [file |-> NoFile, reread |-> FALSE]
Requirement(f) == [file |-> f, reread |-> FALSE]

\* The fields of AgentTaskState that decide control.  packet: a failure packet is on
\* record; knownFailure: a validation has failed; failing: last_failing_verifier is set;
\* seen: the working set; redundant: redundant_inspection_turns > 0.
States == [mode : Modes, stall : 0..3, redundant : BOOLEAN, recoverable : 0..3,
           recoveryTurns : 0..1, parserFailures : Nat, mutated : BOOLEAN,
           green : BOOLEAN, failing : BOOLEAN, queue : Seq(Plans),
           requirement : [file : Files \cup {NoFile}, reread : BOOLEAN],
           lastWrite : Files \cup {NoFile}, seen : SUBSET Files,
           packet : BOOLEAN, knownFailure : BOOLEAN, billed : Nat]

NewState(mode) ==
    [mode |-> mode, stall |-> 0, redundant |-> FALSE, recoverable |-> 0,
     recoveryTurns |-> 0, parserFailures |-> 0, mutated |-> FALSE,
     green |-> FALSE, failing |-> FALSE, queue |-> <<>>,
     requirement |-> NoRequirement, lastWrite |-> NoFile, seen |-> {},
     packet |-> FALSE, knownFailure |-> FALSE, billed |-> 0]

-----------------------------------------------------------------------------
(* What an executed action leaves behind: observe_outcome *)

\* Any success ends the streaks the loop guards count.
Progress(a) == [a EXCEPT !.stall = 0, !.redundant = FALSE, !.recoverable = 0,
                         !.recoveryTurns = 0]

\* A read of the required file settles the requirement only if a focused range was
\* honored and overlaps the suggested one; any other read of it unsettles it again.
AfterRead(a, f, satisfies) ==
    [Progress(a) EXCEPT !.requirement =
        IF @.file = f THEN [file |-> f, reread |-> satisfies] ELSE @]

AfterFailedRead(a) == [a EXCEPT !.packet = TRUE]

\* Fault for AfterWrite: an earlier green verdict survives the edit.
AfterWriteStillGreen(a, f) ==
    [Progress(a) EXCEPT !.lastWrite = f, !.requirement = NoRequirement,
                        !.mutated = TRUE, !.packet = FALSE]

AfterWrite(a, f) ==
    [Progress(a) EXCEPT !.lastWrite = f, !.requirement = NoRequirement,
                        !.mutated = TRUE, !.green = FALSE, !.packet = FALSE]

\* Fault for AfterFailedWrite: the failed edit leaves no requirement.
AfterFailedWriteUnrecorded(a, f) ==
    [a EXCEPT !.stall = 0, !.redundant = FALSE, !.recoveryTurns = 1, !.packet = TRUE]

AfterFailedWrite(a, f) ==
    [a EXCEPT !.stall = 0, !.redundant = FALSE, !.recoveryTurns = 1,
              !.requirement = Requirement(f), !.packet = TRUE]

\* Green is granted by the plan that passes when no other plan is queued.
AfterValidation(a) ==
    [Progress(a) EXCEPT !.green = @ \/ a.queue = <<>>, !.failing = FALSE, !.packet = FALSE]

\* A failure drops the plans still queued; a rollback report turns the last edit into a
\* requirement, as a failed edit does.
AfterFailedValidation(a, rolledBack) ==
    LET failed == [a EXCEPT !.green = FALSE, !.failing = TRUE, !.queue = <<>>,
                            !.packet = TRUE, !.knownFailure = TRUE]
    IN  IF rolledBack /\ a.lastWrite # NoFile
        THEN [failed EXCEPT !.requirement = Requirement(a.lastWrite), !.stall = 0,
                            !.redundant = FALSE, !.recoveryTurns = 1]
        ELSE failed

\* note_action: a file is in the working set once it was read or edited, even in vain.
Noted(a, act) == IF act.file = NoFile THEN a ELSE [a EXCEPT !.seen = @ \cup {act.file}]

-----------------------------------------------------------------------------
(* What is refused: allow_action *)

ModeAllows(mode, act) ==
    \/ mode = "Act"
    \/ act.kind = "read"
    \/ mode = "Plan" /\ act.kind = "validate"

RereadPending(a) == a.requirement.file # NoFile /\ ~a.requirement.reread

FailureOnRecord(a) == a.packet \/ a.requirement.file # NoFile

\* Refusals that turn on text the model leaves out: an edit may be too large for a
\* whole-file write or precede any look at the failing file, a read may be the third
\* with the same arguments.
MayBeBlocked(a, act) ==
    \/ act.kind = "write"
    \/ act.kind = "read" /\ FailureOnRecord(a) /\ act.file \in a.seen

\* The sandboxed profile runs the benchmark policy.
SandboxedVerdicts(a, act) ==
    {v \in {"denied", "reread", "repeated", "allowed"} :
        CASE v = "denied"   -> MayBeBlocked(a, act)
          [] v = "reread"   -> act.kind = "write" /\ RereadPending(a)
          [] v = "repeated" -> act.kind = "validate" /\ ~a.mutated /\ a.knownFailure
          [] v = "allowed"  -> ~ \/ act.kind = "write" /\ RereadPending(a)
                                 \/ act.kind = "validate" /\ ~a.mutated /\ a.knownFailure}

\* The verdicts allow_action can return: "denied" ends the run, "reread" and "repeated"
\* are turned into a recovery turn.
Verdicts(a, profile, act) ==
    CASE ~ModeAllows(a.mode, act) -> {"denied"}
      [] ModeAllows(a.mode, act) /\ profile = "Interactive" ->
            IF act.kind = "write" THEN {"denied"} ELSE {"allowed"}
      [] ModeAllows(a.mode, act) /\ profile = "AutonomousHost" -> {"allowed"}
      [] OTHER -> SandboxedVerdicts(a, act)

-----------------------------------------------------------------------------
(* The validation queue *)

\* The plan of the turn, or else the workspace tests, follows the format check; a plan
\* without commands is not queued.
PostEditQueue(followup) ==
    (IF "fmt" \in Configured THEN <<"fmt">> ELSE <<>>)
        \o (IF followup THEN <<"followup">> ELSE <<>>)

FullQueue == IF "full" \in Configured THEN <<"full">> ELSE <<>>

-----------------------------------------------------------------------------
(* Turns that only repeat known reads *)

\* A focused reread of the file a failed edit named is not a repetition, unless the scorecard
\* already counts two redundant reads (spent).
FocusedRereadAllowed(a, act, spent) ==
    /\ ~spent /\ ~a.mutated /\ ~a.redundant
    /\ act.file = a.requirement.file /\ act.ranged

RepeatsKnownReads(a, batch, spent) ==
    /\ batch # <<>>
    /\ \A i \in 1..Len(batch) :
          /\ batch[i].kind = "read"
          /\ batch[i].file \in a.seen
          /\ ~FocusedRereadAllowed(a, batch[i], spent)

\* Every read is a whole-file read of the file that wants a focused one.
WantsRangeGuidance(a, batch) ==
    /\ RereadPending(a)
    /\ \A i \in 1..Len(batch) : batch[i].file = a.requirement.file /\ ~batch[i].ranged
=============================================================================
