------------------------------ MODULE AgentRun ------------------------------
(***************************************************************************)
(* The agent loop of quorp_agent_core: run_agent_task and the turn it      *)
(* handles (handle_model_turn), with the checkpoint the runner persists    *)
(* and the resume that starts again from it.                               *)
(*                                                                         *)
(* One action is one step between two awaits or two events another actor   *)
(* can see: a check at the top of the loop, a completion that arrives, one *)
(* dispatched tool action, the end of a turn.  The model's answers, the    *)
(* outcome of every tool call, cancellation, the clock and crashes are     *)
(* nondeterministic.                                                       *)
(***************************************************************************)
EXTENDS AgentTask

CONSTANTS
    RunProfiles,          \* autonomy profiles a run may have
    MaxIterations,        \* request.max_iterations
    VerifierDrainBudget,  \* request.verifier_drain_budget
    ParserRecoveryBudget, \* request.parser_recovery_budget
    Cancellable,          \* whether the request carries a cancellation flag
    Timed,                \* whether request.max_seconds is set
    TokenLimited,         \* whether request.max_total_tokens is set
    MaxTotalTokens,       \* its value, in completions
    NativeToolCalls,      \* completion_policy.native_tool_calls
    JsonRequired,         \* plain text is a parse failure (native tools or a remote API)
    RollbackOnFailure,    \* request.enable_rollback_on_validation_failure
    Batches,              \* bound: the action batches the model may send
    MaxResumes            \* bound: resumes

ASSUME RunProfilesAssumption == RunProfiles \subseteq Profiles
ASSUME BudgetAssumption ==
    /\ {MaxIterations, VerifierDrainBudget, ParserRecoveryBudget, MaxTotalTokens,
        MaxResumes} \subseteq Nat
    /\ {Cancellable, Timed, TokenLimited, NativeToolCalls, JsonRequired, RollbackOnFailure} \subseteq BOOLEAN
    /\ NativeToolCalls => JsonRequired
ASSUME BatchesAssumption == Batches \subseteq Seq(Actions)

StopReasons == {"Success", "MaxIterations", "PendingValidation", "BudgetExhausted",
                "TimeBudgetExhausted", "Cancelled", "ModelTimeout", "FatalError"}

VARIABLES
    profile,    \* autonomy profile of the run
    pc,         \* "loop", "awaiting" (a completion), "acting", "stopped" or "crashed"
    stop,       \* the stop reason, "none" while the run goes on
    iteration,  \* current_iteration
    drainUsed,  \* verifier_drain_used
    agent,      \* AgentTaskState
    turn,       \* what is left of the turn, and what it has done
    cancelled,  \* the cancellation flag
    timeUp,     \* max_seconds have passed
    checkpoint, \* checkpoint.json: the state to resume with
    resumes,    \* resumes so far
    unverified, \* history: files whose text no passing validation covers
    known,      \* history: those of them the agent's own state accounts for
    unread      \* history: file of a failed edit that has not been read since

run == <<profile, cancelled, timeUp, resumes>>
world == <<unverified, known, unread>>
vars == <<profile, pc, stop, iteration, drainUsed, agent, turn, cancelled, timeUp,
          checkpoint, resumes, unverified, known, unread>>

NoTurn == [actions |-> <<>>, wrote |-> FALSE, recovery |-> FALSE, aborted |-> FALSE]
NoCheckpoint == [saved |-> FALSE, agent |-> NewState("Act"), step |-> 0, known |-> {}]

Init ==
    /\ profile \in RunProfiles
    /\ pc = "loop"
    /\ stop = "none"
    /\ iteration = 0
    /\ drainUsed = 0
    /\ \E mode \in Modes : agent = NewState(mode)
    /\ turn = NoTurn
    /\ cancelled = FALSE
    /\ timeUp = FALSE
    /\ checkpoint = NoCheckpoint
    /\ resumes = 0
    /\ unverified = {}
    /\ known = {}
    /\ unread = NoFile

-----------------------------------------------------------------------------
(* How a step ends *)

Finish(reason) == pc' = "stopped" /\ stop' = reason

\* The CheckpointSaved event: the recorder writes the state that a resume restores.
SaveCheckpoint(accounted) ==
    checkpoint' = [saved |-> TRUE, agent |-> agent', step |-> iteration', known |-> accounted]

TokensExhausted(a) == TokenLimited /\ a.billed >= MaxTotalTokens

\* Fault for EndTurn: a turn that costs no iteration skips the token budget.
EndTurnBudgetOnlyWhenCounted(a, cost) ==
    /\ agent' = a
    /\ turn' = NoTurn
    /\ iteration' = iteration + cost
    /\ SaveCheckpoint(known)
    /\ IF cost = 1 /\ TokensExhausted(a) THEN Finish("BudgetExhausted")
                                        ELSE pc' = "loop" /\ UNCHANGED stop

\* ControlFlow::Continue costs an iteration, ContinueNoBudget none; both are
\* checkpointed before the token budget is looked at.
EndTurn(a, cost) ==
    /\ agent' = a
    /\ turn' = NoTurn
    /\ iteration' = iteration + cost
    /\ SaveCheckpoint(known)
    /\ IF TokensExhausted(a) THEN Finish("BudgetExhausted")
                             ELSE pc' = "loop" /\ UNCHANGED stop

\* An Err of the turn and BreakSuccess end the run without a checkpoint.
EndRun(a, reason) ==
    /\ agent' = a
    /\ turn' = NoTurn
    /\ Finish(reason)
    /\ UNCHANGED <<iteration, checkpoint>>

\* A loop guard ends the run at its limit, or asks for another turn.
Guarded(a, count, limit, cost) ==
    IF count >= limit THEN EndRun(a, "FatalError") ELSE EndTurn(a, cost)

-----------------------------------------------------------------------------
(* What tool calls do to the files, as the history sees it *)

\* A failed validation tells the agent that nothing is verified.
Unverify == unverified' = Files /\ known' = Files
Verify == unverified' = {} /\ known' = {}
Edited(f) == unverified' = unverified \cup {f} /\ known' = known \cup {f}

-----------------------------------------------------------------------------
(* The top of the loop *)

StopCancelled ==
    /\ pc = "loop"
    /\ cancelled
    /\ Finish("Cancelled")
    /\ UNCHANGED <<iteration, drainUsed, agent, turn, checkpoint, run, world>>

StopTimeBudget ==
    /\ pc = "loop"
    /\ ~cancelled /\ timeUp
    /\ Finish("TimeBudgetExhausted")
    /\ UNCHANGED <<iteration, drainUsed, agent, turn, checkpoint, run, world>>

\* Fault for Proceeds: work goes before the flag and the clock.
ProceedsRegardless == pc = "loop"

Proceeds == pc = "loop" /\ ~cancelled /\ ~timeUp
PastModelBudget == iteration >= MaxIterations

StopPendingValidation ==
    /\ Proceeds
    /\ agent.queue # <<>>
    /\ PastModelBudget /\ drainUsed >= VerifierDrainBudget
    /\ Finish("PendingValidation")
    /\ agent' = [agent EXCEPT !.queue = Tail(@)]
    /\ UNCHANGED <<iteration, drainUsed, turn, checkpoint, run, world>>

\* Fault for MayDrain: the drain budget is compared one too late.
MayDrainOnceMore == ~PastModelBudget \/ drainUsed <= VerifierDrainBudget

MayDrain == ~PastModelBudget \/ drainUsed < VerifierDrainBudget

ChargeDrain == drainUsed' = IF PastModelBudget THEN drainUsed + 1 ELSE drainUsed

\* A queued plan goes before any model turn; it costs an iteration whatever its outcome.
Popped == [agent EXCEPT !.queue = Tail(@)]

DrainRefused ==
    /\ Proceeds
    /\ agent.queue # <<>> /\ MayDrain
    /\ ChargeDrain
    /\ Verdicts(Popped, profile, Validate) \ {"allowed"} # {}
    /\ EndRun(Popped, "FatalError")
    /\ UNCHANGED <<run, world>>

\* The drain's own end of a step: no token budget is looked at.
EndDrain(a) ==
    /\ agent' = a
    /\ iteration' = iteration + 1
    /\ SaveCheckpoint(known')
    /\ IF a.green /\ a.queue = <<>> THEN Finish("Success")
                                    ELSE UNCHANGED <<pc, stop>>
    /\ UNCHANGED turn

DrainPasses ==
    /\ Proceeds
    /\ agent.queue # <<>> /\ MayDrain
    /\ ChargeDrain
    /\ "allowed" \in Verdicts(Popped, profile, Validate)
    /\ Verify
    /\ EndDrain(AfterValidation(Popped))
    /\ UNCHANGED <<run, unread>>

\* The file a rollback report takes the last edit from.
RolledBackFile(a, rolledBack) ==
    IF rolledBack /\ a.lastWrite # NoFile THEN a.lastWrite ELSE unread

DrainFails ==
    /\ Proceeds
    /\ agent.queue # <<>> /\ MayDrain
    /\ ChargeDrain
    /\ "allowed" \in Verdicts(Popped, profile, Validate)
    /\ Unverify
    /\ \E rolledBack \in {FALSE, RollbackOnFailure} :
          /\ unread' = RolledBackFile(agent, rolledBack)
          /\ EndDrain(AfterFailedValidation(Popped, rolledBack))
    /\ UNCHANGED run

StopMaxIterations ==
    /\ Proceeds
    /\ agent.queue = <<>>
    /\ PastModelBudget
    /\ Finish("MaxIterations")
    /\ UNCHANGED <<iteration, drainUsed, agent, turn, checkpoint, run, world>>

\* Fault for QueueServed: the model is asked while plans are still queued.
QueueIgnored == TRUE

QueueServed == agent.queue = <<>>

RequestCompletion ==
    /\ Proceeds
    /\ QueueServed
    /\ ~PastModelBudget
    /\ pc' = "awaiting"
    /\ UNCHANGED <<stop, iteration, drainUsed, agent, turn, checkpoint, run, world>>

-----------------------------------------------------------------------------
(* A completion arrives, or does not *)

CompletionFails ==
    /\ pc = "awaiting"
    /\ \E reason \in {"ModelTimeout", "FatalError"} : Finish(reason)
    /\ UNCHANGED <<iteration, drainUsed, agent, turn, checkpoint, run, world>>

\* The usage of a completion is billed when the provider reports it.
Billed(usage) == IF TokenLimited THEN [agent EXCEPT !.billed = @ + usage] ELSE agent

\* note_parser_recovery_failure; the count is only ever compared with the budget, so it
\* need not grow beyond it.
ParserFailed(a) ==
    [a EXCEPT !.parserFailures = IF @ < ParserRecoveryBudget THEN @ + 1 ELSE @]

\* Truncated, malformed or plain text where a structured turn is wanted, or a turn
\* without a tool call before the run is green.
ParserRecovery ==
    /\ pc = "awaiting"
    /\ \E usage \in 0..1 :
          LET a == ParserFailed(Billed(usage))
          IN  Guarded(a, a.parserFailures, ParserRecoveryBudget, 0)
    /\ UNCHANGED <<drainUsed, run, world>>

UnrecoverableParseError ==
    /\ pc = "awaiting"
    /\ \E usage \in 0..1 : EndRun(Billed(usage), "FatalError")
    /\ UNCHANGED <<drainUsed, run, world>>

\* Plain text from a model that is not held to structured turns.
PlainText ==
    /\ pc = "awaiting"
    /\ ~JsonRequired
    /\ \E usage \in 0..1 :
          LET a == [Billed(usage) EXCEPT !.stall = @ + 1]
          IN  Guarded(a, a.stall, 2, 0)
    /\ UNCHANGED <<drainUsed, run, world>>

\* assistant_action_mismatch: counted as a parser failure, held to no budget.
Mismatch ==
    /\ pc = "awaiting"
    /\ \E usage \in 0..1 : EndTurn(ParserFailed(Billed(usage)), 0)
    /\ UNCHANGED <<drainUsed, run, world>>

\* A usable turn ends the parser streak.
Parsed(usage) == [Billed(usage) EXCEPT !.parserFailures = 0]

Usable(batch) == batch # <<>> \/ ~NativeToolCalls \/ agent.green

RedundantTurn(batch, spent) ==
    /\ RepeatsKnownReads(agent, batch, spent)
    /\ WantsRangeGuidance(agent, batch) \/ agent.recoveryTurns = 0

\* Only files it has read already: the loop guard answers in place of the tools.
RepeatInspection ==
    /\ pc = "awaiting"
    /\ \E batch \in Batches, spent \in BOOLEAN, usage \in 0..1 :
          LET a == [Parsed(usage) EXCEPT !.stall = @ + 1, !.redundant = TRUE]
          IN  /\ RedundantTurn(batch, spent)
              /\ Guarded(a, a.stall, 3, 1)
    /\ UNCHANGED <<drainUsed, run, world>>

\* One reread is granted after a failed edit.
GrantReread(a) == [a EXCEPT !.recoveryTurns = 0, !.stall = 0]

\* The turn's mode change takes effect before its first action.
StartBatch ==
    /\ pc = "awaiting"
    /\ \E batch \in Batches, spent \in BOOLEAN, usage \in 0..1, mode \in Modes :
          LET a == [Parsed(usage) EXCEPT !.mode = mode]
          IN  /\ Usable(batch)
              /\ ~RedundantTurn(batch, spent)
              /\ agent' = IF RepeatsKnownReads(agent, batch, spent) THEN GrantReread(a) ELSE a
              /\ turn' = [NoTurn EXCEPT !.actions = batch]
    /\ pc' = "acting"
    /\ UNCHANGED <<stop, iteration, drainUsed, checkpoint, run, world>>

-----------------------------------------------------------------------------
(* The batch of a turn: one action dispatched at a time *)

Acts(kind, verdict) ==
    /\ pc = "acting"
    /\ turn.actions # <<>>
    /\ Head(turn.actions).kind = kind
    /\ verdict \in Verdicts(agent, profile, Head(turn.actions))

Act == Head(turn.actions)
NextAct == turn' = [turn EXCEPT !.actions = Tail(@)]
AbortBatch(recovers) == turn' = [turn EXCEPT !.actions = <<>>, !.aborted = TRUE,
                                             !.recovery = @ \/ recovers]
InTurn == UNCHANGED <<pc, stop, iteration, drainUsed, checkpoint, run>>

\* The read range is honored by the tool or not; a whole-file read honors none.
Satisfactions(act) == IF act.ranged THEN BOOLEAN ELSE {FALSE}

ReadSucceeds ==
    /\ Acts("read", "allowed")
    /\ \E satisfies \in Satisfactions(Act) :
          agent' = Noted(AfterRead(agent, Act.file, satisfies), Act)
    /\ NextAct
    /\ unread' = IF Act.file = unread THEN NoFile ELSE unread
    /\ UNCHANGED <<unverified, known>> /\ InTurn

\* Fault for RecoverySpent: one failed inspection too many is tolerated.
RecoverySpentLate(a) == a.recoverable > 3

RecoverySpent(a) == a.recoverable >= 3

\* A failed inspection does not abort the batch; the third in a row ends the run.
ReadFails ==
    /\ Acts("read", "allowed")
    /\ LET a == [AfterFailedRead(Noted(agent, Act)) EXCEPT !.recoverable = @ + 1]
       IN  IF RecoverySpent(a)
           THEN EndRun(a, "FatalError")
           ELSE /\ agent' = a
                /\ turn' = [turn EXCEPT !.actions = Tail(@), !.recovery = TRUE]
                /\ UNCHANGED <<pc, stop, iteration, checkpoint>>
    /\ UNCHANGED <<drainUsed, run, world>>

EditSucceeds ==
    /\ Acts("write", "allowed")
    /\ agent' = Noted(AfterWrite(agent, Act.file), Act)
    /\ turn' = [turn EXCEPT !.actions = Tail(@), !.wrote = TRUE]
    /\ Edited(Act.file)
    /\ unread' = NoFile
    /\ InTurn

EditFails ==
    /\ Acts("write", "allowed")
    /\ agent' = Noted(AfterFailedWrite(agent, Act.file), Act)
    /\ AbortBatch(FALSE)
    /\ unread' = Act.file
    /\ UNCHANGED <<unverified, known>> /\ InTurn

ValidationPasses ==
    /\ Acts("validate", "allowed")
    /\ agent' = AfterValidation(agent)
    /\ turn' = [turn EXCEPT !.actions = Tail(@), !.wrote = FALSE]
    /\ Verify
    /\ UNCHANGED unread /\ InTurn

ValidationFails ==
    /\ Acts("validate", "allowed")
    /\ \E rolledBack \in {FALSE, RollbackOnFailure} :
          /\ agent' = AfterFailedValidation(agent, rolledBack)
          /\ unread' = RolledBackFile(agent, rolledBack)
    /\ AbortBatch(FALSE)
    /\ Unverify
    /\ InTurn

\* The executor itself fails: the edit may or may not have reached the file, and nobody
\* records it.
ExecutorFails ==
    /\ pc = "acting" /\ turn.actions # <<>>
    /\ "allowed" \in Verdicts(agent, profile, Act)
    /\ EndRun(Noted(agent, Act), "FatalError")
    /\ unverified' \in {unverified, IF Act.kind = "write" THEN unverified \cup {Act.file}
                                                       ELSE unverified}
    /\ UNCHANGED <<drainUsed, run, known, unread>>

PolicyDenied ==
    /\ pc = "acting" /\ turn.actions # <<>>
    /\ "denied" \in Verdicts(agent, profile, Act)
    /\ EndRun(agent, "FatalError")
    /\ UNCHANGED <<drainUsed, run, world>>

RepeatedValidationRefused ==
    /\ Acts("validate", "repeated")
    /\ AbortBatch(TRUE)
    /\ UNCHANGED <<agent, world>> /\ InTurn

\* The edit is refused and the controller reads the required range itself.
InjectReread ==
    /\ Acts("write", "reread")
    /\ LET f == agent.requirement.file
       IN  /\ "allowed" \in Verdicts(agent, profile, Read(f, TRUE))
           /\ \E satisfies \in BOOLEAN :
                 agent' = [Noted(AfterRead(agent, f, satisfies), Read(f, TRUE))
                              EXCEPT !.parserFailures = 0]
           /\ unread' = IF f = unread THEN NoFile ELSE unread
    /\ AbortBatch(TRUE)
    /\ UNCHANGED <<unverified, known>> /\ InTurn

\* The injected read is itself refused, or fails.
InjectedRereadFails ==
    /\ Acts("write", "reread")
    /\ EndRun(AfterFailedRead(agent), "FatalError")
    /\ UNCHANGED <<drainUsed, run, world>>

-----------------------------------------------------------------------------
(* The end of a turn: the first case that applies *)

TurnOver == pc = "acting" /\ turn.actions = <<>>

EndWithRecovery ==
    /\ TurnOver
    /\ turn.recovery
    /\ EndTurn([agent EXCEPT !.stall = 0], 0)
    /\ UNCHANGED <<drainUsed, run, world>>

EndAborted ==
    /\ TurnOver
    /\ turn.aborted /\ ~turn.recovery
    /\ EndTurn(agent, 1)
    /\ UNCHANGED <<drainUsed, run, world>>

Completed == TurnOver /\ ~turn.aborted /\ ~turn.recovery

EndWithEdit ==
    /\ Completed
    /\ turn.wrote
    /\ \E followup \in BOOLEAN : EndTurn([agent EXCEPT !.queue = PostEditQueue(followup)], 1)
    /\ UNCHANGED <<drainUsed, run, world>>

Outstanding(a) == a.mutated /\ ~a.green /\ a.queue = <<>> /\ ~a.failing

EndOutstanding ==
    /\ Completed
    /\ ~turn.wrote /\ Outstanding(agent)
    /\ EndTurn([agent EXCEPT !.queue = FullQueue], 1)
    /\ UNCHANGED <<drainUsed, run, world>>

\* Fault for MayFinish: a run without outstanding work counts as finished.
MayFinishWhenMutated == agent.green \/ agent.mutated

\* can_finish_without_more_actions
MayFinish == agent.green

EndGreen ==
    /\ Completed
    /\ ~turn.wrote /\ ~Outstanding(agent)
    /\ MayFinish
    /\ EndRun(agent, "Success")
    /\ UNCHANGED <<drainUsed, run, world>>

EndIdle ==
    /\ Completed
    /\ ~turn.wrote /\ ~Outstanding(agent) /\ ~MayFinish
    /\ LET a == [agent EXCEPT !.stall = @ + 1]
       IN  Guarded(a, a.stall, 2, 1)
    /\ UNCHANGED <<drainUsed, run, world>>

-----------------------------------------------------------------------------
(* The environment *)

Running == pc \in {"loop", "awaiting", "acting"}

\* Only the first session has a cancellation flag: request.json does not carry it.
Cancel ==
    /\ Running /\ Cancellable /\ resumes = 0
    /\ ~cancelled
    /\ cancelled' = TRUE
    /\ UNCHANGED <<profile, pc, stop, iteration, drainUsed, agent, turn, timeUp,
                   checkpoint, resumes, world>>

TimeExpires ==
    /\ Running /\ Timed
    /\ ~timeUp
    /\ timeUp' = TRUE
    /\ UNCHANGED <<profile, pc, stop, iteration, drainUsed, agent, turn, cancelled,
                   checkpoint, resumes, world>>

\* The process dies and its memory with it; files and checkpoint stay.
Crash ==
    /\ Running
    /\ resumes < MaxResumes
    /\ pc' = "crashed"
    /\ agent' = NewState("Act")
    /\ turn' = NoTurn
    /\ UNCHANGED <<stop, iteration, drainUsed, checkpoint, run, world>>

Restored == checkpoint.agent

\* resume_headless_agent: a checkpoint suffices, whatever ended the run.
Resume ==
    /\ pc \in {"stopped", "crashed"}
    /\ checkpoint.saved
    /\ resumes < MaxResumes
    /\ resumes' = resumes + 1
    /\ pc' = "loop"
    /\ stop' = "none"
    /\ agent' = Restored
    /\ iteration' = checkpoint.step
    /\ drainUsed' = 0
    /\ cancelled' = FALSE
    /\ timeUp' = FALSE
    /\ known' = unverified \cap checkpoint.known
    /\ unread' = NoFile
    /\ UNCHANGED <<profile, turn, checkpoint, unverified>>

-----------------------------------------------------------------------------

LoopStep == \/ StopCancelled \/ StopTimeBudget \/ StopPendingValidation
            \/ DrainRefused \/ DrainPasses \/ DrainFails
            \/ StopMaxIterations \/ RequestCompletion

CompletionStep == \/ CompletionFails \/ ParserRecovery \/ UnrecoverableParseError
                  \/ PlainText \/ Mismatch \/ RepeatInspection \/ StartBatch

BatchStep == \/ ReadSucceeds \/ ReadFails \/ EditSucceeds \/ EditFails
             \/ ValidationPasses \/ ValidationFails \/ ExecutorFails \/ PolicyDenied
             \/ RepeatedValidationRefused \/ InjectReread \/ InjectedRereadFails

EndStep == \/ EndWithRecovery \/ EndAborted \/ EndWithEdit \/ EndOutstanding
           \/ EndGreen \/ EndIdle

RunStep == LoopStep \/ CompletionStep \/ BatchStep \/ EndStep

Next == RunStep \/ Cancel \/ TimeExpires \/ Crash \/ Resume

Spec == Init /\ [][Next]_vars

\* The loop keeps going: a completion and a tool call return or time out.
FairSpec == Spec /\ WF_vars(RunStep)

-----------------------------------------------------------------------------
(* Properties *)

Turns == [actions : Seq(Actions), wrote : BOOLEAN, recovery : BOOLEAN, aborted : BOOLEAN]
Checkpoints == [saved : BOOLEAN, agent : States, step : Nat, known : SUBSET Files]

\* Every variable keeps its type.
TypeOK ==
    /\ profile \in RunProfiles
    /\ pc \in {"loop", "awaiting", "acting", "stopped", "crashed"}
    /\ stop \in StopReasons \cup {"none"}
    /\ iteration \in Nat /\ drainUsed \in Nat /\ resumes \in Nat
    /\ agent \in States
    /\ turn \in Turns
    /\ checkpoint \in Checkpoints
    /\ cancelled \in BOOLEAN /\ timeUp \in BOOLEAN
    /\ unverified \subseteq Files /\ known \subseteq Files
    /\ unread \in Files \cup {NoFile}

\* A run that reports success has a passing validation after the last edit its state
\* accounts for, whatever order edits, validations, failed reads, refusals and resumes
\* came in ("Do not stop after edits unless validation is green").
SuccessIsVerified == stop = "Success" => known = {}

\* The same of every edit on disk, those a crash or a fatal error hid from the
\* checkpoint included.
NoUnverifiedSuccess == stop = "Success" => unverified = {}

\* The model is asked, and its actions run, only when no validation is queued: a plan that
\* passes in a turn is then the last word, and grants green rightly.
DrainedBeforeModel == pc \in {"awaiting", "acting"} => agent.queue = <<>>

\* Draining validations past the model budget stays within the drain budget of each session.
IterationsBounded == iteration <= MaxIterations + VerifierDrainBudget * (resumes + 1)

\* In the sandboxed profile no edit runs after a failed or rolled back one before its file
\* has been read, by the model or by the controller.
RereadBeforeEdit ==
    [][(EditSucceeds \/ EditFails) /\ profile = "AutonomousSandboxed" => unread = NoFile]_vars

\* Within a session the model is not asked again once the token budget is spent.
TokenBudgetRespected ==
    [][pc = "loop" /\ pc' = "awaiting" /\ resumes = 0 => ~TokensExhausted(agent)]_vars

\* A cancelled or timed out run ends, although turns that cost no iteration may go on
\* for ever.
StopRequestHonoured == (cancelled \/ timeUp) ~> ~Running

\* Every run ends, without a clock and without a user who cancels it.
RunEnds == <>(~Running)
=============================================================================
