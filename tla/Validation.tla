----------------------------- MODULE Validation -----------------------------
(***************************************************************************)
(* run_validation of the native backend and the durable verify store: the  *)
(* commands of a plan are run; when one fails the worktree is rolled back, *)
(* when all pass the stash is cleared and the runs are turned into a       *)
(* receipt, stage by stage, through a cache on disk whose key is the plan  *)
(* and the stage: a constant revision and the hash of the command lines    *)
(* stand for the sources, so what is in the worktree is not in it.         *)
(*                                                                         *)
(* A worktree is a number, its content; what a command prints depends on   *)
(* it, and so does the hash of its log.  How edits stash files is          *)
(* Workspace's; a stash is here the content it brings back.                *)
(***************************************************************************)
EXTENDS Integers, Sequences

CONSTANTS Commands,
          ValidationPlans, \* bound: the plans: sequences of commands
          RollsBack,       \* enable_rollback_on_validation_failure
          NoContent,       \* no log, no cache file, no stash
          Unreadable,      \* a file whose write was cut short
          MaxContents,     \* bound: edits
          MaxWriteFaults   \* bound: writes that fail

ASSUME ValidationAssumption ==
    /\ ValidationPlans \subseteq Seq(Commands) /\ <<>> \notin ValidationPlans
    /\ RollsBack \in BOOLEAN
    /\ {MaxContents, MaxWriteFaults} \subseteq Nat
    /\ NoContent \notin Int /\ Unreadable \notin Int \cup {NoContent}

Contents == 0..MaxContents
Keys == UNION {{plan} \X DOMAIN plan : plan \in ValidationPlans}

VARIABLES
    worktree, \* its content
    newest,   \* the newest content there was
    stash,
    phase,    \* "idle", "commands" or "receipt"
    plan,     \* the plan, and the stage that is next
    stage,
    log,      \* log[c]: the content c was last run on, as its log has it
    cache,    \* cache[key]: the content whose run was stored under key
    receipt,  \* of each stage its command, the content its hash is of, and whether it was cached
    verdict,  \* what run_validation reported: "none", "passed" or "failed"
    writeFaults,
    clean,    \* history: the content when the stash was last empty
    ran       \* history: the content each command of the plan has passed on

treeVars == <<worktree, newest, stash, clean>>
stepVars == <<phase, plan, stage>>
diskVars == <<log, cache>>
validationVars == <<treeVars, stepVars, diskVars, receipt, verdict, writeFaults, ran>>

NoRuns == [c \in Commands |-> NoContent]

ValidationInit ==
    /\ worktree = 0 /\ newest = 0 /\ stash = NoContent /\ clean = 0
    /\ phase = "idle" /\ plan = <<>> /\ stage = 1
    /\ log = NoRuns
    /\ cache = [key \in Keys |-> NoContent]
    /\ receipt = <<>> /\ verdict = "none"
    /\ writeFaults = 0
    /\ ran = NoRuns

Edit ==
    /\ phase = "idle" /\ newest < MaxContents
    /\ newest' = newest + 1
    /\ worktree' = newest'
    /\ stash' = IF stash = NoContent THEN worktree ELSE stash
    /\ verdict' = "none"
    /\ UNCHANGED <<clean, stepVars, diskVars, receipt, writeFaults, ran>>

BeginValidation(p) ==
    /\ phase = "idle"
    /\ phase' = "commands" /\ plan' = p /\ stage' = 1
    /\ receipt' = <<>> /\ verdict' = "none"
    /\ ran' = NoRuns
    /\ UNCHANGED <<treeVars, diskVars, writeFaults>>

-----------------------------------------------------------------------------
(* run_validation_commands *)

Running(c) == phase = "commands" /\ stage <= Len(plan) /\ plan[stage] = c

\* Fault for CommandPasses: a command whose stage is in the cache is not run.
CommandSkipped(c) ==
    /\ Running(c)
    /\ stage' = stage + 1
    /\ IF cache[<<plan, stage>>] \in Contents THEN UNCHANGED <<ran, log>>
       ELSE ran' = [ran EXCEPT ![c] = worktree] /\ log' = [log EXCEPT ![c] = worktree]
    /\ UNCHANGED <<treeVars, phase, plan, cache, receipt, verdict, writeFaults>>

CommandPasses(c) ==
    /\ Running(c)
    /\ stage' = stage + 1
    /\ ran' = [ran EXCEPT ![c] = worktree]
    /\ log' = [log EXCEPT ![c] = worktree]
    /\ UNCHANGED <<treeVars, phase, plan, cache, receipt, verdict, writeFaults>>

EndsAs(v) == phase' = "idle" /\ verdict' = v

\* Fault for RolledBack: what there is to restore is dropped.
RolledBackLate ==
    /\ stash' = NoContent
    /\ UNCHANGED <<worktree, newest, clean>>

RolledBack ==
    /\ worktree' = IF stash = NoContent THEN worktree ELSE stash
    /\ stash' = NoContent
    /\ UNCHANGED <<newest, clean>>

\* It exits with an error, or cannot be run, or its log cannot be written.
CommandFails(c) ==
    /\ Running(c)
    /\ log' \in {log, [log EXCEPT ![c] = worktree]}
    /\ EndsAs("failed")
    /\ IF RollsBack THEN RolledBack ELSE UNCHANGED treeVars
    /\ UNCHANGED <<plan, stage, cache, receipt, writeFaults, ran>>

AllPassed ==
    /\ phase = "commands" /\ stage > Len(plan)
    /\ phase' = "receipt" /\ stage' = 1
    /\ stash' = NoContent /\ clean' = worktree
    /\ UNCHANGED <<worktree, newest, plan, diskVars, receipt, verdict, writeFaults, ran>>

-----------------------------------------------------------------------------
(* execute_verify_request_durable: the commands are not run again *)

Key == <<plan, stage>>
AtStage == phase = "receipt" /\ stage <= Len(plan)
Node(content, cached) == [command |-> plan[stage], content |-> content, cached |-> cached]

StageCached ==
    /\ AtStage /\ cache[Key] \in Contents
    /\ receipt' = Append(receipt, Node(cache[Key], TRUE))
    /\ stage' = stage + 1
    /\ UNCHANGED <<treeVars, phase, plan, diskVars, verdict, writeFaults, ran>>

\* The file of the cache does not parse: the validation fails, now and whenever it is tried.
StageUnreadable ==
    /\ AtStage /\ cache[Key] = Unreadable
    /\ EndsAs("failed")
    /\ UNCHANGED <<treeVars, plan, stage, diskVars, receipt, writeFaults, ran>>

StageStored ==
    /\ AtStage /\ cache[Key] = NoContent
    /\ log' = [log EXCEPT ![plan[stage]] = ran[plan[stage]]]
    /\ cache' = [cache EXCEPT ![Key] = ran[plan[stage]]]
    /\ receipt' = Append(receipt, Node(ran[plan[stage]], FALSE))
    /\ stage' = stage + 1
    /\ UNCHANGED <<treeVars, phase, plan, verdict, writeFaults, ran>>

\* A cache file that is being written may be left behind cut short.
CutShort == {cache} \cup IF AtStage /\ cache[Key] = NoContent
                         THEN {[cache EXCEPT ![Key] = Unreadable]} ELSE {}

\* The log, the cache file or the proof graph cannot be written.
ReceiptFails ==
    /\ phase = "receipt" /\ writeFaults < MaxWriteFaults
    /\ writeFaults' = writeFaults + 1
    /\ cache' \in CutShort
    /\ EndsAs("failed")
    /\ UNCHANGED <<treeVars, plan, stage, log, receipt, ran>>

ReceiptWritten ==
    /\ phase = "receipt" /\ stage > Len(plan)
    /\ EndsAs("passed")
    /\ UNCHANGED <<treeVars, plan, stage, diskVars, receipt, writeFaults, ran>>

\* The process is killed: the stash is gone, the files are not.
Killed ==
    /\ phase # "idle" \/ stash # NoContent
    /\ phase' = "idle" /\ verdict' = "none"
    /\ stash' = NoContent /\ clean' = worktree
    /\ cache' \in CutShort
    /\ UNCHANGED <<worktree, newest, plan, stage, log, receipt, writeFaults, ran>>

-----------------------------------------------------------------------------
ValidationNext ==
    \/ Edit \/ AllPassed
    \/ \E p \in ValidationPlans : BeginValidation(p)
    \/ \E c \in Commands : CommandPasses(c) \/ CommandFails(c)
    \/ StageCached \/ StageUnreadable \/ StageStored \/ ReceiptFails \/ ReceiptWritten
    \/ Killed

ValidationSpec == ValidationInit /\ [][ValidationNext]_validationVars

-----------------------------------------------------------------------------
(* Properties *)

\* Every variable keeps its type.
ValidationTypeOK ==
    /\ worktree \in Contents /\ newest \in Contents /\ clean \in Contents
    /\ stash \in Contents \cup {NoContent}
    /\ phase \in {"idle", "commands", "receipt"}
    /\ plan \in ValidationPlans \cup {<<>>} /\ stage \in Nat
    /\ log \in [Commands -> Contents \cup {NoContent}]
    /\ ran \in [Commands -> Contents \cup {NoContent}]
    /\ cache \in [Keys -> Contents \cup {NoContent, Unreadable}]
    /\ receipt \in Seq([command : Commands, content : Contents, cached : BOOLEAN])
    /\ verdict \in {"none", "passed", "failed"}
    /\ writeFaults \in 0..MaxWriteFaults

Passed(c) == ran[c] = worktree

\* A validation that passed says something of the worktree as it is, although its report may
\* come from the cache: every command of the plan has passed on it, every stage has its node,
\* and the log of every stage that is not cached is the log of that run.
PassIsCurrent ==
    verdict = "passed" =>
        /\ \A i \in DOMAIN plan : Passed(plan[i])
        /\ Len(receipt) = Len(plan)
        /\ \A i \in DOMAIN receipt :
              ~receipt[i].cached => log[receipt[i].command] = receipt[i].content
                                    /\ receipt[i].content = worktree

\* "Changes were safely rolled back": after a validation that failed the worktree is what it
\* was when the stash was last empty.  The exception is a receipt that could not be written:
\* then every command has passed, the stash is gone, and a write has failed or a cache file was
\* cut short by an earlier one, or by a kill.
FailureIsExplained ==
    verdict = "failed" /\ RollsBack =>
        \/ worktree = clean /\ stash = NoContent /\ \E i \in DOMAIN plan : ~Passed(plan[i])
        \/ /\ \A i \in DOMAIN plan : Passed(plan[i])
           /\ writeFaults > 0 \/ \E key \in Keys : cache[key] = Unreadable
=============================================================================
