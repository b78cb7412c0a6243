----------------------------- MODULE CaseRepair -----------------------------
(***************************************************************************)
(* The repair of a benchmark case in quorp_agent_core: the case ledger,    *)
(* the phases of BenchmarkRepairState a failed fast loop starts, the lease *)
(* on one patch target, and what of the model's replies the phase and the  *)
(* benchmark policy let through.  AgentRun has the same loop without a     *)
(* case ledger; its budgets are not repeated here, a turn that may spend   *)
(* the last of one may end the run.  Which rereads the loop guard takes    *)
(* for repetitions is left open.                                           *)
(*                                                                         *)
(* A range of lines is around the failure ("anchor"), well away from it    *)
(* ("elsewhere") or absent ("whole").                                      *)
(***************************************************************************)
EXTENDS Integers, Sequences, FiniteSets, SequencesExt

CONSTANTS
    Sources, Tests, Manifests,  \* source files, obvious test files, Cargo.toml files
    NoPath,
    Ledgers,       \* ledgers a run may start with
    Failures,      \* what a failing fast loop may print
    OutsidePaths,  \* bound: the files the model touches while no repair is under way
    MaxFailures    \* bound: failures of the fast loop

RepairPaths == Sources \cup Tests \cup Manifests

\* diagnostic_class; "source" is a compile error or a failed test, "timeout" one without class.
Classes == {"source", "dependency", "feature", "timeout", "other"}

\* hint: the target's text has a line the failure points to.
NoFailure == [class |-> "other", path |-> NoPath, hint |-> FALSE]

ASSUME RepairPathsAssumption == NoPath \notin RepairPaths
ASSUME LedgersAssumption ==
    Ledgers \subseteq [owners : Seq(RepairPaths), touched : Seq(RepairPaths), narrow : BOOLEAN]
ASSUME FailuresAssumption ==
    Failures \subseteq [class : Classes, path : RepairPaths \cup {NoPath}, hint : BOOLEAN]
ASSUME RepairBoundsAssumption == MaxFailures \in Nat /\ OutsidePaths \subseteq RepairPaths

VARIABLES
    ledger,      \* BenchmarkCaseLedger: owner files, expected touch targets, narrow-owner-first
    failure,     \* its validation_details: the failure of the last fast loop
    flags,       \* repair_required, post_fast_loop_patch_attempted and ..._validation_rerun_attempted
    repair,      \* benchmark_repair_state; phase "none" where it is absent
    requirement, \* repair_requirement: a file to reread before the next edit
    lease,       \* agent_repair_memory.implementation_target_lease
    marks,       \* what else of AgentRepairMemory and of the last edit decides
    observed,    \* observed_slices, by path
    standing,    \* verified_green and last_failing_verifier
    queue,       \* validation_queue: "fast" or "other" plans
    loop,        \* where the turn stands, and what is left of its actions
    failed,      \* failures of the fast loop so far
    past         \* history: what followed the first failure

ledgerVars == <<ledger, failure, flags, failed>>
contextVars == <<marks, observed>>
caseVars == <<ledger, failure, flags, repair, requirement, lease, marks, observed, standing, queue,
              loop, failed, past>>

NoRepair == [phase |-> "none", owner |-> NoPath, anchor |-> FALSE, suggested |-> FALSE,
             loaded |-> NoPath, invalid |-> 0]
Phases == {"none", "anchor", "implementation", "patch", "rerun"}

NoRequirement == [path |-> NoPath, done |-> FALSE]
Require(p) == [path |-> p, done |-> FALSE]
Pending == requirement.path # NoPath /\ ~requirement.done

-----------------------------------------------------------------------------
(* Actions of a reply *)

Read(p, range) == [kind |-> "read", path |-> p, range |-> range]
Explore == [kind |-> "explore", path |-> NoPath, range |-> "whole"]
Anchors(p) == [kind |-> "anchors", path |-> p, range |-> "whole"]
Preview(p) == [kind |-> "preview", path |-> p, range |-> "whole"]
Write(p) == [kind |-> "write", path |-> p, range |-> "whole"]
Apply == [kind |-> "apply", path |-> NoPath, range |-> "whole"]
FastPlan == [kind |-> "fastplan", path |-> NoPath, range |-> "whole"]
FastCommand == [kind |-> "fastcommand", path |-> NoPath, range |-> "whole"]
OtherPlan == [kind |-> "otherplan", path |-> NoPath, range |-> "whole"]

Ranges == {"anchor", "elsewhere", "whole"}
FastLoops == {FastPlan, FastCommand}
Reads == {Read(p, r) : p \in RepairPaths, r \in Ranges}
RepairActions == Reads \cup {Explore, Apply, OtherPlan} \cup FastLoops
                 \cup {Anchors(p) : p \in RepairPaths} \cup {Preview(p) : p \in RepairPaths}
                 \cup {Write(p) : p \in RepairPaths}

IsRead(a) == a.kind = "read"
IsWrite(a) == a.kind \in {"write", "apply"}
IsEvidence(a) == a.kind \in {"read", "explore", "anchors"}

Batches == {<<a>> : a \in RepairActions}
           \cup {<<Write(p), f>> : p \in RepairPaths, f \in FastLoops}
           \cup {<<OtherPlan, FastCommand>>}

-----------------------------------------------------------------------------
(* The lease: the first ranked target that is not test evidence only *)

\* The first of paths that is in S.
FirstIn(paths, S) ==
    LET among == {i \in DOMAIN paths : paths[i] \in S}
    IN  IF among = {} THEN NoPath ELSE paths[CHOOSE i \in among : \A j \in among : i <= j]

OwnersFirst(f) == f.class = "source" \/ (f.class = "timeout" /\ ledger.owners # <<>>)

\* The first of each kind of target, in the order of the kinds; NoPath for one there is none of.
RankedTargets(f) ==
    (IF OwnersFirst(f)
     THEN <<FirstIn(ledger.owners, RepairPaths \ Tests),
            FirstIn(ledger.touched, RepairPaths \ (Manifests \cup Range(ledger.owners))),
            FirstIn(ledger.touched, Manifests)>>
     ELSE <<FirstIn(ledger.touched, IF f.class \in {"dependency", "feature"} THEN Manifests ELSE {}),
            FirstIn(ledger.touched, RepairPaths),
            FirstIn(ledger.owners, RepairPaths \ Tests)>>)
    \o <<IF f.path \in Tests THEN NoPath ELSE f.path>>

TargetLease(f) == FirstIn(RankedTargets(f), RepairPaths)

\* benchmark_patch_target_path: the lease in memory, the ledger's, or the owner.
PatchTarget(held, f, owner) ==
    IF held # NoPath THEN held
    ELSE IF TargetLease(f) # NoPath THEN TargetLease(f) ELSE owner

Target == PatchTarget(lease, failure, repair.owner)
LeaseInForce == IF lease # NoPath THEN lease ELSE TargetLease(failure)

InScope(p) == p \in Range(ledger.owners) \cup Range(ledger.touched)
Related(p) == InScope(p) \/ p = failure.path \/ p \in Tests

\* patch_target_context_loaded
LoadedIn(r, paths, p) == r.loaded = p \/ (p \in Manifests /\ p \in paths)
TargetLoaded == LoadedIn(repair, observed, Target)
WriteLocked == repair.phase = "patch" /\ ~Pending /\ TargetLoaded

\* prime_benchmark_patch_target_requirement, with the lease as it was before the sync.
Primed(r, paths, req, f) ==
    LET target == PatchTarget(lease, f, r.owner)
    IN  IF /\ req = NoRequirement
           /\ r.phase = "patch"
           /\ ~LoadedIn(r, paths, target)
           /\ IF target \in Manifests THEN f.class = "dependency" ELSE r.suggested \/ f.hint
        THEN Require(target) ELSE req

\* sync_benchmark_repair_state_to_ledger
Sync(r, paths, req, f) ==
    /\ requirement' = Primed(r, paths, req, f)
    /\ lease' = TargetLease(f)

\* benchmark_repair_state_from_ledger
LeaseDrives(f) ==
    /\ TargetLease(f) \notin Tests \cup {NoPath}
    /\ f.class \notin {"dependency", "feature"}
    /\ f.path \in Tests

FirstOwner(f) ==
    IF f.path # NoPath THEN f.path
    ELSE FirstIn(ledger.owners \o ledger.touched, RepairPaths)

\* Fault: a failure that names no file starts no repair, though the ledger has owner files.
RepairOfNamedFile(f) ==
    IF f.path = NoPath THEN NoRepair ELSE [NoRepair EXCEPT !.phase = "anchor", !.owner = f.path, !.anchor = TRUE]

RepairAfter(f) ==
    IF LeaseDrives(f)
    THEN [NoRepair EXCEPT !.phase = "patch", !.owner = TargetLease(f)]
    ELSE IF FirstOwner(f) = NoPath THEN NoRepair
    ELSE [NoRepair EXCEPT !.phase = "anchor", !.owner = FirstOwner(f), !.anchor = f.path # NoPath]

-----------------------------------------------------------------------------
CaseInit ==
    /\ ledger \in Ledgers
    /\ failure = NoFailure
    /\ flags = [required |-> FALSE, patched |-> FALSE, rerun |-> FALSE]
    /\ repair = NoRepair
    /\ requirement = NoRequirement
    /\ lease = NoPath
    /\ marks = [wrote |-> FALSE, lastWrite |-> NoPath, scaffold |-> TRUE, previewed |-> NoPath,
                locks |-> FALSE, refuted |-> FALSE]
    /\ observed = {}
    /\ standing = [green |-> FALSE, failing |-> FALSE]
    /\ queue = <<>>
    /\ loop = [at |-> "reply", rest |-> <<>>, wrote |-> FALSE]
    /\ failed = 0
    /\ past = "none"

-----------------------------------------------------------------------------
(* Which replies fit the phase: benchmark_repair_phase_correction_message *)

PreviewLocked == marks.locks
PreviewTargets(p) == marks.previewed = p

\* benchmark_evidence_action_satisfies
SatisfiesEvidence(a) ==
    \/ IsRead(a) /\ IF a.path = repair.owner THEN repair.anchor => a.range = "anchor"
                                             ELSE Related(a.path)
    \/ a.kind = "explore"
    \/ a.kind = "anchors" /\ (a.path = repair.owner \/ Related(a.path))

\* repair_requirement_read_is_valid
ReadsRequired(a) ==
    IsRead(a) /\ a.path = requirement.path /\ ((a.path \in Manifests) <=> (a.range = "whole"))

OwnerWrite(a) ==
    \/ a = Write(Target)
    \/ a = Apply /\ Target \notin Manifests /\ PreviewTargets(Target)

PatchTurn(b) ==
    LET first == Head(b)
        patches == OwnerWrite(first) /\ Range(Tail(b)) \subseteq FastLoops
    IN  IF TargetLoaded
        THEN CASE Target \in Manifests /\ PreviewLocked -> b = <<Apply>>
               [] Target \in Manifests /\ ~PreviewLocked -> b = <<Preview(Target)>>
               [] OTHER -> b = <<Preview(Target)>> \/ patches
        ELSE \/ /\ marks.scaffold /\ Len(b) = 1 /\ first.path = Target
                /\ \/ first.kind \in {"read", "preview"}
                   \/ first.kind = "anchors" /\ Target \notin Manifests
             \/ patches

FitsPhase(b) ==
    CASE repair.phase = "none" -> TRUE
      [] repair.phase # "none" /\ Pending -> \A a \in Range(b) : ReadsRequired(a)
      [] OTHER ->
            CASE repair.phase = "anchor" -> \A a \in Range(b) : SatisfiesEvidence(a)
              [] repair.phase = "implementation" -> Range(b) = {Read(repair.owner, "elsewhere")}
              [] repair.phase = "patch" -> PatchTurn(b)
              [] repair.phase = "rerun" -> Range(b) \subseteq FastLoops

\* normalize_benchmark_repair_turn_actions, as far as it changes one of Batches.
Normalized(b) ==
    CASE repair.phase = "patch" /\ ~TargetLoaded /\ Target \notin Manifests ->
            IF (\E a \in Range(b) : a.kind \in {"read", "explore"}) /\ (repair.suggested \/ failure.hint)
            THEN <<Read(Target, "elsewhere")>> ELSE b
      [] repair.phase = "patch" /\ TargetLoaded /\ Target \in Manifests /\ PreviewLocked -> <<Apply>>
      [] OTHER -> b

-----------------------------------------------------------------------------
(* What the benchmark policy refuses: allow_action_for_benchmark_policy *)

\* benchmark_narrow_repair_restricts_action
NarrowRefuses(a) ==
    /\ ledger.narrow /\ flags.required
    /\ \/ WriteLocked /\ IsEvidence(a)
       \/ /\ ~(repair.phase = "anchor" /\ SatisfiesEvidence(a))
          /\ \/ a.kind = "explore"
             \/ a.path # NoPath /\ ~InScope(a.path)

\* benchmark_target_lease_violation
LeaseRefuses(a) ==
    /\ repair.phase = "patch" /\ lease # NoPath
    /\ a.kind \in {"anchors", "preview", "write"} /\ a.path # lease

\* benchmark_write_requires_observed_target_context
UnobservedRefuses(a) ==
    /\ repair.phase = "patch"
    /\ a.kind = "write" /\ a.path = LeaseInForce
    /\ a.path \notin observed

PatchNextRefuses(a) ==
    /\ requirement.done /\ flags.required /\ ~flags.patched
    /\ ~IsWrite(a) /\ a.kind # "preview"

\* Fault: a validation is refused after a failure whatever was edited since.
AnyValidationRefused(a) == marks.refuted /\ a \in FastLoops \cup {OtherPlan}

\* action_repeats_validation_before_repair_write
RepeatedValidationRefuses(a) ==
    ~marks.wrote /\ ~flags.patched /\ marks.refuted /\ a \in FastLoops \cup {OtherPlan}

TestFileRefuses(a) ==
    a.kind \in {"write", "preview", "anchors"} /\ a.path \in Tests \ Range(ledger.touched)

\* The first refusal in the code's order; "recover" starts another turn, "reread" has the
\* controller read the required range, "fatal" ends the run.
PolicyOn(a) ==
    IF NarrowRefuses(a) THEN "fatal"
    ELSE IF LeaseRefuses(a) THEN "recover"
    ELSE IF UnobservedRefuses(a) THEN "fatal"
    ELSE IF IsWrite(a) /\ Pending THEN "reread"
    ELSE IF PatchNextRefuses(a) \/ RepeatedValidationRefuses(a) \/ TestFileRefuses(a) THEN "recover"
    ELSE "allowed"

-----------------------------------------------------------------------------
(* What a read leaves behind: observe_outcome *)

\* reread_satisfies_requirement: a whole manifest, or lines that overlap the suggested ones.
Settles(a) ==
    IF a.path \in Manifests THEN {a.range = "whole"}
    ELSE IF a.range = "whole" THEN {FALSE} ELSE BOOLEAN

RequirementAfter(a, settles) ==
    IF requirement.path = a.path THEN [requirement EXCEPT !.done = settles] ELSE requirement

\* testOnly: only test code in the lines read; located: the implementation was found in the
\* owner's text; entire: the whole file fits the observation.  Lines are compared by number,
\* whichever of the owner and the leased file they are of.
RepairAfterRead(a, testOnly, located, entire) ==
    CASE repair.phase = "anchor" /\ repair.anchor /\ a.range = "anchor" ->
            IF ~testOnly
            THEN [repair EXCEPT !.phase = "patch", !.loaded = a.path, !.invalid = 0]
            ELSE IF LeaseInForce \notin {NoPath, a.path}
            THEN [repair EXCEPT !.phase = "patch", !.owner = LeaseInForce, !.loaded = NoPath,
                                !.suggested = FALSE, !.invalid = 0]
            ELSE [repair EXCEPT !.phase = "implementation", !.suggested = located,
                                !.loaded = NoPath, !.invalid = 0]
      [] repair.phase = "implementation" /\ repair.anchor /\ a.range = "elsewhere" ->
            [repair EXCEPT !.phase = "patch", !.loaded = a.path, !.invalid = 0]
      [] repair.phase = "patch" /\ a.path = LeaseInForce ->
            [repair EXCEPT !.invalid = 0,
                           !.loaded = IF a.path \in Manifests \/ a.range # "whole" \/ entire
                                      THEN a.path ELSE NoPath]
      [] OTHER -> repair

ObserveRead(a) ==
    /\ observed' = observed \cup {a.path}
    /\ \E settles \in Settles(a) :
          IF repair.phase # "none" /\ a.path \in {repair.owner, LeaseInForce}
          THEN \E testOnly, located, entire \in BOOLEAN :
                  /\ repair' = RepairAfterRead(a, testOnly, located, entire)
                  /\ Sync(repair', observed', RequirementAfter(a, settles), failure)
          ELSE requirement' = RequirementAfter(a, settles) /\ UNCHANGED <<repair, lease>>

-----------------------------------------------------------------------------
(* A reply of the model: handle_model_turn up to its first action *)

At(step) == loop' = [loop EXCEPT !.at = step, !.rest = <<>>]
Replying == loop.at = "reply" /\ queue = <<>>
Unfinished == UNCHANGED <<ledgerVars, standing, queue, past>>

\* Bound: outside a repair the model edits a few files and runs validations; it makes one
\* preview at a time, and applies what it has made.
Offered(b) ==
    /\ repair.phase = "none" => \A a \in Range(b) : /\ a.kind \in {"write", "otherplan"} \/ a \in FastLoops
                                                    /\ a.path \in OutsidePaths \cup {NoPath}
    /\ \A a \in Range(b) : /\ a.kind = "preview" => marks.previewed = NoPath
                           /\ a.kind = "apply" => marks.previewed # NoPath

\* The sync of a reply that was looked at by the phase.
PhaseChecked(invalid) ==
    IF repair.phase = "none" THEN UNCHANGED <<repair, requirement, lease>>
    ELSE repair' = [repair EXCEPT !.invalid = invalid] /\ Sync(repair, observed, requirement, failure)

OnManifest == repair.phase = "patch" /\ Target \in Manifests

\* A reply that does not fit the phase costs no budget; on a locked manifest the second ends
\* the run, or else the controller may read in its place.  The count decides nothing elsewhere.
ReplyCorrected ==
    /\ Replying
    /\ \E b \in Batches : ~FitsPhase(Normalized(b))
    /\ PhaseChecked(IF OnManifest THEN 1 ELSE 0)
    /\ At(IF OnManifest /\ WriteLocked /\ repair.invalid = 1 THEN "dead" ELSE "inject")
    /\ UNCHANGED contextVars /\ Unfinished

\* No action, or none that can be parsed: counted against a budget, and read for as above.
ReplyGarbled ==
    /\ Replying
    /\ \E next \in {"inject", "dead"} : At(next)
    /\ UNCHANGED <<repair, requirement, lease, contextVars>> /\ Unfinished

\* turn_repeats_known_inspection_only takes the reads for repetitions.
ReplyRepeats ==
    /\ Replying
    /\ \E b \in Batches : FitsPhase(Normalized(b)) /\ \A a \in Range(Normalized(b)) : IsRead(a)
    /\ PhaseChecked(0)
    /\ \E next \in {"reply", "dead"} : At(next)
    /\ UNCHANGED contextVars /\ Unfinished

ReplyAccepted ==
    /\ Replying
    /\ \E b \in Batches :
          /\ Offered(Normalized(b)) /\ FitsPhase(Normalized(b))
          /\ loop' = [at |-> "acting", rest |-> Normalized(b), wrote |-> FALSE]
    /\ PhaseChecked(0)
    /\ UNCHANGED contextVars /\ Unfinished

\* A reply without actions is a turn of its own when the run is green, or outside a repair.
EmptyReply ==
    /\ Replying
    /\ standing.green \/ repair.phase = "none"
    /\ repair.phase = "patch" => Pending
    /\ PhaseChecked(0)
    /\ loop' = [at |-> "acting", rest |-> <<>>, wrote |-> FALSE]
    /\ UNCHANGED contextVars /\ Unfinished

-----------------------------------------------------------------------------
(* The controller's own read: maybe_inject_required_repair_read *)

\* required_repair_read_action
RequiredReads ==
    IF Pending
    THEN {Read(requirement.path, r) : r \in IF requirement.path \in Manifests THEN {"whole"}
                                            ELSE {"anchor", "elsewhere"}}
    ELSE CASE repair.phase = "anchor" /\ repair.anchor -> {Read(repair.owner, "anchor")}
           [] repair.phase = "implementation" /\ repair.suggested -> {Read(repair.owner, "elsewhere")}
           [] OTHER -> {}

\* RepairPolicy::decide asks for a read while a reread is due or nothing was read yet.
MayInject == flags.required /\ RequiredReads # {} /\ (Pending \/ observed = {})

Injects == (loop.at = "inject" /\ MayInject) \/ loop.at = "reread"

NotInjected ==
    /\ loop.at = "inject" /\ ~MayInject
    /\ At("reply")
    /\ UNCHANGED <<repair, requirement, lease, contextVars>> /\ Unfinished

ReadInjected ==
    /\ Injects
    /\ \E a \in RequiredReads : PolicyOn(a) = "allowed" /\ ObserveRead(a)
    /\ At("reply")
    /\ UNCHANGED marks /\ Unfinished

\* The read fails or is refused.
InjectionFails ==
    /\ Injects
    /\ At("dead")
    /\ UNCHANGED <<repair, requirement, lease, contextVars>> /\ Unfinished

-----------------------------------------------------------------------------
(* One dispatched action of the turn, or of the validation queue *)

Act == Head(loop.rest)
Acting(kinds) ==
    /\ loop.at \in {"acting", "draining"} /\ loop.rest # <<>>
    /\ Act.kind \in kinds
    /\ PolicyOn(Act) = "allowed"

NextAct == loop' = [loop EXCEPT !.rest = Tail(@)]

\* A queued plan is followed by the end of the run or another round of the loop.
Drained(green, plans) ==
    IF loop.at = "draining" THEN At(IF green /\ plans = <<>> THEN "done" ELSE "reply") ELSE NextAct

ReadSucceeds ==
    /\ Acting({"read"})
    /\ ObserveRead(Act)
    /\ NextAct
    /\ UNCHANGED marks /\ Unfinished

\* A failed inspection costs a recovery turn; the third in a row ends the run.
InspectionFails ==
    /\ Acting({"read", "explore", "anchors", "preview"})
    /\ \E next \in {"reply", "dead"} : At(next)
    /\ UNCHANGED <<repair, requirement, lease, contextVars>> /\ Unfinished

Inspects ==
    /\ Acting({"explore", "anchors"})
    /\ marks' = [marks EXCEPT !.scaffold = @ /\ Act.kind = "explore"]
    /\ NextAct
    /\ UNCHANGED <<repair, requirement, lease, observed>> /\ Unfinished

\* record_preview_edit: a preview with an id can be applied, and locks a loaded manifest.
Previews ==
    /\ Acting({"preview"})
    /\ \E identified \in BOOLEAN :
          marks' = IF identified
                   THEN [marks EXCEPT !.scaffold = FALSE, !.previewed = Act.path,
                                      !.locks = WriteLocked /\ Target \in Manifests]
                   ELSE [marks EXCEPT !.scaffold = FALSE]
    /\ NextAct
    /\ UNCHANGED <<repair, requirement, lease, observed>> /\ Unfinished

\* Applying counts against the previews made, whether it succeeds or not.
Spent(m) == IF Act.kind = "apply" THEN [m EXCEPT !.previewed = NoPath, !.locks = FALSE] ELSE m

EditSucceeds ==
    /\ Acting({"write", "apply"})
    /\ flags' = [flags EXCEPT !.patched = @ \/ flags.required]
    /\ IF repair.phase = "patch"
       THEN repair' = [repair EXCEPT !.phase = "rerun", !.invalid = 0] /\ lease' = TargetLease(failure)
       ELSE UNCHANGED <<repair, lease>>
    /\ requirement' = NoRequirement
    /\ marks' = [Spent(marks) EXCEPT !.wrote = TRUE, !.scaffold = FALSE, !.lastWrite = Act.path]
    /\ standing' = [standing EXCEPT !.green = FALSE]
    /\ loop' = [loop EXCEPT !.rest = Tail(@), !.wrote = TRUE]
    /\ UNCHANGED <<ledger, failure, failed, observed, queue, past>>

\* A failed edit wants its file reread; a failed apply leaves no requirement behind.
EditFails ==
    /\ Acting({"write", "apply"})
    /\ requirement' = IF Act.kind = "write" THEN Require(Act.path) ELSE NoRequirement
    /\ marks' = Spent(marks)
    /\ At("reply")
    /\ UNCHANGED <<repair, lease, observed>> /\ Unfinished

Rerun == IF past = "failed" THEN "reran" ELSE past

\* The fast loop passes: the case is done, and whatever else was queued with it.
FastLoopPasses ==
    /\ Acting({"fastplan", "fastcommand"})
    /\ flags' = [flags EXCEPT !.required = FALSE, !.rerun = @ \/ flags.patched]
    /\ repair' = NoRepair
    /\ lease' = TargetLease(failure)
    /\ standing' = [green |-> TRUE, failing |-> FALSE]
    /\ queue' = <<>>
    /\ Drained(TRUE, <<>>)
    /\ past' = Rerun
    /\ UNCHANGED <<ledger, failure, failed, requirement, contextVars>>

\* It fails: a plan is the verdict of a validation, a command leaves the verdict as it was.
\* Either starts the repair anew, whatever a rollback of the last edit asked for.
FastLoopFails ==
    /\ Acting({"fastplan", "fastcommand"})
    /\ failed < MaxFailures
    /\ failed' = failed + 1
    /\ \E f \in Failures :
          /\ failure' = f
          /\ repair' = RepairAfter(f)
          /\ Sync(RepairAfter(f), observed, NoRequirement, f)
    /\ flags' = [flags EXCEPT !.required = TRUE, !.rerun = @ \/ flags.patched]
    /\ IF Act.kind = "fastplan"
       THEN standing' = [green |-> FALSE, failing |-> TRUE] /\ queue' = <<>>
       ELSE UNCHANGED <<standing, queue>>
    /\ At("reply")
    /\ past' = IF failed > 0 THEN Rerun
               ELSE IF Act.kind = "fastplan" THEN "failed" ELSE "command"
    /\ marks' = [marks EXCEPT !.refuted = TRUE]
    /\ UNCHANGED <<ledger, observed>>

OtherValidationPasses ==
    /\ Acting({"otherplan"})
    /\ standing' = [green |-> standing.green \/ queue = <<>>, failing |-> FALSE]
    /\ IF loop.at = "draining" THEN Drained(standing'.green, queue)
                               ELSE loop' = [loop EXCEPT !.rest = Tail(@), !.wrote = FALSE]
    /\ UNCHANGED <<ledgerVars, repair, requirement, lease, contextVars, queue, past>>

\* Another validation fails: a rollback report makes the last edit a requirement, as a failed
\* edit is, and takes the repair back to its patch.
OtherValidationFails ==
    /\ Acting({"otherplan"})
    /\ standing' = [green |-> FALSE, failing |-> TRUE]
    /\ queue' = <<>>
    /\ \/ UNCHANGED <<repair, requirement, lease>>
       \/ /\ marks.lastWrite # NoPath
          /\ requirement' = Require(marks.lastWrite)
          /\ lease' = TargetLease(failure)
          /\ repair' = IF repair.phase = "none" THEN repair
                       ELSE [repair EXCEPT !.phase = "patch", !.invalid = 0]
    /\ At("reply")
    /\ marks' = [marks EXCEPT !.refuted = TRUE]
    /\ UNCHANGED <<ledgerVars, observed, past>>

\* A refused queued plan ends the run, as a refusal the turn does not know how to mend does;
\* so may what the text of an action decides: an edit too large or before any look at the
\* failure, an inspection asked for the third time.
ActionRefused ==
    /\ loop.at \in {"acting", "draining"} /\ loop.rest # <<>>
    /\ LET policy == PolicyOn(Act)
           unread == failed > 0 /\ Act.kind \in {"read", "explore", "write"}
       IN  \/ policy # "allowed" /\ At(CASE loop.at = "draining" -> "dead"
                                         [] loop.at = "acting" /\ policy = "recover" -> "reply"
                                         [] loop.at = "acting" /\ policy = "reread" -> "reread"
                                         [] OTHER -> "dead")
           \/ policy = "allowed" /\ unread /\ At("dead")
    /\ UNCHANGED <<repair, requirement, lease, contextVars>> /\ Unfinished

-----------------------------------------------------------------------------
(* The end of a turn, and the validation queue *)

\* Fault: an edit of a repair queues the usual validations only.
FastLoopForgotten == <<>>

\* benchmark_fast_loop_validation_plan: the fast loop is queued until it has been rerun once.
FastLoopQueue == IF flags.required /\ flags.patched /\ ~flags.rerun THEN <<FastPlan>> ELSE <<>>

\* A turn that wrote queues the fast loop, the format check and the turn's own plan or the
\* workspace tests; outstanding edits without a verdict queue the workspace's plan.
TurnEnds ==
    /\ loop.at = "acting" /\ loop.rest = <<>>
    /\ IF loop.wrote
       THEN /\ \E followup \in {OtherPlan, FastPlan} : queue' = FastLoopQueue \o <<OtherPlan, followup>>
            /\ At("reply")
       ELSE IF marks.wrote /\ ~standing.green /\ queue = <<>> /\ ~standing.failing
       THEN queue' = FastLoopQueue \o <<OtherPlan>> /\ At("reply")
       ELSE IF standing.green THEN UNCHANGED queue /\ At("done")
       ELSE UNCHANGED queue /\ \E next \in {"reply", "dead"} : At(next)
    /\ UNCHANGED <<ledgerVars, repair, requirement, lease, contextVars, standing, past>>

\* A queued plan goes before any model turn.
Drains ==
    /\ loop.at = "reply" /\ queue # <<>>
    /\ loop' = [loop EXCEPT !.at = "draining", !.rest = <<Head(queue)>>]
    /\ queue' = Tail(queue)
    /\ UNCHANGED <<ledgerVars, repair, requirement, lease, contextVars, standing, past>>

Reply == ReplyCorrected \/ ReplyGarbled \/ ReplyRepeats \/ ReplyAccepted \/ EmptyReply
Controller == NotInjected \/ ReadInjected \/ InjectionFails
Acts == \/ ReadSucceeds \/ InspectionFails \/ Inspects \/ Previews \/ EditSucceeds \/ EditFails
        \/ FastLoopPasses \/ FastLoopFails \/ OtherValidationPasses \/ OtherValidationFails
        \/ ActionRefused

CaseNext == Reply \/ Controller \/ Acts \/ TurnEnds \/ Drains

CaseSpec == CaseInit /\ [][CaseNext]_caseVars

-----------------------------------------------------------------------------
(* Properties *)

CaseTypeOK ==
    /\ ledger \in Ledgers
    /\ failure \in Failures \cup {NoFailure}
    /\ flags \in [required : BOOLEAN, patched : BOOLEAN, rerun : BOOLEAN]
    /\ repair \in [phase : Phases, owner : RepairPaths \cup {NoPath}, anchor : BOOLEAN,
                   suggested : BOOLEAN, loaded : RepairPaths \cup {NoPath}, invalid : 0..1]
    /\ requirement \in [path : RepairPaths \cup {NoPath}, done : BOOLEAN]
    /\ lease \in RepairPaths \cup {NoPath}
    /\ observed \subseteq RepairPaths
    /\ loop.at \in {"reply", "acting", "draining", "inject", "reread", "done", "dead"}
    /\ failed \in 0..MaxFailures
    /\ past \in {"none", "failed", "command", "reran"}

\* A case whose fast loop has failed as a validation is not called done before the fast loop has
\* been run again, unless neither the failure nor the ledger names a file to repair.
SuccessWasRerun == loop.at = "done" /\ past = "failed" => FirstOwner(failure) = NoPath

\* The ledger and the phase tell the same, unless the ledger names no file at all: with one of
\* them gone, half of the restrictions would be lifted and the other half kept.
PhaseFollowsLedger == (repair.phase # "none") <=> (flags.required /\ FirstOwner(failure) # NoPath)

\* What moves a repair on.
Awaited(a) ==
    IF Pending THEN ReadsRequired(a)
    ELSE CASE repair.phase = "anchor" -> repair.anchor /\ a = Read(repair.owner, "anchor")
           [] repair.phase = "implementation" -> repair.anchor /\ a = Read(repair.owner, "elsewhere")
           [] repair.phase = "patch" -> IsWrite(a) \/ a.path = Target
           [] repair.phase = "rerun" -> a \in FastLoops

WayOn ==
    \/ \E b \in Batches : LET n == Normalized(b)
                          IN  FitsPhase(n) /\ Awaited(n[1]) /\ PolicyOn(n[1]) = "allowed"
    \/ MayInject /\ \E a \in RequiredReads : PolicyOn(a) = "allowed"

\* A failure without a line to read; a target nothing may read any more; a file outside the scope;
\* a test that has to be edited, because no other file is known, and may not be.
NoLineToRead == repair.phase = "anchor" /\ ~repair.anchor
TargetOutOfSight == repair.phase = "patch" /\ ~TargetLoaded /\ ~marks.scaffold /\ Target \notin observed
OutOfScope == ledger.narrow /\ \E p \in {repair.owner, requirement.path, Target} : p # NoPath /\ ~InScope(p)
TestToEdit == repair.phase = "patch" /\ Target \in Tests \ Range(ledger.touched)

\* A repair can get stuck, with every reply the phase asks for refused, in four ways only.
StuckOnlyAsKnown ==
    Replying /\ repair.phase # "none" =>
        WayOn \/ NoLineToRead \/ TargetOutOfSight \/ OutOfScope \/ TestToEdit
=============================================================================
