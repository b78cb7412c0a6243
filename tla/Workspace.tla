----------------------------- MODULE Workspace -----------------------------
(***************************************************************************)
(* The worktree of one session under the edit tools of quorp_session, with *)
(* the rollback stash (SHADOW_WORKTREE) that a failed validation restores. *)
(*                                                                         *)
(* Tool calls come one at a time.  An apply_patch stashes its files before *)
(* the patch VM runs; the other edit tools (write_file, replace_block,     *)
(* replace_range, modify_toml, apply_preview), here direct edits, stash    *)
(* what their report names, after it has run.  A step is one file system   *)
(* operation of the patch VM; any of them may fail, and the process may be *)
(* killed between any two.                                                 *)
(***************************************************************************)
EXTENDS PatchVm

CONSTANTS Plans,       \* bound: the patches the model may send
          DirectEdits, \* whether direct edits are among the tools
          Initial,     \* the worktrees a session may start with
          MaxEdits,    \* bound: edits of a session
          MaxFailures, \* bound: failed file system operations
          MaxRestarts  \* bound: restarts of the process

ASSUME PlansAssumption == Plans \subseteq Seq(Changes)
ASSUME InitialAssumption == Initial \subseteq Worktrees
ASSUME WorkspaceBounds ==
    {MaxEdits, MaxFailures, MaxRestarts} \subseteq Nat /\ DirectEdits \in BOOLEAN

VARIABLES
    disk,     \* the worktree
    stash,    \* stash[f]: content the session's stash has of f, or None
    pc,       \* "idle", "applying" or "moving" (between the two halves of a move)
    plan,     \* changes of the edit still to be applied
    tool,     \* "patch" or "direct": the tool of the edit
    tokens,   \* pre-images its preview took
    applied,  \* files of the changes it has applied
    outcome,  \* of the last edit: "none", "applied" or "failed"
    edits,    \* edits so far
    failures, \* failed file system operations so far
    restarts, \* restarts so far
    before,   \* history: the worktree when the last edit began
    broken,   \* history: file the failing change of the last edit wrote, or None
    base,     \* history: the worktree a rollback is to restore
    direct    \* history: files first edited by a direct edit since base

count == <<edits, failures, restarts>>
edit == <<plan, tool, tokens, applied>>
EditOver == plan' = <<>> /\ applied' = {} /\ UNCHANGED <<tool, tokens>>
vars == <<disk, stash, pc, plan, tool, tokens, applied, outcome, edits, failures,
          restarts, before, broken, base, direct>>

NoStash == [f \in Files |-> None]

Init ==
    /\ disk \in Initial
    /\ stash = NoStash
    /\ pc = "idle"
    /\ plan = <<>>
    /\ tool = "patch"
    /\ tokens = NoStash
    /\ applied = {}
    /\ outcome = "none"
    /\ edits = 0 /\ failures = 0 /\ restarts = 0
    /\ before = disk
    /\ broken = None
    /\ base = disk
    /\ direct = {}

-----------------------------------------------------------------------------
(* The stash *)

\* Fault for Stashed: the newest content of a file is kept, not the first.
StashedAnew(s, files) == [f \in Files |-> IF f \in files THEN AsText(disk[f]) ELSE s[f]]

\* stash_file_for_rollback: the first content of a file is kept.
Stashed(s, files) ==
    [f \in Files |-> IF f \in files /\ s[f] = None THEN AsText(disk[f]) ELSE s[f]]

\* rollback_session_worktree writes back what was stashed, and removes what was absent.
RolledBack == [f \in Files |-> IF stash[f] = None THEN disk[f] ELSE stash[f]]

-----------------------------------------------------------------------------
(* The beginning of an edit *)

\* A preview that is admitted takes the pre-images; then the changes are applied.
Begin(by, changes) ==
    /\ pc = "idle"
    /\ edits < MaxEdits
    /\ edits' = edits + 1
    /\ Admitted(disk, changes)
    /\ tokens' = Tokens(disk, changes)
    /\ pc' = "applying"
    /\ plan' = changes
    /\ tool' = by
    /\ applied' = {}
    /\ outcome' = "none"
    /\ before' = disk
    /\ broken' = None

\* resolve_file_patches reads the files it updates or moves, as text.
Resolvable(changes) ==
    \A i \in DOMAIN changes :
        changes[i].kind \in {"update", "move"} => AsText(disk[changes[i].path]) # Absent

\* Fault for Touched: the target of a move is not stashed.
TouchedSources(changes) == {changes[i].path : i \in DOMAIN changes}

Touched(changes) == {changes[i].path : i \in DOMAIN changes}
                    \cup {changes[i].target : i \in DOMAIN changes}

\* Files a patch may also want to delete although they do not exist: these deletions are
\* dropped, their files are stashed.
Missing == {f \in Files : disk[f] = Absent}

ApplyPatch ==
    \E changes \in Plans :
        /\ Resolvable(changes)
        /\ Begin("patch", changes)
        /\ \E dropped \in SUBSET Missing : stash' = Stashed(stash, Touched(changes) \cup dropped)
        /\ UNCHANGED <<disk, failures, restarts, base, direct>>

\* A patch whose search blocks do not match has stashed its file already, and so has one
\* that only deletes what does not exist.
InVain == {{f} : f \in {g \in Files : disk[g] \notin Binary \cup {Absent}}} \cup SUBSET Missing

ApplyPatchInVain ==
    /\ pc = "idle"
    /\ edits < MaxEdits
    /\ edits' = edits + 1
    /\ \E files \in InVain \ {{}} : stash' = Stashed(stash, files)
    /\ UNCHANGED <<disk, pc, edit, outcome, failures, restarts, before, broken, base, direct>>

\* write_file creates a file or overwrites it; the other direct edits overwrite it.
DirectEdit ==
    /\ DirectEdits
    /\ \E f \in Files, t \in Texts :
          /\ Begin("direct", <<IF disk[f] = Absent THEN Add(f, t) ELSE Update(f, t)>>)
          /\ direct' = IF stash[f] = None THEN direct \cup {f} ELSE direct
    /\ UNCHANGED <<disk, stash, failures, restarts, base>>

-----------------------------------------------------------------------------
(* The patch VM carries the plan out *)

Change == Head(plan)
MayFail == failures < MaxFailures

Carried(files) ==
    /\ applied' = applied \cup files
    /\ plan' = Tail(plan)
    /\ pc' = "applying"
    /\ UNCHANGED <<stash, tool, tokens, outcome, count, before, broken, base, direct>>

\* The change failed in worktree d, having written file f if any.
Fail(d, f) ==
    /\ disk' = RollbackApplied(d, applied, tokens)
    /\ pc' = "idle"
    /\ outcome' = "failed"
    /\ broken' = f
    /\ EditOver
    /\ UNCHANGED <<stash, edits, restarts, before, base, direct>>

WriteFile ==
    /\ pc = "applying" /\ plan # <<>>
    /\ \/ Change.kind = "update"
       \/ Change.kind = "add" /\ disk[Change.path] = Absent
    /\ disk' = [disk EXCEPT ![Change.path] = Change.text]
    /\ Carried({Change.path})

RefuseAdd ==
    /\ pc = "applying" /\ plan # <<>>
    /\ Change.kind = "add" /\ disk[Change.path] # Absent
    /\ Fail(disk, None)
    /\ UNCHANGED failures

RemoveFile ==
    /\ pc = "applying" /\ plan # <<>>
    /\ Change.kind = "delete"
    /\ disk' = [disk EXCEPT ![Change.path] = Absent]
    /\ Carried({Change.path})

\* A move writes its target, whatever is there, and then removes its source.
MoveWrites ==
    /\ pc = "applying" /\ plan # <<>>
    /\ Change.kind = "move"
    /\ disk' = [disk EXCEPT ![Change.target] = Change.text]
    /\ pc' = "moving"
    /\ UNCHANGED <<stash, edit, outcome, count, before, broken, base, direct>>

MoveRemoves ==
    /\ pc = "moving"
    /\ disk' = [disk EXCEPT ![Change.path] = Absent]
    /\ Carried({Change.path, Change.target})

\* fs::write creates or truncates the file before it writes.
WriteFails ==
    /\ pc = "applying" /\ plan # <<>> /\ MayFail
    /\ Change.kind \in {"update", "move"} \/ (Change.kind = "add" /\ disk[Change.path] = Absent)
    /\ failures' = failures + 1
    /\ \E d \in Interrupted(disk, Change.target) : Fail(d, Change.target)

RemoveFails ==
    /\ MayFail
    /\ \/ pc = "applying" /\ plan # <<>> /\ Change.kind = "delete" /\ disk[Change.path] # Absent
          /\ Fail(disk, None)
       \/ pc = "moving" /\ Fail(disk, Change.target)
    /\ failures' = failures + 1

\* record_patch_vm_rollback: a direct edit stashes the files of its report when it is done.
Finish ==
    /\ pc = "applying" /\ plan = <<>>
    /\ pc' = "idle"
    /\ outcome' = "applied"
    /\ stash' = IF tool = "direct" THEN Stashed(stash, applied) ELSE stash
    /\ EditOver
    /\ UNCHANGED <<disk, count, before, broken, base, direct>>

-----------------------------------------------------------------------------
(* Validation, and the death of the process *)

\* A new reference for rollbacks: nothing has been edited since.
Rebased(d) == base' = d /\ direct' = {}

ValidationPasses ==
    /\ pc = "idle"
    /\ stash' = NoStash
    /\ Rebased(disk)
    /\ UNCHANGED <<disk, pc, edit, outcome, count, before, broken>>

\* A failed validation of a run with rollback enabled.
RollBack ==
    /\ pc = "idle"
    /\ disk' = RolledBack
    /\ stash' = NoStash
    /\ Rebased(disk')
    /\ outcome' = "none"
    /\ UNCHANGED <<pc, edit, count, before, broken>>

\* The stash is in memory, and so is the plan.
Restart ==
    /\ restarts < MaxRestarts
    /\ restarts' = restarts + 1
    /\ stash' = NoStash
    /\ pc' = "idle"
    /\ outcome' = "none"
    /\ Rebased(disk)
    /\ EditOver
    /\ UNCHANGED <<disk, edits, failures, before, broken>>

-----------------------------------------------------------------------------
Vm == \/ WriteFile \/ RefuseAdd \/ RemoveFile \/ MoveWrites \/ MoveRemoves
      \/ WriteFails \/ RemoveFails \/ Finish

Next == \/ ApplyPatch \/ ApplyPatchInVain \/ DirectEdit \/ Vm
        \/ ValidationPasses \/ RollBack \/ Restart

Spec == Init /\ [][Next]_vars

-----------------------------------------------------------------------------
(* Properties *)

Stashes == [Files -> Contents \cup {None}]

\* Every variable keeps its type.
TypeOK ==
    /\ disk \in Worktrees /\ before \in Worktrees /\ base \in Worktrees
    /\ stash \in Stashes /\ tokens \in Stashes
    /\ pc \in {"idle", "applying", "moving"}
    /\ plan \in Seq(Changes)
    /\ tool \in {"patch", "direct"}
    /\ applied \subseteq Files /\ direct \subseteq Files
    /\ outcome \in {"none", "applied", "failed"}
    /\ edits \in Nat /\ failures \in Nat /\ restarts \in Nat
    /\ broken \in Files \cup {None}

\* At every moment of a patch, and of the undo of a patch that failed half-way, the stash has
\* the first text of each file that differs from the reference, unless a direct edit was the
\* first to touch it.
StashedBeforeChange ==
    \A f \in Files \ direct : disk[f] # base[f] => stash[f] = AsText(base[f])

\* A rollback after a failed validation brings back the text of every file that patches were
\* the first to edit, whatever patches, failures and direct edits came after; a file that is
\* not text is beyond it.
PatchesRollBack ==
    [][RollBack => \A f \in Files \ direct : base[f] \notin Binary => disk'[f] = base[f]]_vars

\* What a failed patch leaves behind is confined to the file its failing change wrote and to
\* existing files that its moves overwrote: every other change is undone.
FailureIsContained ==
    outcome = "failed" =>
        \A f \in Files \ {broken} :
            disk[f] # before[f] => before[f] # Absent /\ tokens[f] = None

\* "Changes were safely rolled back": of every tool that edits.
RollbackRestores ==
    [][RollBack => \A f \in Files : base[f] \notin Binary => disk'[f] = base[f]]_vars

\* "failed apply rolls back previous changes and preserves original bytes".
FailureIsAtomic == outcome = "failed" => disk = before
=============================================================================
