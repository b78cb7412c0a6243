------------------------------ MODULE PatchVm ------------------------------
(***************************************************************************)
(* quorp_patch_vm: a plan is a sequence of file changes; its preview takes *)
(* the pre-images, its application carries the changes out one after the   *)
(* other, and the first change that fails undoes those that were applied.  *)
(* Workspace is the machine that does so step by step; this module has the *)
(* plans, the pre-images and the undo as operators on a worktree, which is *)
(* a function from files to contents.                                      *)
(*                                                                         *)
(* The hashes of a plan are those of the contents it was made from.  The   *)
(* session is the only writer, so they always match, and the preview id a  *)
(* high-risk plan has to repeat matches as well.  The limit of files in a  *)
(* plan is larger than the plans of the model.                             *)
(***************************************************************************)
EXTENDS Integers, Sequences

CONSTANTS Files,   \* the files of the worktree
          Texts,   \* contents that are valid UTF-8
          Binary,  \* contents that are not
          Garbled, \* what a write that failed half-way leaves
          Absent,  \* of a file that does not exist
          None     \* no file, no pre-image, no stash

ASSUME ContentsAssumption ==
    /\ Garbled \notin Texts \cup Binary
    /\ Absent \notin Texts \cup Binary \cup {Garbled}
    /\ None \notin Texts \cup Binary \cup {Garbled, Absent}
    /\ Texts \cap Binary = {}
ASSUME FilesAssumption == None \notin Files

Contents == Texts \cup Binary \cup {Garbled, Absent}
Worktrees == [Files -> Contents]

\* read_to_string(path).ok(): what is not text reads like a missing file.
AsText(content) == IF content \in Binary THEN Absent ELSE content

Add(f, t) == [kind |-> "add", path |-> f, target |-> f, text |-> t]
Update(f, t) == [kind |-> "update", path |-> f, target |-> f, text |-> t]
Delete(f) == [kind |-> "delete", path |-> f, target |-> f, text |-> Absent]
Move(f, g, t) == [kind |-> "move", path |-> f, target |-> g, text |-> t]

Changes == {Add(f, t) : f \in Files, t \in Texts} \cup {Update(f, t) : f \in Files, t \in Texts}
           \cup {Delete(f) : f \in Files}
           \cup {Move(f, g, t) : f \in Files, g \in Files, t \in Texts}

\* preview_file_changes: every change but an addition needs its file.
Admitted(disk, plan) ==
    \A i \in DOMAIN plan : plan[i].kind # "add" => disk[plan[i].path] # Absent

\* The rollback tokens: pre-images of the files that exist, not of the targets of moves.
Tokens(disk, plan) ==
    [f \in Files |-> IF disk[f] # Absent /\ \E i \in DOMAIN plan : plan[i].path = f
                     THEN disk[f] ELSE None]

\* Fault for RollbackApplied: a file created by the plan has no pre-image, and is given it.
RollbackAppliedVerbatim(disk, applied, tokens) ==
    [f \in Files |-> IF f \in applied THEN tokens[f] ELSE disk[f]]

\* Fault for RollbackApplied: files that are gone are passed over.
RollbackAppliedIfPresent(disk, applied, tokens) ==
    [f \in Files |-> IF f \notin applied \/ disk[f] = Absent THEN disk[f]
                     ELSE IF tokens[f] = None THEN Absent ELSE tokens[f]]

\* rollback_applied: a file with a token gets its pre-image back, any other is removed.
RollbackApplied(disk, applied, tokens) ==
    [f \in Files |-> IF f \notin applied THEN disk[f]
                     ELSE IF tokens[f] = None THEN Absent ELSE tokens[f]]

\* A change that fails while it writes leaves the file as it was, or truncated.
Interrupted(disk, f) == {disk, [disk EXCEPT ![f] = Garbled]}
=============================================================================
