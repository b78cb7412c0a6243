---------------------------- MODULE DiffApplier ----------------------------
(***************************************************************************)
(* apply_run_diff: the final.diff of a run is brought into the source      *)
(* workspace, by "git apply" when that is a git repository, and otherwise  *)
(* by an applier of its own that stages every file in memory and then      *)
(* writes them one by one.  The user may edit the workspace meanwhile.     *)
(*                                                                         *)
(* A file is a sequence of lines.  A diff is a sequence of file groups, a  *)
(* group a sequence of hunks, a hunk a place in the original and lines of  *)
(* context, to delete and to add.  Every line ends with a newline, the     *)
(* last one of a file included.                                            *)
(***************************************************************************)
EXTENDS Integers, Sequences, Functions

CONSTANTS Paths,      \* the files of the workspace
          Lines,      \* the lines they may have
          Blank,      \* the empty line
          Dashed,     \* a line that begins with "-- "
          Plussed,    \* a line that begins with "++ "
          Naming,     \* the file that a line names which begins with "++ b/"
          Missing,    \* content of a file that does not exist
          Truncated,  \* content of a file whose write failed half-way
          Originals,  \* bound: the workspaces to begin with
          Diffs,      \* bound: the diffs to apply
          MaxUserEdits \* bound: edits of the user

ASSUME LinesAssumption ==
    /\ {Blank, Dashed, Plussed} \cup DOMAIN Naming \subseteq Lines /\ Naming \in [DOMAIN Naming -> Paths]
    /\ MaxUserEdits \in Nat

\* What is not the content of a file is no text.
ASSUME ContentAssumption == Missing # Truncated /\ {Missing, Truncated} \cap Seq(Lines) = {}

HunkLines == [kind : {"context", "delete", "add"}, text : Lines]
Hunks == [start : Nat, lines : Seq(HunkLines)]
FileGroups == [path : Paths, op : {"edit", "new", "delete"}, hunks : Seq(Hunks)]

\* A diff has one group for a file, and adds no line to one it deletes.
ASSUME DiffsAssumption ==
    /\ Originals \subseteq [Paths -> Seq(Lines) \cup {Missing}]
    /\ \A d \in Diffs : /\ d \in Seq(FileGroups)
                        /\ \A i, j \in DOMAIN d : d[i].path = d[j].path => i = j
                        /\ \A g \in Range(d) : g.op = "delete" =>
                              \A h \in Range(g.hunks) : \A l \in Range(h.lines) : l.kind = "delete"

\* op: "edit", "new" or "delete".
Group(path, op, hunks) == [path |-> path, op |-> op, hunks |-> hunks]
Hunk(start, lines) == [start |-> start, lines |-> lines]
Context(text) == [kind |-> "context", text |-> text]
Delete(text) == [kind |-> "delete", text |-> text]
Add(text) == [kind |-> "add", text |-> text]

-----------------------------------------------------------------------------
(* parse_unified_diff *)

\* The members of a sequence at the places that are kept.
Picked(seq, kept) ==
    LET upto[n \in 0..Len(seq)] ==
            IF n = 0 THEN <<>> ELSE IF n \in kept THEN Append(upto[n - 1], seq[n]) ELSE upto[n - 1]
    IN upto[Len(seq)]

\* The deletion of a line that begins with "-- " reads like the header "--- ", the addition of one
\* that begins with "++ " like the header "+++ ".
NamesFile(line) == line.kind = "add" /\ line.text \in DOMAIN Naming
ParsedLine(line) == line # Delete(Dashed) /\ line # Add(Plussed) /\ ~NamesFile(line)
ParsedLines(lines) == Picked(lines, {k \in DOMAIN lines : ParsedLine(lines[k])})
ParsedHunk(hunk) == Hunk(hunk.start, ParsedLines(hunk.lines))

Latest(places) == CHOOSE k \in places : \A j \in places : j <= k
LinesNamingFiles(hunk) == {k \in DOMAIN hunk.lines : NamesFile(hunk.lines[k])}
HunksNamingFiles(group) == {j \in DOMAIN group.hunks : LinesNamingFiles(group.hunks[j]) # {}}

\* A line that names a file begins another group, in which the hunk goes on; the group up to there
\* is dropped, with the hunks before.
ParsedGroup(group) ==
    LET hunks == [j \in DOMAIN group.hunks |-> ParsedHunk(group.hunks[j])]
        first == Latest(HunksNamingFiles(group))
        naming == group.hunks[first].lines[Latest(LinesNamingFiles(group.hunks[first]))]
    IN IF HunksNamingFiles(group) = {} THEN Group(group.path, group.op, hunks)
       ELSE Group(Naming[naming.text], "edit", SubSeq(hunks, first, Len(hunks)))

\* A group begins at its "+++ b/" header, which a deleted file does not have, nor one whose lines
\* stay.
HasHeader(group) == group.op # "delete" /\ group.hunks # <<>>

Parsed(diff) ==
    LET kept == Picked(diff, {i \in DOMAIN diff : HasHeader(diff[i])}) IN
    [i \in DOMAIN kept |-> ParsedGroup(kept[i])]

-----------------------------------------------------------------------------
(* apply_hunks: out is the new text, at the line of the original that comes next *)

LineAt(original, at) == IF at < Len(original) THEN original[at + 1] ELSE Blank

\* The lines of a text from one place to another.
Between(text, from, to) == SubSeq(text, from + 1, to)

\* Past the end of the file there is nothing to copy.
Copied(original, at) == IF at < Len(original) THEN <<original[at + 1]>> ELSE <<>>

\* Fault for AfterLine: a line to delete is not compared with the original.
AfterLineUnchecked(original, state, line) ==
    LET same == LineAt(original, state.at) = line.text IN
    IF state.verdict # "ok" THEN state
    ELSE CASE line.kind = "add" -> [state EXCEPT !.out = Append(@, line.text)]
           [] line.kind = "delete" -> [state EXCEPT !.at = @ + 1]
           [] line.kind = "context" /\ same -> [state EXCEPT !.out = @ \o Copied(original, state.at), !.at = @ + 1]
           [] line.kind = "context" /\ ~same -> [state EXCEPT !.verdict = "conflict"]

AfterLine(original, state, line) ==
    LET same == LineAt(original, state.at) = line.text IN
    IF state.verdict # "ok" THEN state
    ELSE CASE line.kind = "add" -> [state EXCEPT !.out = Append(@, line.text)]
           [] line.kind = "delete" /\ same -> [state EXCEPT !.at = @ + 1]
           [] line.kind = "context" /\ same -> [state EXCEPT !.out = @ \o Copied(original, state.at), !.at = @ + 1]
           [] line.kind # "add" /\ ~same -> [state EXCEPT !.verdict = "conflict"]

LinesApplied(original, state, lines) ==
    LET after[n \in 0..Len(lines)] ==
            IF n = 0 THEN state ELSE AfterLine(original, after[n - 1], lines[n])
    IN after[Len(lines)]

\* The slice up to the hunk panics when the hunk begins past the end of the file.
AfterHunk(original, state, hunk) ==
    LET start == IF hunk.start = 0 THEN 0 ELSE hunk.start - 1 IN
    IF state.verdict # "ok" THEN state
    ELSE IF start < state.at THEN [state EXCEPT !.verdict = "conflict"]
    ELSE IF start > Len(original) THEN [state EXCEPT !.verdict = "panic"]
    ELSE LinesApplied(original,
                      [state EXCEPT !.out = @ \o Between(original, state.at, start), !.at = start],
                      hunk.lines)

HunksApplied(original, hunks) ==
    LET after[n \in 0..Len(hunks)] ==
            IF n = 0 THEN [out |-> <<>>, at |-> 0, verdict |-> "ok"]
                     ELSE AfterHunk(original, after[n - 1], hunks[n])
    IN after[Len(hunks)]

\* So does the last slice, when context has matched past the end of the file.
AppliedHunks(original, hunks) ==
    LET last == HunksApplied(original, hunks)
    IN IF hunks = <<>> THEN [out |-> original, verdict |-> "ok"]
       ELSE IF last.verdict # "ok" THEN [out |-> <<>>, verdict |-> last.verdict]
       ELSE IF last.at > Len(original) THEN [out |-> <<>>, verdict |-> "panic"]
       ELSE [out |-> last.out \o Between(original, last.at, Len(original)), verdict |-> "ok"]

\* What apply_in_process makes of a group: staged text, a conflict, or a panic.
StagedGroup(worktree, group) ==
    IF worktree[group.path] = Missing
    THEN IF group.op = "new" THEN AppliedHunks(<<>>, group.hunks)
                             ELSE [out |-> <<>>, verdict |-> "conflict"]
    ELSE AppliedHunks(worktree[group.path], group.hunks)

-----------------------------------------------------------------------------
(* What a patch means, and what git does: the hunks are replaced from the last to the *)
(* first, so that none moves the place of another                                     *)

Texts(lines) == [i \in DOMAIN lines |-> lines[i].text]
Without(lines, kind) == Picked(lines, {k \in DOMAIN lines : lines[k].kind # kind})
OldSide(hunk) == Texts(Without(hunk.lines, "add"))
NewSide(hunk) == Texts(Without(hunk.lines, "delete"))
Place(hunk) == IF hunk.start = 0 THEN 0 ELSE hunk.start - 1

Fits(original, hunk) ==
    /\ Place(hunk) + Len(OldSide(hunk)) <= Len(original)
    /\ Between(original, Place(hunk), Place(hunk) + Len(OldSide(hunk))) = OldSide(hunk)

Separate(hunks) ==
    \A i, j \in DOMAIN hunks :
        i < j => Place(hunks[i]) + Len(OldSide(hunks[i])) <= Place(hunks[j])

Replaced(text, hunk) ==
    Between(text, 0, Place(hunk)) \o NewSide(hunk)
        \o Between(text, Place(hunk) + Len(OldSide(hunk)), Len(text))

Patched(original, hunks) ==
    LET after[n \in 0..Len(hunks)] ==
            IF n = 0 THEN original ELSE Replaced(after[n - 1], hunks[Len(hunks) + 1 - n])
    IN after[Len(hunks)]

Patchable(worktree, group) ==
    LET original == worktree[group.path]
        text == IF group.op = "new" THEN <<>> ELSE original
    IN  /\ IF group.op = "new" THEN original = Missing ELSE original \notin {Missing, Truncated}
        /\ Separate(group.hunks)
        /\ \A i \in DOMAIN group.hunks : Fits(text, group.hunks[i])

PatchedGroup(worktree, group) ==
    CASE group.op = "delete" -> Missing
      [] group.op = "new" -> Patched(<<>>, group.hunks)
      [] OTHER -> Patched(worktree[group.path], group.hunks)

GroupOf(diff, f) == CHOOSE g \in Range(diff) : g.path = f
Touches(diff, f) == \E g \in Range(diff) : g.path = f

GitPatched(worktree, diff) ==
    [f \in Paths |-> IF Touches(diff, f) THEN PatchedGroup(worktree, GroupOf(diff, f))
                                         ELSE worktree[f]]

-----------------------------------------------------------------------------
VARIABLES
    files,     \* the source workspace
    diff,      \* the run's final.diff
    git,       \* whether the workspace is a git repository
    progress,  \* "reading", "staging", "committing", "checked", or how it ended
    staged,    \* the staged groups: path and new text
    conflicts, \* files in conflict
    written,   \* staged files that are written
    userEdits, \* edits of the user so far
    theirs,    \* history: the workspace as the user alone has left it
    read       \* history: read[f]: the content that was staged or patched

applyVars == <<files, diff, git, progress, staged, conflicts, written, userEdits, theirs, read>>

Groups == Parsed(diff)

ApplyInit ==
    /\ files \in Originals
    /\ diff \in Diffs
    /\ git \in BOOLEAN
    /\ progress = "reading"
    /\ staged = <<>>
    /\ conflicts = 0
    /\ written = 0
    /\ userEdits = 0
    /\ theirs = files
    /\ read = files

\* A diff without a file group is reported as nothing applied.
ReadDiff ==
    /\ progress = "reading"
    /\ progress' = IF Groups = <<>> THEN "nothing" ELSE IF git THEN "checking" ELSE "staging"
    /\ UNCHANGED <<files, diff, git, staged, conflicts, written, userEdits, theirs, read>>

\* "git apply --check" and "git apply" are two commands.
CheckWithGit ==
    /\ progress = "checking"
    /\ progress' = IF \A g \in Range(diff) : Patchable(files, g) THEN "checked" ELSE "conflict"
    /\ UNCHANGED <<files, diff, git, staged, conflicts, written, userEdits, theirs, read>>

ApplyWithGit ==
    /\ progress = "checked"
    /\ IF \A g \in Range(diff) : Patchable(files, g)
       THEN progress' = "applied" /\ files' = GitPatched(files, diff) /\ read' = files
       ELSE progress' = "rejected" /\ UNCHANGED <<files, read>>
    /\ UNCHANGED <<diff, git, staged, conflicts, written, userEdits, theirs>>

\* One group after the other: read, patched in memory.
Looked == Len(staged) + conflicts

\* Fault for StageGroup: a group is written as soon as it fits.
StageGroupInPlace ==
    /\ progress = "staging" /\ Looked < Len(Groups)
    /\ LET group == Groups[Looked + 1]
           new == StagedGroup(files, group)
       IN IF new.verdict = "ok"
          THEN /\ files' = [files EXCEPT ![group.path] = new.out]
               /\ staged' = Append(staged, [path |-> group.path, text |-> new.out])
               /\ UNCHANGED conflicts
          ELSE conflicts' = conflicts + 1 /\ UNCHANGED <<files, staged>>
    /\ UNCHANGED <<diff, git, progress, written, userEdits, theirs, read>>

StageGroup ==
    /\ progress = "staging" /\ Looked < Len(Groups)
    /\ LET group == Groups[Looked + 1]
           new == StagedGroup(files, group)
       IN /\ read' = [read EXCEPT ![group.path] = files[group.path]]
          /\ \/ new.verdict = "ok"
                /\ staged' = Append(staged, [path |-> group.path, text |-> new.out])
                /\ UNCHANGED <<progress, conflicts>>
             \/ new.verdict = "conflict"
                /\ conflicts' = conflicts + 1
                /\ UNCHANGED <<progress, staged>>
             \/ new.verdict = "panic"
                /\ progress' = "panicked"
                /\ UNCHANGED <<staged, conflicts>>
    /\ UNCHANGED <<files, diff, git, written, userEdits, theirs>>

Decide ==
    /\ progress = "staging" /\ Looked = Len(Groups)
    /\ progress' = IF conflicts > 0 THEN "conflict" ELSE "committing"
    /\ UNCHANGED <<files, diff, git, staged, conflicts, written, userEdits, theirs, read>>

WriteStaged ==
    /\ progress = "committing" /\ written < Len(staged)
    /\ files' = [files EXCEPT ![staged[written + 1].path] = staged[written + 1].text]
    /\ written' = written + 1
    /\ UNCHANGED <<diff, git, progress, staged, conflicts, userEdits, theirs, read>>

\* The write fails, before or after it has truncated the file; the earlier ones stay.
WriteFailed ==
    /\ progress = "committing" /\ written < Len(staged)
    /\ progress' = "failed"
    /\ files' \in {files, [files EXCEPT ![staged[written + 1].path] = Truncated]}
    /\ UNCHANGED <<diff, git, staged, conflicts, written, userEdits, theirs, read>>

Committed ==
    /\ progress = "committing" /\ written = Len(staged)
    /\ progress' = "applied"
    /\ UNCHANGED <<files, diff, git, staged, conflicts, written, userEdits, theirs, read>>

UserEdits(f, text) ==
    /\ progress \in {"checked", "staging", "committing"}
    /\ userEdits < MaxUserEdits
    /\ userEdits' = userEdits + 1
    /\ files' = [files EXCEPT ![f] = text]
    /\ theirs' = [theirs EXCEPT ![f] = text]
    /\ UNCHANGED <<diff, git, progress, staged, conflicts, written, read>>

ApplyNext ==
    \/ ReadDiff \/ CheckWithGit \/ ApplyWithGit \/ StageGroup \/ Decide
    \/ WriteStaged \/ WriteFailed \/ Committed
    \/ \E f \in Paths, text \in {Missing, <<Blank>>} : UserEdits(f, text)

ApplySpec == ApplyInit /\ [][ApplyNext]_applyVars

-----------------------------------------------------------------------------
(* Properties *)

Over == {"nothing", "conflict", "rejected", "panicked", "applied", "failed"}

\* Every variable keeps its type.
ApplyTypeOK ==
    /\ DOMAIN files = Paths /\ DOMAIN theirs = Paths /\ DOMAIN read = Paths
    /\ \A f \in Paths : \/ files[f] \in {Missing, Truncated}
                        \/ \A i \in DOMAIN files[f] : files[f][i] \in Lines
    /\ progress \in Over \cup {"reading", "checking", "checked", "staging", "committing"}
    /\ conflicts \in Nat /\ userEdits \in 0..MaxUserEdits /\ git \in BOOLEAN
    /\ written \in 0..Len(staged)

WrittenPaths == {staged[i].path : i \in 1..written}
Breaking(f) == written < Len(staged) /\ staged[written + 1].path = f

\* "A non-zero conflict_files means the apply failed entirely; nothing changed on disk": no
\* refusal, by conflict, by git or by a panic, has touched a file.  Only a write that fails
\* leaves a part of the diff: the files before it, and its own file broken.
RefusalChangesNothing ==
    /\ progress \in {"conflict", "rejected", "panicked", "nothing"} => files = theirs
    /\ progress = "failed" =>
          \A f \in Paths \ WrittenPaths : files[f] = theirs[f] \/ (Breaking(f) /\ files[f] = Truncated)

\* Groups the in-process applier sees whole: it has a header, no line that reads like one, and no
\* new file that exists already (its lines go before those that are there).
Seen(group) ==
    /\ HasHeader(group)
    /\ group.op = "new" => read[group.path] = Missing
    /\ \A i \in DOMAIN group.hunks : \A j \in DOMAIN group.hunks[i].lines :
          ParsedLine(group.hunks[i].lines[j])

\* Another group has a line that names this file.
Misread(f) == \E g \in Range(diff) : HasHeader(g) /\ g.path # f /\ ParsedGroup(g).path = f

\* The files that are written: git's, or those whose group the applier has found.
Writes(f) == IF git THEN Touches(diff, f) ELSE \E g \in Range(Groups) : g.path = f

\* What is reported as applied is the diff, for every way its hunks can lie in the file: git's
\* patch of the files as they were when git read them; in process, the same for every group it
\* sees whole, while an edit the user makes after the file was read is overwritten.  No other
\* file is touched.  In process a file to be deleted stays, an added line that begins with "++ "
\* is left out, and so is a deleted one that begins with "-- "; and when an added line begins with
\* "++ b/", the file of its group stays as it is, and the hunks from there on go to the file that
\* the line names.
AppliedIsTheDiff ==
    progress = "applied" =>
        \A f \in Paths :
            /\ ~Writes(f) => files[f] = theirs[f]
            /\ Touches(diff, f) /\ (git \/ (Seen(GroupOf(diff, f)) /\ ~Misread(f))) =>
                  /\ Patchable(read, GroupOf(diff, f))
                  /\ \/ files[f] = PatchedGroup(read, GroupOf(diff, f))
                     \/ userEdits > 0 /\ files[f] = theirs[f]
=============================================================================
