-------------------------- MODULE Workspace_proofs --------------------------
(***************************************************************************)
(* Proofs about Workspace, for any set of files, any contents, any patches *)
(* of any length and any number of edits, failures and restarts.           *)
(***************************************************************************)
EXTENDS Workspace, SequenceTheorems, TLAPS

\* A file has a stash, or a direct edit is to blame that it has none.
Covered(f) == f \in direct \/ stash[f] # None

\* A stash holds the content of the reference, and an unstashed file is as in the reference.
StashAgrees ==
    \A f \in Files \ direct :
        /\ stash[f] \in {None, AsText(base[f])}
        /\ stash[f] = None => disk[f] = base[f]

\* What an edit has changed and what it is going to change is covered beforehand.
EditCovered ==
    pc # "idle" =>
        /\ \A f \in applied : Covered(f)
        /\ \A i \in DOMAIN plan : Covered(plan[i].path) /\ Covered(plan[i].target)

\* While an edit goes on, nothing but its changes separates the worktree from the one it
\* began with, of which it holds pre-images.
EditInProgress ==
    pc # "idle" =>
        /\ outcome = "none"
        /\ \A f \in Files : tokens[f] # None => tokens[f] = before[f]
        /\ pc = "moving" => plan # <<>>
        /\ \A f \in Files \ applied :
              disk[f] # before[f] => pc = "moving" /\ f = Change.target

IInv == /\ TypeOK /\ StashAgrees /\ EditCovered /\ EditInProgress /\ FailureIsContained

-----------------------------------------------------------------------------
(* Facts about the data *)

\* A stash never looks empty: a file without text is stashed as absent.
LEMMA AsTextType == \A x \in Contents : AsText(x) \in Contents /\ AsText(x) # None
  BY ContentsAssumption DEF AsText, Contents

\* Every change names files and writes a content of the worktree.
LEMMA ChangeType ==
    \A ch \in Changes : ch.path \in Files /\ ch.target \in Files /\ ch.text \in Contents
                        /\ (ch.kind # "move" => ch.target = ch.path)
  BY DEF Changes, Add, Update, Delete, Move, Contents

\* The head and the tail of what is left of a plan.
LEMMA PlanStep ==
    ASSUME NEW p \in Seq(Changes), p # <<>>
    PROVE  /\ Head(p) \in Changes /\ Tail(p) \in Seq(Changes)
           /\ 1 \in DOMAIN p /\ Head(p) = p[1]
           /\ \A i \in DOMAIN Tail(p) : i + 1 \in DOMAIN p /\ Tail(p)[i] = p[i + 1]
  OBVIOUS

\* A stash taken between two edits agrees with the reference, and covers its files.
LEMMA StashedAgrees ==
    ASSUME TypeOK, StashAgrees, NEW files \in SUBSET Files, pc = "idle"
    PROVE  LET s == Stashed(stash, files)
           IN  /\ s \in Stashes
               /\ \A f \in files : s[f] # None
               /\ \A f \in Files : stash[f] # None => s[f] # None
               /\ \A f \in Files \ direct :
                     /\ s[f] \in {None, AsText(base[f])}
                     /\ s[f] = None => disk[f] = base[f]
  BY AsTextType DEF TypeOK, Worktrees, Stashes, StashAgrees, Stashed

-----------------------------------------------------------------------------
(* The invariant is inductive *)

LEMMA InitHolds == Init => IInv
  BY InitialAssumption, EmptySeq
  DEF Init, IInv, TypeOK, NoStash, Stashes, Worktrees, Contents, StashAgrees, EditCovered,
      EditInProgress, FailureIsContained

\* The beginning of an edit.
LEMMA ApplyPatchHolds == IInv /\ ApplyPatch => IInv'
<1> SUFFICES ASSUME IInv, NEW changes \in Plans, Begin("patch", changes),
                    NEW dropped \in SUBSET Missing,
                    stash' = Stashed(stash, Touched(changes) \cup dropped),
                    UNCHANGED <<disk, failures, restarts, base, direct>>
             PROVE  IInv'
  BY DEF ApplyPatch
<1>1. changes \in Seq(Changes)
  BY PlansAssumption
<1>2. /\ \A i \in DOMAIN changes : changes[i] \in Changes
      /\ \A i \in DOMAIN changes : changes[i].path \in Touched(changes)
                                   /\ changes[i].target \in Touched(changes)
  BY <1>1 DEF Touched
<1>3. Touched(changes) \cup dropped \subseteq Files
  BY <1>2, ChangeType DEF Touched, Missing
<1>4. /\ stash' \in Stashes
      /\ \A f \in Touched(changes) : stash'[f] # None
      /\ \A f \in Files \ direct :
            /\ stash'[f] \in {None, AsText(base[f])}
            /\ stash'[f] = None => disk[f] = base[f]
  BY <1>3, StashedAgrees DEF IInv, Begin
<1>5. tokens' \in Stashes /\ \A f \in Files : tokens'[f] # None => tokens'[f] = disk[f]
  BY DEF Begin, Tokens, IInv, TypeOK, Stashes, Worktrees
<1>6. TypeOK'
  BY <1>1, <1>4, <1>5 DEF IInv, TypeOK, Begin
<1>7. StashAgrees' /\ EditCovered'
  BY <1>2, <1>4 DEF StashAgrees, EditCovered, Covered, Begin
<1>8. EditInProgress' /\ FailureIsContained'
  BY <1>5 DEF EditInProgress, FailureIsContained, Begin
<1> QED
  BY <1>6, <1>7, <1>8 DEF IInv

\* A patch that fails before its preview only stashes.
LEMMA ApplyPatchInVainHolds == IInv /\ ApplyPatchInVain => IInv'
<1> SUFFICES ASSUME IInv, NEW files \in InVain, stash' = Stashed(stash, files),
                    pc = "idle", edits' = edits + 1,
                    UNCHANGED <<disk, pc, edit, outcome, failures, restarts, before, broken,
                                base, direct>>
             PROVE  IInv'
  BY DEF ApplyPatchInVain
<1>1. files \subseteq Files
  BY DEF InVain, Missing
<1>2. /\ stash' \in Stashes
      /\ \A f \in Files \ direct :
            /\ stash'[f] \in {None, AsText(base[f])}
            /\ stash'[f] = None => disk[f] = base[f]
  BY <1>1, StashedAgrees DEF IInv
<1>3. TypeOK'
  BY <1>2 DEF IInv, TypeOK, edit
<1>4. StashAgrees' /\ EditCovered' /\ EditInProgress' /\ FailureIsContained'
  BY <1>2 DEF IInv, StashAgrees, EditCovered, EditInProgress, FailureIsContained, edit
<1> QED
  BY <1>3, <1>4 DEF IInv

LEMMA DirectEditHolds == IInv /\ DirectEdit => IInv'
<1> SUFFICES ASSUME IInv, NEW f \in Files, NEW t \in Texts,
                    Begin("direct", <<IF disk[f] = Absent THEN Add(f, t) ELSE Update(f, t)>>),
                    direct' = (IF stash[f] = None THEN direct \cup {f} ELSE direct),
                    UNCHANGED <<disk, stash, failures, restarts, base>>
             PROVE  IInv'
  BY DEF DirectEdit
<1> DEFINE ch == IF disk[f] = Absent THEN Add(f, t) ELSE Update(f, t)
<1>1. ch \in Changes /\ ch.path = f /\ ch.target = f
  BY DEF Changes, Add, Update
<1> HIDE DEF ch
<1>2. plan' \in Seq(Changes) /\ DOMAIN plan' = {1} /\ plan'[1] = ch
  BY <1>1 DEF Begin, ch
<1>3. tokens' \in Stashes /\ \A g \in Files : tokens'[g] # None => tokens'[g] = disk[g]
  BY DEF Begin, Tokens, IInv, TypeOK, Stashes, Worktrees
<1>4. TypeOK'
  BY <1>2, <1>3 DEF IInv, TypeOK, Begin
<1>5. StashAgrees'
  BY DEF IInv, StashAgrees
<1>6. EditCovered'
  BY <1>1, <1>2 DEF EditCovered, Covered, Begin
<1>7. EditInProgress' /\ FailureIsContained'
  BY <1>3 DEF EditInProgress, FailureIsContained, Begin
<1> QED
  BY <1>4, <1>5, <1>6, <1>7 DEF IInv

\* One change has been carried out: what it touched was covered and is applied now.
LEMMA CarriedHolds ==
    ASSUME IInv, pc # "idle", plan # <<>>, NEW files \in SUBSET Files,
           files \subseteq {Change.path, Change.target}, Carried(files),
           disk' \in Worktrees,
           pc = "moving" => Change.target \in files,
           \A f \in Files \ files : disk'[f] = disk[f]
    PROVE  IInv'
<1>1. /\ Change = plan[1] /\ 1 \in DOMAIN plan /\ Tail(plan) \in Seq(Changes)
      /\ \A i \in DOMAIN Tail(plan) : i + 1 \in DOMAIN plan /\ Tail(plan)[i] = plan[i + 1]
  BY PlanStep DEF IInv, TypeOK, Change
<1>2. TypeOK'
  BY <1>1 DEF IInv, TypeOK, Carried, count
<1>3. \A f \in files : Covered(f)
  BY <1>1 DEF IInv, EditCovered
<1>4. StashAgrees'
  BY <1>3 DEF IInv, StashAgrees, Covered, Carried
<1>5. EditCovered'
  BY <1>1, <1>3 DEF IInv, EditCovered, Covered, Carried
<1>6. EditInProgress'
  BY DEF IInv, EditInProgress, Carried, TypeOK
<1>7. FailureIsContained'
  BY DEF IInv, EditInProgress, FailureIsContained, Carried
<1> QED
  BY <1>2, <1>4, <1>5, <1>6, <1>7 DEF IInv

LEMMA WriteFileHolds == IInv /\ WriteFile => IInv'
<1> SUFFICES ASSUME IInv, WriteFile PROVE IInv'
  OBVIOUS
<1>1. Change \in Changes
  BY PlanStep DEF IInv, TypeOK, WriteFile, Change
<1>2. disk' \in Worktrees /\ \A f \in Files \ {Change.path} : disk'[f] = disk[f]
  BY <1>1, ChangeType DEF IInv, TypeOK, Worktrees, WriteFile
<1> QED
  BY <1>1, <1>2, ChangeType, CarriedHolds DEF WriteFile

LEMMA RemoveFileHolds == IInv /\ RemoveFile => IInv'
<1> SUFFICES ASSUME IInv, RemoveFile PROVE IInv'
  OBVIOUS
<1>1. Change \in Changes
  BY PlanStep DEF IInv, TypeOK, RemoveFile, Change
<1>2. disk' \in Worktrees /\ \A f \in Files \ {Change.path} : disk'[f] = disk[f]
  BY <1>1, ChangeType DEF IInv, TypeOK, Worktrees, RemoveFile, Contents
<1> QED
  BY <1>1, <1>2, ChangeType, CarriedHolds DEF RemoveFile

LEMMA MoveRemovesHolds == IInv /\ MoveRemoves => IInv'
<1> SUFFICES ASSUME IInv, MoveRemoves PROVE IInv'
  OBVIOUS
<1>1. plan # <<>>
  BY DEF IInv, EditInProgress, MoveRemoves
<1>2. Change \in Changes
  BY <1>1, PlanStep DEF IInv, TypeOK, Change
<1>3. disk' \in Worktrees
      /\ \A f \in Files \ {Change.path, Change.target} : disk'[f] = disk[f]
  BY <1>2, ChangeType DEF IInv, TypeOK, Worktrees, MoveRemoves, Contents
<1> QED
  BY <1>1, <1>2, <1>3, ChangeType, CarriedHolds DEF MoveRemoves

\* Between its halves a move has written its target, which is covered.
LEMMA MoveWritesHolds == IInv /\ MoveWrites => IInv'
<1> SUFFICES ASSUME IInv, MoveWrites PROVE IInv'
  OBVIOUS
<1>1. /\ Change \in Changes /\ Change = plan[1] /\ 1 \in DOMAIN plan
  BY PlanStep DEF IInv, TypeOK, MoveWrites, Change
<1>2. /\ disk' \in Worktrees /\ Change.target \in Files
      /\ \A f \in Files \ {Change.target} : disk'[f] = disk[f]
  BY <1>1, ChangeType DEF IInv, TypeOK, Worktrees, MoveWrites
<1>3. Covered(Change.target)
  BY <1>1 DEF IInv, EditCovered, MoveWrites
<1>4. TypeOK'
  BY <1>2 DEF IInv, TypeOK, MoveWrites, edit, count
<1>5. StashAgrees'
  BY <1>2, <1>3 DEF IInv, StashAgrees, Covered, MoveWrites
<1>6. EditCovered'
  BY DEF IInv, EditCovered, Covered, MoveWrites, edit
<1>7. EditInProgress'
  <2> Change' = Change
    BY DEF Change, MoveWrites, edit
  <2> QED
    BY <1>2 DEF IInv, EditInProgress, MoveWrites, edit
<1>8. FailureIsContained'
  BY DEF IInv, EditInProgress, FailureIsContained, MoveWrites
<1> QED
  BY <1>4, <1>5, <1>6, <1>7, <1>8 DEF IInv

\* A change failed, having written file g if any: what was applied is undone.
LEMMA FailHolds ==
    ASSUME IInv, pc # "idle", plan # <<>>, NEW d \in Worktrees, NEW g \in Files \cup {None},
           Fail(d, g), failures' \in Nat,
           g # None => g = Change.target,
           \A f \in Files \ {g} : d[f] = disk[f],
           pc = "moving" => g = Change.target
    PROVE  IInv'
<1>1. Change = plan[1] /\ 1 \in DOMAIN plan
  BY PlanStep DEF IInv, TypeOK, Change
<1>2. \A f \in Files : f \in applied \/ f = g => Covered(f)
  BY <1>1, FilesAssumption DEF IInv, EditCovered
<1>3. /\ disk' \in Worktrees
      /\ \A f \in Files : f \notin applied => disk'[f] = d[f]
      /\ \A f \in applied : disk'[f] = IF tokens[f] = None THEN Absent ELSE tokens[f]
  BY DEF IInv, TypeOK, Fail, RollbackApplied, Worktrees, Stashes, Contents
<1>4. TypeOK'
  BY <1>3, EmptySeq DEF IInv, TypeOK, Fail, EditOver
<1>5. \A f \in Files : ~Covered(f) => disk'[f] = disk[f]
  BY <1>2, <1>3
<1>6. StashAgrees'
  BY <1>5 DEF IInv, StashAgrees, Covered, Fail
<1>7. EditCovered' /\ EditInProgress'
  BY DEF EditCovered, EditInProgress, Fail
<1>8. FailureIsContained'
  <2>1. \A f \in Files \ applied : f # g => disk'[f] = before[f]
    BY <1>3 DEF IInv, EditInProgress
  <2>2. \A f \in applied : tokens[f] # None => disk'[f] = before[f]
    BY <1>3 DEF IInv, EditInProgress, TypeOK
  <2>3. \A f \in applied : disk'[f] # before[f] => before[f] # Absent /\ tokens[f] = None
    BY <1>3, <2>2
  <2> QED
    BY <2>1, <2>3 DEF FailureIsContained, Fail, EditOver
<1> QED
  BY <1>4, <1>6, <1>7, <1>8 DEF IInv

LEMMA RefuseAddHolds == IInv /\ RefuseAdd => IInv'
  BY FailHolds DEF RefuseAdd, IInv, TypeOK

LEMMA WriteFailsHolds == IInv /\ WriteFails => IInv'
<1> SUFFICES ASSUME IInv, WriteFails, NEW d \in Interrupted(disk, Change.target),
                    Fail(d, Change.target)
             PROVE  IInv'
  BY DEF WriteFails
<1>1. Change \in Changes
  BY PlanStep DEF IInv, TypeOK, WriteFails, Change
<1>2. /\ Change.target \in Files /\ d \in Worktrees
      /\ \A f \in Files \ {Change.target} : d[f] = disk[f]
  BY <1>1, ChangeType DEF IInv, TypeOK, Worktrees, Interrupted, Contents
<1>3. failures' \in Nat /\ pc = "applying" /\ plan # <<>>
  BY DEF IInv, TypeOK, WriteFails
<1> QED
  BY <1>2, <1>3, FailHolds

LEMMA RemoveFailsHolds == IInv /\ RemoveFails => IInv'
<1> SUFFICES ASSUME IInv, RemoveFails PROVE IInv'
  OBVIOUS
<1>1. failures' \in Nat /\ disk \in Worktrees
  BY DEF IInv, TypeOK, RemoveFails
<1>2. CASE pc = "applying" /\ plan # <<>> /\ Fail(disk, None)
  BY <1>1, <1>2, FailHolds
<1>3. CASE pc = "moving" /\ Fail(disk, Change.target)
  <2>1. plan # <<>>
    BY <1>3 DEF IInv, EditInProgress
  <2>2. Change \in Changes
    BY <2>1, PlanStep DEF IInv, TypeOK, Change
  <2> QED
    BY <1>1, <1>3, <2>1, <2>2, ChangeType, FailHolds
<1> QED
  BY <1>2, <1>3 DEF RemoveFails

\* The stash a direct edit takes too late is of files it is to blame for.
LEMMA FinishHolds == IInv /\ Finish => IInv'
<1> SUFFICES ASSUME IInv, Finish PROVE IInv'
  OBVIOUS
<1>1. /\ stash' \in Stashes
      /\ \A f \in Files \ direct : stash'[f] = stash[f]
  BY AsTextType
  DEF IInv, TypeOK, Finish, Stashed, Stashes, Worktrees, EditCovered, Covered
<1>2. TypeOK'
  BY <1>1, EmptySeq DEF IInv, TypeOK, Finish, EditOver, count
<1>3. StashAgrees'
  BY <1>1 DEF IInv, StashAgrees, Finish
<1>4. EditCovered' /\ EditInProgress' /\ FailureIsContained'
  BY DEF EditCovered, EditInProgress, FailureIsContained, Finish
<1> QED
  BY <1>2, <1>3, <1>4 DEF IInv

\* Validation and restart begin with a new reference.
LEMMA ValidationPassesHolds == IInv /\ ValidationPasses => IInv'
<1> SUFFICES ASSUME IInv, ValidationPasses PROVE IInv'
  OBVIOUS
<1>1. TypeOK' /\ StashAgrees' /\ EditCovered' /\ EditInProgress'
  BY DEF IInv, TypeOK, StashAgrees, EditCovered, EditInProgress, ValidationPasses, Rebased,
         NoStash, Stashes, Worktrees, edit, count
<1>2. FailureIsContained'
  BY DEF IInv, FailureIsContained, ValidationPasses, edit
<1> QED
  BY <1>1, <1>2 DEF IInv

LEMMA RollBackHolds == IInv /\ RollBack => IInv'
<1> SUFFICES ASSUME IInv, RollBack PROVE IInv'
  OBVIOUS
<1>1. disk' \in Worktrees
  BY DEF IInv, TypeOK, RollBack, RolledBack, Worktrees, Stashes
<1>2. TypeOK'
  BY <1>1 DEF IInv, TypeOK, RollBack, Rebased, NoStash, Stashes, edit, count
<1>3. StashAgrees' /\ EditCovered' /\ EditInProgress' /\ FailureIsContained'
  BY DEF StashAgrees, EditCovered, EditInProgress, FailureIsContained, RollBack, Rebased,
         NoStash
<1> QED
  BY <1>2, <1>3 DEF IInv

LEMMA RestartHolds == IInv /\ Restart => IInv'
<1> SUFFICES ASSUME IInv, Restart PROVE IInv'
  OBVIOUS
<1>1. TypeOK'
  BY EmptySeq DEF IInv, TypeOK, Restart, Rebased, NoStash, Stashes, EditOver
<1>2. StashAgrees' /\ EditCovered' /\ EditInProgress' /\ FailureIsContained'
  BY DEF StashAgrees, EditCovered, EditInProgress, FailureIsContained, Restart, Rebased,
         NoStash
<1> QED
  BY <1>1, <1>2 DEF IInv

LEMMA StutterHolds == IInv /\ UNCHANGED vars => IInv'
  BY DEF IInv, TypeOK, StashAgrees, EditCovered, Covered, EditInProgress, Change,
         FailureIsContained, vars

\* The invariant holds in every reachable state.
THEOREM Invariant == Spec => []IInv
<1>1. IInv /\ [Next]_vars => IInv'
  <2> SUFFICES ASSUME IInv, [Next]_vars PROVE IInv'
    OBVIOUS
  <2>1. CASE Vm
    BY <2>1, WriteFileHolds, RefuseAddHolds, RemoveFileHolds, MoveWritesHolds,
       MoveRemovesHolds, WriteFailsHolds, RemoveFailsHolds, FinishHolds DEF Vm
  <2> QED
    BY <2>1, ApplyPatchHolds, ApplyPatchInVainHolds, DirectEditHolds,
       ValidationPassesHolds, RollBackHolds, RestartHolds, StutterHolds DEF Next
<1> QED
  BY <1>1, InitHolds, PTL DEF Spec

-----------------------------------------------------------------------------
(* The properties *)

\* Every variable keeps its type.
THEOREM TypeCorrect == Spec => []TypeOK
<1>1. IInv => TypeOK
  BY DEF IInv
<1> QED
  BY <1>1, Invariant, PTL

\* The stash has the first text of every file that patches have changed, at every moment.
THEOREM StashedFirst == Spec => []StashedBeforeChange
<1>1. IInv => StashedBeforeChange
  BY DEF IInv, StashAgrees, StashedBeforeChange
<1> QED
  BY <1>1, Invariant, PTL

\* A failed patch is undone but for its failing change and files its moves overwrote.
THEOREM Contained == Spec => []FailureIsContained
<1>1. IInv => FailureIsContained
  BY DEF IInv
<1> QED
  BY <1>1, Invariant, PTL

\* A rollback restores what patches were the first to edit.
THEOREM RolledBackPatches == Spec => PatchesRollBack
<1>1. IInv /\ RollBack => \A f \in Files \ direct : base[f] \notin Binary => disk'[f] = base[f]
  <2> SUFFICES ASSUME IInv, RollBack, NEW f \in Files \ direct, base[f] \notin Binary
               PROVE  disk'[f] = base[f]
    OBVIOUS
  <2>1. disk'[f] = IF stash[f] = None THEN disk[f] ELSE stash[f]
    BY DEF RollBack, RolledBack
  <2> QED
    BY <2>1 DEF IInv, StashAgrees, AsText
<1> QED
  BY <1>1, Invariant, PTL DEF PatchesRollBack
=============================================================================
