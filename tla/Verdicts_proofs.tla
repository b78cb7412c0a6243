--------------------------- MODULE Verdicts_proofs ---------------------------
(***************************************************************************)
(* Proofs about what becomes of the edits of an agent: Validation, for any *)
(* plans, any number of edits and writes that fail, and kills at any step; *)
(* SharedStash, for any runs, files and patches; CaseRepair, for any       *)
(* files, ledgers and failures; and DiffApplier, for any workspaces and    *)
(* diffs, by induction over the lines of a hunk and the hunks of a file.   *)
(***************************************************************************)
EXTENDS Validation, SharedStash, CaseRepair, DiffApplier, SequenceTheorems, WellFoundedInduction, TLAPS

(* A plan names a command once: what one has passed on is kept by its name. *)
PlansAreSets ==
    \A p \in ValidationPlans : \A i, j \in DOMAIN p : p[i] = p[j] => i = j

(* What the stash brings back is what there was when it was last empty. *)
StashIsClean == IF stash = NoContent THEN worktree = clean ELSE stash = clean

(* The commands before the stage have passed on the worktree; those after it have not been run. *)
CommandsSoFar ==
    phase = "commands" =>
        /\ plan \in ValidationPlans /\ stage \in 1..(Len(plan) + 1) /\ receipt = <<>>
        /\ \A i \in DOMAIN plan : i < stage => Passed(plan[i])
        /\ PlansAreSets => \A i \in DOMAIN plan : i >= stage => ran[plan[i]] = NoContent

(* The receipt has a node for each stage before this one, and its own runs are of the worktree. *)
ReceiptSoFar ==
    phase = "receipt" =>
        /\ plan \in ValidationPlans /\ stage \in 1..(Len(plan) + 1)
        /\ \A i \in DOMAIN plan : Passed(plan[i])
        /\ Len(receipt) = stage - 1
        /\ \A i \in DOMAIN receipt :
              ~receipt[i].cached => log[receipt[i].command] = receipt[i].content
                                    /\ receipt[i].content = worktree

VerdictsAreLast == verdict # "none" => phase = "idle"

Explained == PlansAreSets => FailureIsExplained

VInv == /\ ValidationTypeOK /\ StashIsClean /\ CommandsSoFar /\ ReceiptSoFar /\ VerdictsAreLast
        /\ PassIsCurrent /\ Explained

(* What the assumption gives. *)
LEMMA Sorts ==
    /\ Contents \subseteq Int /\ NoContent \notin Contents /\ Unreadable \notin Contents
    /\ Unreadable # NoContent /\ MaxContents \in Nat /\ MaxWriteFaults \in Nat
<1>1. MaxContents \in Nat
  BY ValidationAssumption
<1>2. Contents \subseteq Int
  BY <1>1 DEF Contents
<1> QED
  BY <1>1, <1>2, ValidationAssumption

(* A plan is a sequence of commands, each with its stage. *)
LEMMA Plans ==
    ASSUME NEW p \in ValidationPlans
    PROVE  /\ Len(p) \in Nat \ {0} /\ DOMAIN p = 1..Len(p)
           /\ \A i \in DOMAIN p : p[i] \in Commands /\ <<p, i>> \in Keys
<1>1. p \in Seq(Commands) /\ p # <<>>
  BY ValidationAssumption
<1>2. \A i \in DOMAIN p : <<p, i>> \in Keys
  BY DEF Keys
<1> QED
  BY <1>1, <1>2

LEMMA VInvInit == ValidationInit => VInv
<1> SUFFICES ASSUME ValidationInit PROVE VInv
  OBVIOUS
<1>1. ValidationTypeOK
  BY Sorts, ValidationAssumption DEF ValidationInit, ValidationTypeOK, Contents, NoRuns
<1> QED
  BY <1>1 DEF ValidationInit, VInv, StashIsClean, CommandsSoFar, ReceiptSoFar, VerdictsAreLast,
              PassIsCurrent, Explained, FailureIsExplained

-----------------------------------------------------------------------------
(* Steps without a verdict *)

LEMMA EditStep == ASSUME VInv, Edit PROVE VInv'
<1> USE DEF VInv, Edit, stepVars, diskVars
<1>1. newest + 1 \in Contents
  BY Sorts DEF ValidationTypeOK, Contents
<1>2. ValidationTypeOK'
  BY <1>1 DEF ValidationTypeOK
<1>3. StashIsClean'
  <2>1. worktree # NoContent
    BY Sorts DEF ValidationTypeOK
  <2> QED
    BY <2>1 DEF StashIsClean
<1> QED
  BY <1>2, <1>3 DEF CommandsSoFar, ReceiptSoFar, VerdictsAreLast, PassIsCurrent, Explained, FailureIsExplained

LEMMA BeginStep == ASSUME VInv, NEW p \in ValidationPlans, BeginValidation(p) PROVE VInv'
<1> USE DEF VInv, BeginValidation, treeVars, diskVars
<1>1. ValidationTypeOK'
  BY DEF ValidationTypeOK, NoRuns
<1>2. CommandsSoFar'
  <2>1. Len(p) \in Nat \ {0} /\ DOMAIN p = 1..Len(p) /\ \A i \in DOMAIN p : p[i] \in Commands
    BY Plans
  <2>2. 1 \in 1..(Len(p) + 1) /\ \A i \in DOMAIN p : ~(i < 1)
    BY <2>1
  <2>3. \A i \in DOMAIN p : ran'[p[i]] = NoContent
    BY <2>1 DEF NoRuns
  <2> QED
    BY <2>2, <2>3 DEF CommandsSoFar
<1> QED
  BY <1>1, <1>2 DEF StashIsClean, ReceiptSoFar, VerdictsAreLast, PassIsCurrent, Explained, FailureIsExplained

LEMMA PassStep == ASSUME VInv, NEW c \in Commands, CommandPasses(c) PROVE VInv'
<1> USE DEF VInv, CommandPasses, Running, treeVars
<1>1. /\ plan \in ValidationPlans /\ stage \in DOMAIN plan /\ stage \in Nat /\ plan[stage] = c
      /\ Len(plan) \in Nat /\ DOMAIN plan = 1..Len(plan)
  BY Plans DEF CommandsSoFar, ValidationTypeOK
<1>2. ValidationTypeOK'
  BY <1>1 DEF ValidationTypeOK
<1>3. \A i \in DOMAIN plan : plan[i] \in Commands
  BY <1>1, Plans
<1>4. \A i \in DOMAIN plan : i < stage' => Passed(plan[i])'
  <2> SUFFICES ASSUME NEW i \in DOMAIN plan, i < stage + 1 PROVE ran'[plan[i]] = worktree
    BY DEF Passed
  <2>1. i = stage \/ i < stage
    BY <1>1
  <2> QED
    BY <1>1, <1>3, <2>1 DEF CommandsSoFar, Passed, ValidationTypeOK
<1>5. PlansAreSets => \A i \in DOMAIN plan : i >= stage' => ran'[plan[i]] = NoContent
  <2> SUFFICES ASSUME PlansAreSets, NEW i \in DOMAIN plan, i >= stage + 1
               PROVE  ran'[plan[i]] = NoContent
    OBVIOUS
  <2>1. plan[i] # c /\ i >= stage
    BY <1>1 DEF PlansAreSets
  <2> QED
    BY <1>3, <2>1 DEF CommandsSoFar, ValidationTypeOK
<1>6. CommandsSoFar'
  BY <1>1, <1>4, <1>5 DEF CommandsSoFar
<1> QED
  BY <1>2, <1>6 DEF StashIsClean, ReceiptSoFar, VerdictsAreLast, PassIsCurrent, Explained, FailureIsExplained

LEMMA AllPassedStep == ASSUME VInv, AllPassed PROVE VInv'
<1> USE DEF VInv, AllPassed, diskVars
<1>1. /\ plan \in ValidationPlans /\ Len(plan) \in Nat \ {0} /\ DOMAIN plan = 1..Len(plan)
      /\ stage \in Nat /\ stage = Len(plan) + 1
  BY Plans DEF CommandsSoFar, ValidationTypeOK
<1>2. ValidationTypeOK'
  BY DEF ValidationTypeOK
<1>3. \A i \in DOMAIN plan : Passed(plan[i])'
  BY <1>1 DEF CommandsSoFar, Passed
<1>4. ReceiptSoFar'
  BY <1>1, <1>3 DEF CommandsSoFar, ReceiptSoFar
<1> QED
  BY <1>2, <1>4 DEF StashIsClean, CommandsSoFar, VerdictsAreLast, PassIsCurrent, Explained, FailureIsExplained

\* The stages of a receipt, whether their runs come from the cache or are those of this validation.
LEMMA StageStep == ASSUME VInv, StageCached \/ StageStored PROVE VInv'
<1> USE DEF VInv, AtStage, Key, Node, treeVars, diskVars
<1>1. /\ plan \in ValidationPlans /\ Len(plan) \in Nat \ {0} /\ DOMAIN plan = 1..Len(plan)
      /\ stage \in DOMAIN plan /\ stage \in Nat /\ plan[stage] \in Commands /\ <<plan, stage>> \in Keys
      /\ phase = "receipt" /\ verdict = "none"
  BY Plans DEF StageCached, StageStored, ReceiptSoFar, ValidationTypeOK, VerdictsAreLast
<1>2. ran[plan[stage]] = worktree /\ worktree \in Contents
  BY <1>1 DEF ReceiptSoFar, Passed, ValidationTypeOK
<1>3. PICK node \in [command : Commands, content : Contents, cached : BOOLEAN] :
         /\ receipt' = Append(receipt, node) /\ node.command = plan[stage]
         /\ ~node.cached => node.content = worktree /\ log' = [log EXCEPT ![plan[stage]] = worktree]
         /\ node.cached => log' = log
  <2>1. CASE StageCached
    BY <1>1, <2>1 DEF StageCached
  <2>2. CASE StageStored
    <3> DEFINE node == [command |-> plan[stage], content |-> worktree, cached |-> FALSE]
    <3>1. node \in [command : Commands, content : Contents, cached : BOOLEAN]
      BY <1>1, <1>2
    <3>2. receipt' = Append(receipt, node) /\ log' = [log EXCEPT ![plan[stage]] = worktree]
      BY <1>2, <2>2 DEF StageStored
    <3>3. node.command = plan[stage] /\ node.content = worktree /\ ~node.cached
      OBVIOUS
    <3> HIDE DEF node
    <3> QED
      BY <3>1, <3>2, <3>3
  <2> QED
    BY <2>1, <2>2
<1>4. /\ UNCHANGED <<worktree, newest, stash, clean, phase, plan, verdict, writeFaults, ran>>
      /\ stage' = stage + 1
      /\ cache' = cache \/ cache' = [cache EXCEPT ![<<plan, stage>>] = worktree]
  BY <1>2 DEF StageCached, StageStored
<1>5. /\ receipt \in Seq([command : Commands, content : Contents, cached : BOOLEAN])
      /\ Len(receipt) = stage - 1
  BY <1>1 DEF ReceiptSoFar, ValidationTypeOK
<1>6. /\ Len(receipt') = stage /\ receipt'[stage] = node
      /\ \A i \in DOMAIN receipt : receipt'[i] = receipt[i]
      /\ \A i \in DOMAIN receipt' : i \in DOMAIN receipt \/ i = stage
      /\ receipt' \in Seq([command : Commands, content : Contents, cached : BOOLEAN])
  BY <1>1, <1>3, <1>5
<1>7. ValidationTypeOK'
  <2>1. log' \in [Commands -> Contents \cup {NoContent}]
    BY <1>1, <1>2, <1>3 DEF ValidationTypeOK
  <2>2. cache' \in [Keys -> Contents \cup {NoContent, Unreadable}]
    BY <1>1, <1>2, <1>4 DEF ValidationTypeOK
  <2>3. stage' \in Nat
    BY <1>1, <1>4
  <2> QED
    BY <1>4, <1>6, <2>1, <2>2, <2>3 DEF ValidationTypeOK
<1>8. \A i \in DOMAIN receipt' :
         ~receipt'[i].cached => log'[receipt'[i].command] = receipt'[i].content
                                /\ receipt'[i].content = worktree
  <2> SUFFICES ASSUME NEW i \in DOMAIN receipt', ~receipt'[i].cached
               PROVE  log'[receipt'[i].command] = worktree /\ receipt'[i].content = worktree
    OBVIOUS
  <2>1. CASE i = stage
    BY <1>1, <1>3, <1>6, <2>1 DEF ValidationTypeOK
  <2>2. CASE i \in DOMAIN receipt
    <3>1. /\ receipt'[i] = receipt[i] /\ receipt[i].command \in Commands
          /\ receipt[i].cached = receipt'[i].cached
      <4>1. receipt'[i] = receipt[i]
        BY <1>6, <2>2
      <4>2. receipt[i] \in [command : Commands, content : Contents, cached : BOOLEAN]
        <5> DEFINE S == [command : Commands, content : Contents, cached : BOOLEAN]
        <5>1. receipt \in Seq(S) /\ i \in DOMAIN receipt
          BY <1>5, <2>2
        <5> HIDE DEF S
        <5>2. receipt[i] \in S
          BY <5>1
        <5> QED
          BY <5>2 DEF S
      <4> QED
        BY <4>1, <4>2
    <3>2. log[receipt[i].command] = worktree /\ receipt[i].content = worktree
      BY <1>1, <2>2, <3>1 DEF ReceiptSoFar
    <3> QED
      BY <1>1, <1>3, <3>1, <3>2 DEF ValidationTypeOK
  <2> QED
    BY <1>6, <2>1, <2>2
<1>9. ReceiptSoFar'
  BY <1>1, <1>4, <1>6, <1>8 DEF ReceiptSoFar, Passed
<1> QED
  BY <1>1, <1>4, <1>7, <1>9
     DEF StashIsClean, CommandsSoFar, VerdictsAreLast, PassIsCurrent, Explained, FailureIsExplained

-----------------------------------------------------------------------------
(* Steps that end it *)

LEMMA FailStep == ASSUME VInv, NEW c \in Commands, CommandFails(c) PROVE VInv'
<1> USE DEF VInv, CommandFails, Running, EndsAs
<1>1. /\ plan \in ValidationPlans /\ stage \in DOMAIN plan /\ plan[stage] = c
  BY Plans DEF CommandsSoFar, ValidationTypeOK
<1>2. /\ worktree' \in Contents /\ stash' \in Contents \cup {NoContent}
      /\ newest' = newest /\ clean' = clean /\ StashIsClean'
      /\ RollsBack => worktree' = clean /\ stash' = NoContent
  BY Sorts DEF RolledBack, StashIsClean, ValidationTypeOK, treeVars
<1>3. log' \in [Commands -> Contents \cup {NoContent}]
  BY DEF ValidationTypeOK
<1>4. ValidationTypeOK'
  BY <1>2, <1>3 DEF ValidationTypeOK
<1>5. PlansAreSets => ran[c] = NoContent
  BY <1>1 DEF CommandsSoFar, ValidationTypeOK
<1>6. Explained'
  <2>1. PlansAreSets => ran'[plan'[stage]] # worktree'
    BY <1>1, <1>2, <1>5, Sorts
  <2> QED
    BY <1>1, <1>2, <2>1 DEF Explained, FailureIsExplained, Passed
<1> QED
  BY <1>2, <1>4, <1>6 DEF CommandsSoFar, ReceiptSoFar, VerdictsAreLast, PassIsCurrent

LEMMA UnreadableStep == ASSUME VInv, StageUnreadable PROVE VInv'
<1> USE DEF VInv, StageUnreadable, AtStage, Key, EndsAs, treeVars, diskVars
<1>1. /\ plan \in ValidationPlans /\ stage \in DOMAIN plan /\ <<plan, stage>> \in Keys
  BY Plans DEF ReceiptSoFar, ValidationTypeOK
<1>2. ValidationTypeOK'
  BY DEF ValidationTypeOK
<1>3. Explained'
  BY <1>1 DEF ReceiptSoFar, Explained, FailureIsExplained, Passed
<1> QED
  BY <1>2, <1>3 DEF StashIsClean, CommandsSoFar, ReceiptSoFar, VerdictsAreLast, PassIsCurrent

\* A cache file that may be cut short keeps the types of the cache.
LEMMA CutShortType ==
    ASSUME VInv, cache' \in CutShort
    PROVE  cache' \in [Keys -> Contents \cup {NoContent, Unreadable}]
  BY DEF VInv, ValidationTypeOK, CutShort, Key

LEMMA ReceiptFailsStep == ASSUME VInv, ReceiptFails PROVE VInv'
<1> USE DEF VInv, ReceiptFails, EndsAs, treeVars
<1>1. writeFaults + 1 \in 0..MaxWriteFaults /\ writeFaults + 1 > 0
  BY Sorts DEF ValidationTypeOK
<1>2. ValidationTypeOK'
  BY <1>1, CutShortType DEF ValidationTypeOK
<1>3. Explained'
  BY <1>1 DEF ReceiptSoFar, Explained, FailureIsExplained, Passed
<1> QED
  BY <1>2, <1>3 DEF StashIsClean, CommandsSoFar, ReceiptSoFar, VerdictsAreLast, PassIsCurrent

LEMMA WrittenStep == ASSUME VInv, ReceiptWritten PROVE VInv'
<1> USE DEF VInv, ReceiptWritten, EndsAs, treeVars, diskVars
<1>1. ValidationTypeOK'
  BY DEF ValidationTypeOK
<1>2. /\ Len(plan) \in Nat /\ stage = Len(plan) + 1
  BY Plans DEF ReceiptSoFar, ValidationTypeOK
<1>3. PassIsCurrent'
  BY <1>2 DEF ReceiptSoFar, PassIsCurrent, Passed
<1> QED
  BY <1>1, <1>3 DEF StashIsClean, CommandsSoFar, ReceiptSoFar, VerdictsAreLast, Explained, FailureIsExplained

LEMMA KilledStep == ASSUME VInv, Killed PROVE VInv'
<1> USE DEF VInv, Killed
<1>1. ValidationTypeOK'
  BY CutShortType DEF ValidationTypeOK
<1> QED
  BY <1>1 DEF StashIsClean, CommandsSoFar, ReceiptSoFar, VerdictsAreLast, PassIsCurrent,
              Explained, FailureIsExplained

LEMMA VInvNext == VInv /\ [ValidationNext]_validationVars => VInv'
<1>1. ASSUME VInv, UNCHANGED validationVars PROVE VInv'
  BY <1>1 DEF validationVars, treeVars, stepVars, diskVars, VInv, ValidationTypeOK, StashIsClean,
              CommandsSoFar, ReceiptSoFar, VerdictsAreLast, PassIsCurrent, Explained,
              FailureIsExplained, Passed
<1> QED
  BY <1>1, EditStep, BeginStep, PassStep, AllPassedStep, StageStep, FailStep, UnreadableStep,
     ReceiptFailsStep, WrittenStep, KilledStep DEF ValidationNext

LEMMA VInvariance == ValidationSpec => []VInv
  BY VInvInit, VInvNext, PTL DEF ValidationSpec

-----------------------------------------------------------------------------
\* The types of a validation hold for any plans, edits and faults.
THEOREM ValidationTypes == ValidationSpec => []ValidationTypeOK
<1>1. VInv => ValidationTypeOK
  BY DEF VInv
<1> QED
  BY <1>1, VInvariance, PTL

\* A validation that passed says something of the worktree as it is, although stages of its
\* receipt may come from the cache.
THEOREM PassCurrent == ValidationSpec => []PassIsCurrent
<1>1. VInv => PassIsCurrent
  BY DEF VInv
<1> QED
  BY <1>1, VInvariance, PTL

\* After a validation that failed the worktree is what it was when the stash was last empty, or
\* every command has passed and a write has failed, provided that no plan names a command twice.
THEOREM FailureExplained ==
    ASSUME PlansAreSets
    PROVE  ValidationSpec => []FailureIsExplained
<1>1. VInv => FailureIsExplained
  BY DEF VInv, Explained
<1> QED
  BY <1>1, VInvariance, PTL

-----------------------------------------------------------------------------
(* SharedStash *)

\* A run that is in the middle of a patch.
Busy(r) == patching[r] # "idle"
\* Who patches has begun an edit, of a file.
PatchesBegun ==
    \A w \in Writers \cup {User} : made[w] <= MaxPatches[w]
PatchIsOfFile ==
    \A r \in Writers : IF Busy(r) THEN editing[r] \in SharedFiles /\ made[r] >= 1
                       ELSE editing[r] = NoEdit /\ r \notin entered

\* Only what has been written is on disk, in the stash, or in a text that is going to be written.
Written == {e \in Edits : fate[e] # "none"}
EditsWritten ==
    /\ \A f \in SharedFiles : held[f] \subseteq Written
    /\ \A f \in DOMAIN shadow : shadow[f] \subseteq Written
    /\ \A r \in Writers : preimage[r] \subseteq Written /\ (Busy(r) => text[r] \subseteq Written \cup {EditOf(r)})
    /\ \A r \in Writers : Busy(r) => EditOf(r) \notin Written
    /\ \A w \in Writers \cup {User} : \A i \in 1..MaxPatches[w] : i > made[w] => <<w, i>> \notin Written

\* The text of a run adds its edit to what it compares the file with.
Early(r) == form[r] = "diff" /\ patching[r] \in {"read", "stashing", "stashed"}
TextFollows(r) ==
    Busy(r) =>
        /\ patching[r] \in {"stashed", "hashed"} => form[r] = "diff"
        /\ Early(r) /\ r \notin entered => text[r] = held[editing[r]] \cup {EditOf(r)}
        /\ ~Early(r) /\ (r \notin entered \/ form[r] = "blocks") => text[r] = hash[r] \cup {EditOf(r)}
        /\ patching[r] = "checked" /\ r \notin entered => held[editing[r]] = hash[r]

\* From the stashing on the stash has the file, while nobody's validation ends.
StashStands(r) ==
    patching[r] \in {"stashed", "hashed", "previewed", "checked"} /\ r \notin exposed
        => editing[r] \in DOMAIN shadow

\* What a stash, or a content that is going to be stashed, may hold and has to.
JudgedIn(f, content) ==
    /\ \A e \in content \ excused : fate[e] \in {"loose", "kept"}
    /\ \A e \in held[f] \ excused : fate[e] = "kept" => e \in content
StashIsJudged == \A f \in DOMAIN shadow \ outdated : JudgedIn(f, shadow[f])
PreimageIsJudged(r) ==
    patching[r] = "stashing" /\ r \notin delayed /\ editing[r] \notin DOMAIN shadow
        => JudgedIn(editing[r], preimage[r])

PatchInv(r) == TextFollows(r) /\ StashStands(r) /\ PreimageIsJudged(r)

\* The inductive invariant of the runs that share a worktree and its stash.
SharedInv == /\ SharedTypeOK /\ PatchesBegun /\ PatchIsOfFile /\ EditsWritten
             /\ \A r \in Writers : PatchInv(r)
             /\ StashIsJudged /\ UnjudgedIsStashed /\ VerdictsLast

\* Edits are told apart by who makes them and in which order.
LEMMA EditFacts ==
    /\ \A w \in Writers \cup {User} : \A i \in 1..MaxPatches[w] : <<w, i>> \in Edits
    /\ \A e \in Edits : \E w \in Writers \cup {User} : \E i \in 1..MaxPatches[w] : e = <<w, i>>
    /\ \A w, v : \A i, k : <<w, i>> = <<v, k>> => w = v /\ i = k
<1>1. \A w \in Writers \cup {User} : \A i \in 1..MaxPatches[w] : <<w, i>> \in Edits
  BY DEF Edits
<1>2. \A e \in Edits : \E w \in Writers \cup {User} : \E i \in 1..MaxPatches[w] : e = <<w, i>>
  BY DEF Edits
<1>3. \A w, v : \A i, k : <<w, i>> = <<v, k>> => w = v /\ i = k
  OBVIOUS
<1> QED
  BY <1>1, <1>2, <1>3

\* The edit of a patch is one of those that are counted, and no other run's.
LEMMA OwnEdit ==
    ASSUME SharedTypeOK, PatchesBegun, PatchIsOfFile
    PROVE  /\ \A r \in Writers : Busy(r) => EditOf(r) \in Edits
           /\ \A r, s \in Writers : r # s => EditOf(r) # EditOf(s)
<1>1. \A r \in Writers : Busy(r) => made[r] \in 1..MaxPatches[r]
  BY SharedAssumption DEF SharedTypeOK, PatchesBegun, PatchIsOfFile
<1>2. \A r \in Writers : Busy(r) => EditOf(r) \in Edits
  BY <1>1, EditFacts DEF EditOf
<1>3. \A r, s \in Writers : r # s => EditOf(r) # EditOf(s)
  BY EditFacts DEF EditOf
<1> QED
  BY <1>2, <1>3

\* Before anything is edited.
LEMMA SharedInitInv == SharedInit => SharedInv
<1> SUFFICES ASSUME SharedInit PROVE SharedInv
  OBVIOUS
<1>1. SharedTypeOK
  <2>1. /\ held \in [SharedFiles -> SUBSET Edits] /\ DOMAIN shadow = {}
        /\ made \in [Writers \cup {User} -> Nat]
    BY DEF SharedInit
  <2>2. /\ patching \in
             [Writers -> {"idle", "read", "stashing", "stashed", "hashed", "previewed", "checked"}]
        /\ editing \in [Writers -> SharedFiles \cup {NoEdit}] /\ form \in [Writers -> {"diff", "blocks"}]
        /\ {text, hash, preimage} \subseteq [Writers -> SUBSET Edits]
    BY DEF SharedInit
  <2>3. ended \in 0..MaxEnds
    BY SharedAssumption DEF SharedInit
  <2>4. fate \in [Edits -> {"none", "open", "loose", "kept", "undone"}]
    BY DEF SharedInit
  <2> QED
    BY <2>1, <2>2, <2>3, <2>4 DEF SharedInit, SharedTypeOK
<1>2. PatchesBegun
  BY SharedAssumption DEF SharedInit, PatchesBegun
<1>3. PatchIsOfFile /\ \A r \in Writers : PatchInv(r)
  BY DEF SharedInit, PatchIsOfFile, Busy, PatchInv, TextFollows, StashStands, PreimageIsJudged
<1>4. EditsWritten
  BY EditFacts DEF SharedInit, EditsWritten, Written, Busy
<1>5. StashIsJudged /\ UnjudgedIsStashed /\ VerdictsLast
  BY DEF SharedInit, StashIsJudged, UnjudgedIsStashed, VerdictsLast
<1> QED
  BY <1>1, <1>2, <1>3, <1>4, <1>5 DEF SharedInv

\* What is on disk, in the stash and judged depends on the files, the stash and the verdicts alone.
LEMMA VerdictsKept ==
    ASSUME SharedInv, UNCHANGED <<held, shadow, outdated, fate, excused>>
    PROVE  UnjudgedIsStashed' /\ VerdictsLast' /\ StashIsJudged'
BY DEF SharedInv, UnjudgedIsStashed, VerdictsLast, StashIsJudged, JudgedIn, OnDisk

\* What a step of another one does not change of the patch of s.
SamePatch(s) ==
    /\ patching'[s] = patching[s] /\ editing'[s] = editing[s] /\ form'[s] = form[s]
    /\ text'[s] = text[s] /\ hash'[s] = hash[s] /\ preimage'[s] = preimage[s] /\ made'[s] = made[s]

\* A patch keeps its invariant while others step and no file changes.
LEMMA OthersKept ==
    ASSUME SharedInv, NEW s \in Writers, SamePatch(s), UNCHANGED <<held, fate, excused>>,
           s \in entered <=> s \in entered', s \in exposed' <=> s \in exposed,
           s \in delayed' <=> s \in delayed, DOMAIN shadow \subseteq DOMAIN shadow'
    PROVE  PatchInv(s)'
<1> USE DEF SharedInv, SamePatch, PatchInv
<1>1. EditOf(s)' = EditOf(s) /\ Early(s)' = Early(s) /\ Busy(s)' = Busy(s)
  BY DEF EditOf, Early, Busy
<1>2. TextFollows(s)'
  BY <1>1 DEF TextFollows
<1>3. StashStands(s)' /\ PreimageIsJudged(s)'
  BY DEF StashStands, PreimageIsJudged, JudgedIn
<1> QED
  BY <1>2, <1>3

\* One step of the patch of r, which writes no file.
LEMMA PatchStep ==
    ASSUME SharedInv, NEW r \in Writers, SharedTypeOK',
           UNCHANGED <<held, fate, excused, made>>,
           \A s \in Writers : s # r => /\ SamePatch(s) /\ (s \in entered <=> s \in entered')
                                       /\ (s \in exposed' <=> s \in exposed)
                                       /\ (s \in delayed' <=> s \in delayed),
           IF Busy(r)' THEN Busy(r) /\ editing'[r] = editing[r] /\ text'[r] = text[r]
                       ELSE editing'[r] = NoEdit /\ r \notin entered',
           preimage'[r] \subseteq Written,
           DOMAIN shadow \subseteq DOMAIN shadow', \A f \in DOMAIN shadow' : shadow'[f] \subseteq Written,
           PatchInv(r)', StashIsJudged', UnjudgedIsStashed'
    PROVE  SharedInv'
<1> USE DEF SharedInv
<1>1. \A s \in Writers : PatchInv(s)'
  BY OthersKept
<1>2. PatchesBegun'
  BY DEF PatchesBegun
<1>3. PatchIsOfFile'
  BY DEF PatchIsOfFile, Busy, SamePatch
<1>4. VerdictsLast'
  BY DEF VerdictsLast, OnDisk
<1>5. EditsWritten'
  <2>1. Written' = Written /\ \A s \in Writers : EditOf(s)' = EditOf(s)
    BY DEF Written, EditOf
  <2>2. \A s \in Writers : /\ Busy(s)' => Busy(s) /\ text'[s] = text[s]
                           /\ preimage'[s] \subseteq Written
    BY DEF EditsWritten, Busy, SamePatch
  <2> QED
    BY <2>1, <2>2 DEF EditsWritten
<1> QED
  BY <1>1, <1>2, <1>3, <1>4, <1>5

\* The steps of a patch, one after the other: the file is read for the stash,
LEMMA ReadForStashInv == ASSUME SharedInv, NEW r \in Writers, ReadForStash(r) PROVE SharedInv'
<1> USE DEF SharedInv
<1>1. /\ patching[r] = "read" /\ patching' = [patching EXCEPT ![r] = "stashing"]
      /\ preimage' = [preimage EXCEPT ![r] = held[editing[r]]]
      /\ UNCHANGED <<held, shadow, editing, form, text, hash, made, ended, entered, exposed, delayed,
                     outdated, fate, excused>>
  BY DEF ReadForStash, Moves, history
<1>2. editing[r] \in SharedFiles
  BY <1>1 DEF PatchIsOfFile, Busy
<1>3. /\ patching'[r] = "stashing" /\ preimage'[r] = held[editing[r]]
      /\ \A s \in Writers : s # r => patching'[s] = patching[s] /\ preimage'[s] = preimage[s]
  BY <1>1 DEF SharedTypeOK
<1>4. SharedTypeOK'
  <2>1. preimage' \in [Writers -> SUBSET Edits]
    BY <1>1, <1>2 DEF SharedTypeOK
  <2> QED
    BY <1>1, <2>1 DEF SharedTypeOK
<1>5. TextFollows(r)' /\ StashStands(r)'
  BY <1>1, <1>3 DEF PatchInv, TextFollows, StashStands, Early, Busy, EditOf
<1>6. PreimageIsJudged(r)'
  <2> SUFFICES ASSUME editing[r] \notin DOMAIN shadow, NEW e \in held[editing[r]] \ excused
               PROVE  fate[e] \in {"loose", "kept"}
    BY <1>1, <1>3 DEF PreimageIsJudged, JudgedIn
  <2>1. e \in Edits /\ fate[e] # "none" /\ fate[e] \in {"none", "open", "loose", "kept", "undone"}
    BY <1>2 DEF EditsWritten, Written, SharedTypeOK
  <2>2. fate[e] # "open"
    BY <1>2 DEF UnjudgedIsStashed
  <2>3. fate[e] # "undone"
    BY <1>2, <2>1 DEF VerdictsLast, OnDisk
  <2> QED
    BY <2>1, <2>2, <2>3
<1>7. StashIsJudged' /\ UnjudgedIsStashed'
  BY <1>1, VerdictsKept
<1>8. preimage'[r] \subseteq Written /\ \A f \in DOMAIN shadow' : shadow'[f] \subseteq Written
  BY <1>1, <1>2, <1>3 DEF EditsWritten
<1>9. Busy(r)' /\ Busy(r)
  BY <1>1, <1>3 DEF Busy
<1> QED
  BY <1>1, <1>3, <1>4, <1>5, <1>6, <1>7, <1>8, <1>9, PatchStep DEF SamePatch, PatchInv

\* what was read is stashed, unless the file is stashed already,
LEMMA StashInv == ASSUME SharedInv, NEW r \in Writers, Stash(r) PROVE SharedInv'
<1> USE DEF SharedInv
<1> DEFINE f == editing[r]
<1>1. /\ patching[r] = "stashing"
      /\ patching' = [patching EXCEPT ![r] = IF form[r] = "diff" THEN "stashed" ELSE "previewed"]
      /\ preimage' = [preimage EXCEPT ![r] = {}] /\ delayed' = delayed \ {r}
      /\ UNCHANGED <<held, editing, form, text, hash, made, ended, entered, exposed, fate, excused>>
  BY DEF Stash, Stashing, Moves
<1>2. f \in SharedFiles
  BY <1>1 DEF PatchIsOfFile, Busy
<1>3. /\ patching'[r] = IF form[r] = "diff" THEN "stashed" ELSE "previewed"
      /\ preimage'[r] = {}
      /\ \A s \in Writers : s # r => patching'[s] = patching[s] /\ preimage'[s] = preimage[s]
  BY <1>1 DEF SharedTypeOK
<1>4. TextFollows(r)'
  BY <1>1, <1>3 DEF PatchInv, TextFollows, Early, Busy, EditOf
<1>5. PreimageIsJudged(r)' /\ Busy(r)' /\ Busy(r)
  BY <1>1, <1>3 DEF PreimageIsJudged, Busy
<1>6. CASE f \in DOMAIN shadow
  <2>1. UNCHANGED <<shadow, outdated>>
    BY <1>6 DEF Stash, Stashing
  <2>2. SharedTypeOK'
    BY <1>1, <2>1 DEF SharedTypeOK
  <2>3. StashStands(r)'
    BY <1>1, <1>6, <2>1 DEF StashStands
  <2>4. StashIsJudged' /\ UnjudgedIsStashed'
    BY <1>1, <2>1, VerdictsKept
  <2>5. \A g \in DOMAIN shadow' : shadow'[g] \subseteq Written
    BY <2>1 DEF EditsWritten
  <2> QED
    BY <1>1, <1>3, <1>4, <1>5, <2>1, <2>2, <2>3, <2>4, <2>5, PatchStep DEF SamePatch, PatchInv
<1>7. CASE f \notin DOMAIN shadow
  <2>1. /\ shadow' = [g \in DOMAIN shadow \cup {f} |-> IF g = f THEN preimage[r] ELSE shadow[g]]
        /\ outdated' = IF r \in delayed THEN outdated \cup {f} ELSE outdated \ {f}
    BY <1>7 DEF Stash, Stashing
  <2>2. /\ DOMAIN shadow' = DOMAIN shadow \cup {f} /\ shadow'[f] = preimage[r]
        /\ \A g \in DOMAIN shadow : shadow'[g] = shadow[g]
    BY <1>7, <2>1
  <2> HIDE DEF f
  <2>3. SharedTypeOK'
    <3>1. preimage' \in [Writers -> SUBSET Edits] /\ preimage[r] \subseteq Edits
      BY <1>1 DEF SharedTypeOK
    <3>2. /\ DOMAIN shadow' \subseteq SharedFiles /\ \A g \in DOMAIN shadow' : shadow'[g] \subseteq Edits
          /\ outdated' \subseteq DOMAIN shadow'
      BY <1>2, <2>1, <2>2, <3>1 DEF SharedTypeOK
    <3> QED
      BY <1>1, <3>1, <3>2 DEF SharedTypeOK
  <2>4. StashStands(r)'
    BY <1>1, <2>2 DEF StashStands, f
  <2>5. StashIsJudged'
    <3> SUFFICES ASSUME NEW g \in DOMAIN shadow' \ outdated' PROVE JudgedIn(g, shadow'[g])
      BY <1>1 DEF StashIsJudged, JudgedIn
    <3>1. CASE g # f
      BY <2>1, <2>2, <3>1 DEF StashIsJudged
    <3>2. CASE g = f
      BY <1>1, <1>7, <2>1, <2>2, <3>2 DEF PatchInv, PreimageIsJudged, f
    <3> QED
      BY <3>1, <3>2
  <2>6. UnjudgedIsStashed'
    BY <1>1, <1>7, <2>2 DEF UnjudgedIsStashed
  <2>7. \A g \in DOMAIN shadow' : shadow'[g] \subseteq Written
    BY <2>2 DEF EditsWritten
  <2>8. /\ DOMAIN shadow \subseteq DOMAIN shadow' /\ preimage'[r] \subseteq Written
        /\ \A s \in Writers : s # r => /\ SamePatch(s) /\ (s \in entered <=> s \in entered')
                                       /\ (s \in exposed' <=> s \in exposed)
                                       /\ (s \in delayed' <=> s \in delayed)
    <3>1. preimage'[r] \subseteq Written /\ DOMAIN shadow \subseteq DOMAIN shadow'
      BY <1>3, <2>2
    <3>2. ASSUME NEW s \in Writers, s # r PROVE SamePatch(s)
      BY <1>1, <1>3, <3>2 DEF SamePatch
    <3> QED
      BY <1>1, <3>1, <3>2
  <2> QED
    BY <1>1, <1>4, <1>5, <2>3, <2>4, <2>5, <2>6, <2>7, <2>8, PatchStep DEF PatchInv
<1> QED
  BY <1>6, <1>7

\* the file's hash is taken,
LEMMA ReadHashInv == ASSUME SharedInv, NEW r \in Writers, ReadHash(r) PROVE SharedInv'
<1> USE DEF SharedInv
<1>1. /\ patching[r] = "stashed" /\ patching' = [patching EXCEPT ![r] = "hashed"]
      /\ hash' = [hash EXCEPT ![r] = held[editing[r]]]
      /\ UNCHANGED <<held, shadow, editing, form, text, preimage, made, ended, entered, exposed, delayed,
                     outdated, fate, excused>>
  BY DEF ReadHash, Moves, history
<1>2. editing[r] \in SharedFiles
  BY <1>1 DEF PatchIsOfFile, Busy
<1>3. /\ patching'[r] = "hashed" /\ hash'[r] = held[editing[r]]
      /\ \A s \in Writers : s # r => patching'[s] = patching[s] /\ hash'[s] = hash[s]
  BY <1>1 DEF SharedTypeOK
<1>4. SharedTypeOK'
  <2>1. hash' \in [Writers -> SUBSET Edits]
    BY <1>1, <1>2 DEF SharedTypeOK
  <2> QED
    BY <1>1, <2>1 DEF SharedTypeOK
<1>5. PatchInv(r)'
  <2>1. form[r] = "diff" /\ Early(r) /\ Busy(r) /\ EditOf(r)' = EditOf(r)
    BY <1>1 DEF PatchInv, TextFollows, Early, Busy, EditOf
  <2>2. TextFollows(r)'
    BY <1>1, <1>3, <2>1 DEF PatchInv, TextFollows, Early
  <2>3. StashStands(r)' /\ PreimageIsJudged(r)'
    BY <1>1, <1>3 DEF PatchInv, StashStands, PreimageIsJudged
  <2> QED
    BY <2>2, <2>3 DEF PatchInv
<1>6. StashIsJudged' /\ UnjudgedIsStashed'
  BY <1>1, VerdictsKept
<1>7. preimage'[r] \subseteq Written /\ \A f \in DOMAIN shadow' : shadow'[f] \subseteq Written
  BY <1>1 DEF EditsWritten
<1>8. Busy(r)' /\ Busy(r)
  BY <1>1, <1>3 DEF Busy
<1> QED
  BY <1>1, <1>3, <1>4, <1>5, <1>6, <1>7, <1>8, PatchStep DEF SamePatch

\* A patch begins with an edit of its own.
LEMMA ReadTextInv == ASSUME SharedInv, NEW r \in Writers, ReadText(r) PROVE SharedInv'
<1> USE DEF SharedInv
<1>1. PICK f \in SharedFiles, k \in {"diff", "blocks"} :
        /\ editing' = [editing EXCEPT ![r] = f]
        /\ form' = [form EXCEPT ![r] = k]
        /\ text' = [text EXCEPT ![r] = held[f] \cup {<<r, made'[r]>>}]
        /\ hash' = [hash EXCEPT ![r] = IF k = "blocks" THEN held[f] ELSE {}]
  BY DEF ReadText
<1> DEFINE e == <<r, made[r] + 1>>
<1>2. /\ patching[r] = "idle" /\ made[r] < MaxPatches[r]
      /\ UNCHANGED <<held, shadow, preimage, ended, entered, exposed, delayed, outdated, fate, excused>>
  BY DEF ReadText, Moves, history
<1>3. /\ made' = [made EXCEPT ![r] = @ + 1] /\ made'[r] = made[r] + 1
      /\ \A w \in Writers \cup {User} : w # r => made'[w] = made[w]
      /\ made' \in [Writers \cup {User} -> Nat] /\ made[r] \in Nat /\ MaxPatches[r] \in Nat
  <2>1. made \in [Writers \cup {User} -> Nat] /\ r \in Writers \cup {User} /\ MaxPatches[r] \in Nat
    BY SharedAssumption DEF SharedTypeOK
  <2>2. made' = [made EXCEPT ![r] = @ + 1]
    BY DEF ReadText
  <2> QED
    BY <2>1, <2>2
<1>4. /\ patching' = [patching EXCEPT ![r] = "read"] /\ patching'[r] = "read"
      /\ editing'[r] = f /\ form'[r] = k /\ text'[r] = held[f] \cup {e}
      /\ hash'[r] = IF k = "blocks" THEN held[f] ELSE {}
      /\ \A s \in Writers : s # r => /\ patching'[s] = patching[s] /\ editing'[s] = editing[s]
                                     /\ form'[s] = form[s] /\ text'[s] = text[s] /\ hash'[s] = hash[s]
  BY <1>1, <1>3 DEF ReadText, Moves, SharedTypeOK
<1>5. e \in Edits /\ e \notin Written /\ EditOf(r)' = e
      /\ \A s \in Writers : s # r => EditOf(s)' = EditOf(s)
  <2>1. made[r] + 1 \in 1..MaxPatches[r] /\ made[r] + 1 > made[r]
    BY <1>2, <1>3
  <2> QED
    BY <1>3, <2>1, EditFacts DEF EditsWritten, EditOf
<1>6. SharedTypeOK'
  <2>1. held[f] \subseteq Edits
    BY DEF SharedTypeOK
  <2>2. text' \in [Writers -> SUBSET Edits] /\ hash' \in [Writers -> SUBSET Edits]
    BY <1>1, <1>3, <1>5, <2>1 DEF SharedTypeOK
  <2> HIDE DEF e
  <2> QED
    BY <1>1, <1>2, <1>3, <1>4, <2>2 DEF SharedTypeOK
<1>7. PatchesBegun'
  BY <1>2, <1>3 DEF PatchesBegun
<1>8. PatchIsOfFile'
  BY <1>2, <1>3, <1>4 DEF PatchIsOfFile, Busy
<1>9. EditsWritten'
  <2>1. Written' = Written
    BY <1>2 DEF Written
  <2>2. \A s \in Writers : Busy(s)' => text'[s] \subseteq Written \cup {EditOf(s)'} /\ EditOf(s)' \notin Written
    BY <1>4, <1>5 DEF EditsWritten, Busy
  <2>3. \A w \in Writers \cup {User} : \A i \in 1..MaxPatches[w] : i > made'[w] => i > made[w]
    BY <1>3 DEF SharedTypeOK
  <2> QED
    BY <1>2, <2>1, <2>2, <2>3 DEF EditsWritten
<1>10. ASSUME NEW s \in Writers, s # r PROVE PatchInv(s)'
  BY <1>2, <1>3, <1>4, <1>10, OthersKept DEF SamePatch
<1>11. PatchInv(r)'
  <2>1. k = "diff" <=> Early(r)'
    BY <1>4 DEF Early
  <2>2. TextFollows(r)'
    BY <1>2, <1>4, <1>5, <2>1 DEF TextFollows
  <2> QED
    BY <1>4, <2>2 DEF PatchInv, StashStands, PreimageIsJudged
<1> QED
  BY <1>2, <1>6, <1>7, <1>8, <1>9, <1>10, <1>11, VerdictsKept

\* Who notices no change of the file is known to have missed it.
LEMMA NoticedOrEntered ==
    ASSUME SharedInv, NEW s \in Writers, SamePatch(s), s \in entered => s \in entered',
           Unnoticed(s) /\ editing[s] # NoEdit /\ held'[editing[s]] # held[editing[s]] => s \in entered'
    PROVE  TextFollows(s)'
<1> USE DEF SharedInv, PatchInv, SamePatch
<1>1. EditOf(s)' = EditOf(s) /\ Early(s)' = Early(s) /\ Busy(s)' = Busy(s)
  BY DEF EditOf, Early, Busy
<1>2. Busy(s) => editing[s] # NoEdit
  BY SharedAssumption DEF PatchIsOfFile
<1>3. Early(s) => Unnoticed(s)
  BY DEF Early, Unnoticed
<1>4. patching[s] = "checked" => Unnoticed(s)
  BY DEF Unnoticed
<1> QED
  BY <1>1, <1>2, <1>3, <1>4 DEF TextFollows

\* A new edit e is written into a file, with nothing else of it changed that is not excused.
WritesEdit(f, e, new, v) ==
    /\ e \notin Written /\ v \in {"open", "loose"} /\ (v = "open" => f \in DOMAIN shadow)
    /\ held' = [held EXCEPT ![f] = new] /\ fate' = [fate EXCEPT ![e] = v]
    /\ \A d \in Edits \ excused' : d \in new <=> d \in held[f] \cup {e}
    /\ UNCHANGED <<shadow, outdated>> /\ excused \subseteq excused'

\* An edit that reaches its file, by a run or by the user, is the only one that is new there.
LEMMA EditIsWritten ==
    ASSUME SharedInv, NEW f \in SharedFiles, NEW e \in Edits, NEW new \in SUBSET Edits,
           NEW v, WritesEdit(f, e, new, v)
    PROVE  /\ StashIsJudged' /\ UnjudgedIsStashed' /\ VerdictsLast'
           /\ \A s \in Writers : patching'[s] = patching[s] /\ editing'[s] = editing[s]
                                 /\ preimage'[s] = preimage[s] /\ (s \in delayed' <=> s \in delayed)
                                 => PreimageIsJudged(s)'
<1> USE DEF SharedInv, WritesEdit
<1>1. /\ \A g \in SharedFiles : held[g] \subseteq Edits /\ e \notin held[g]
      /\ \A g \in DOMAIN shadow : g \in SharedFiles /\ shadow[g] \subseteq Edits /\ e \notin shadow[g]
      /\ \A s \in Writers : preimage[s] \subseteq Edits /\ e \notin preimage[s]
  BY DEF SharedTypeOK, EditsWritten
<1>2. /\ fate'[e] = v /\ \A d \in Edits : d # e => fate'[d] = fate[d]
      /\ held'[f] = new /\ \A g \in SharedFiles : g # f => held'[g] = held[g]
  BY DEF SharedTypeOK
<1>3. \A g \in SharedFiles : \A d \in held'[g] \ excused' :
         d \in Edits /\ (d \in held[g] \/ (d = e /\ g = f))
  BY <1>1, <1>2
<1>4. \A g \in SharedFiles : \A d \in held[g] \ excused' : d \in held'[g] /\ d # e
  BY <1>1, <1>2
<1>5. ASSUME NEW g \in SharedFiles, NEW content \in SUBSET Edits, e \notin content, JudgedIn(g, content)
      PROVE  /\ \A d \in content \ excused' : fate'[d] \in {"loose", "kept"}
             /\ \A d \in held'[g] \ excused' : fate'[d] = "kept" => d \in content
  <2>1. \A d \in content \ excused' : fate'[d] \in {"loose", "kept"}
    BY <1>2, <1>5 DEF JudgedIn
  <2>2. ASSUME NEW d \in held'[g] \ excused', fate'[d] = "kept" PROVE d \in content
    <3>1. d # e /\ d \in held[g] /\ fate[d] = "kept"
      BY <1>2, <1>3, <2>2
    <3> QED
      BY <1>5, <3>1 DEF JudgedIn
  <2> QED
    BY <2>1, <2>2
<1>6. StashIsJudged'
  <2>1. \A g \in DOMAIN shadow \ outdated : JudgedIn(g, shadow[g])
    BY DEF StashIsJudged
  <2> QED
    BY <1>1, <1>5, <2>1 DEF StashIsJudged, JudgedIn
<1>7. UnjudgedIsStashed'
  <2> SUFFICES ASSUME NEW g \in SharedFiles, NEW d \in held'[g] \ excused', fate'[d] = "open"
               PROVE  g \in DOMAIN shadow /\ d \notin shadow[g]
    BY DEF UnjudgedIsStashed
  <2>1. CASE d = e
    BY <1>1, <1>2, <1>3, <2>1
  <2>2. CASE d # e
    BY <1>2, <1>3, <2>2 DEF UnjudgedIsStashed
  <2> QED
    BY <2>1, <2>2
<1>8. VerdictsLast'
  <2> SUFFICES ASSUME NEW d \in Edits \ excused'
               PROVE  /\ fate'[d] = "kept" => \E g \in SharedFiles : d \in held'[g]
                      /\ fate'[d] = "undone" => ~ \E g \in SharedFiles : d \in held'[g]
    BY DEF VerdictsLast, OnDisk
  <2>1. fate'[d] \in {"kept", "undone"} => d # e /\ fate'[d] = fate[d]
    BY <1>2
  <2>2. fate[d] = "kept" => \E g \in SharedFiles : d \in held[g]
    BY DEF VerdictsLast, OnDisk
  <2>3. fate[d] = "undone" => ~ \E g \in SharedFiles : d \in held[g]
    BY DEF VerdictsLast, OnDisk
  <2> QED
    BY <1>3, <1>4, <2>1, <2>2, <2>3
<1>9. ASSUME NEW s \in Writers, patching'[s] = patching[s], editing'[s] = editing[s],
             preimage'[s] = preimage[s], s \in delayed' <=> s \in delayed
      PROVE  PreimageIsJudged(s)'
  <2> SUFFICES ASSUME patching[s] = "stashing", s \notin delayed, editing[s] \notin DOMAIN shadow
               PROVE  JudgedIn(editing[s], preimage[s])'
    BY <1>9 DEF PreimageIsJudged
  <2>1. editing[s] \in SharedFiles
    BY DEF PatchIsOfFile, Busy
  <2>2. JudgedIn(editing[s], preimage[s])
    BY DEF PatchInv, PreimageIsJudged
  <2> QED
    BY <1>1, <1>5, <1>9, <2>1, <2>2 DEF JudgedIn
<1> QED
  BY <1>6, <1>7, <1>8, <1>9

\* the hash is compared with the file,
LEMMA CompareHashInv == ASSUME SharedInv, NEW r \in Writers, CompareHash(r) PROVE SharedInv'
<1> USE DEF SharedInv
<1>1. /\ patching[r] \in {"hashed", "previewed"} /\ held[editing[r]] = hash[r]
      /\ patching' = [patching EXCEPT ![r] = IF @ = "hashed" THEN "previewed" ELSE "checked"]
      /\ UNCHANGED <<held, shadow, editing, form, text, hash, preimage, made, ended, entered, exposed,
                     delayed, outdated, fate, excused>>
  BY DEF CompareHash, Compared, Advances, history
<1>2. /\ patching'[r] \in {"previewed", "checked"}
      /\ \A s \in Writers : s # r => patching'[s] = patching[s]
  BY <1>1 DEF SharedTypeOK
<1>3. SharedTypeOK'
  BY <1>1 DEF SharedTypeOK
<1>4. TextFollows(r)'
  BY <1>1, <1>2 DEF PatchInv, TextFollows, Early, Busy, EditOf
<1>5. StashStands(r)' /\ PreimageIsJudged(r)'
  BY <1>1, <1>2 DEF PatchInv, StashStands, PreimageIsJudged
<1>6. StashIsJudged' /\ UnjudgedIsStashed'
  BY <1>1, VerdictsKept
<1>7. preimage'[r] \subseteq Written /\ \A f \in DOMAIN shadow' : shadow'[f] \subseteq Written
  BY <1>1 DEF EditsWritten
<1>8. Busy(r)' /\ Busy(r)
  BY <1>1, <1>2 DEF Busy
<1> QED
  BY <1>1, <1>2, <1>3, <1>4, <1>5, <1>6, <1>7, <1>8, PatchStep DEF SamePatch, PatchInv

\* the patch is refused where they differ,
LEMMA RefusePatchInv == ASSUME SharedInv, NEW r \in Writers, RefusePatch(r) PROVE SharedInv'
<1> USE DEF SharedInv
<1>1. /\ patching' = [patching EXCEPT ![r] = "idle"] /\ editing' = [editing EXCEPT ![r] = NoEdit]
      /\ form' = [form EXCEPT ![r] = "diff"] /\ text' = [text EXCEPT ![r] = {}]
      /\ hash' = [hash EXCEPT ![r] = {}] /\ exposed' = exposed \ {r} /\ entered' = entered \ {r}
      /\ UNCHANGED <<held, shadow, preimage, made, ended, delayed, outdated, fate, excused>>
  BY DEF RefusePatch, PatchOver
<1>2. SharedTypeOK'
  BY <1>1 DEF SharedTypeOK
<1>3. /\ patching'[r] = "idle" /\ editing'[r] = NoEdit
      /\ \A s \in Writers : s # r => SamePatch(s)
  BY <1>1 DEF SharedTypeOK, SamePatch
<1>4. ~Busy(r)' /\ PatchInv(r)'
  BY <1>3 DEF PatchInv, TextFollows, StashStands, PreimageIsJudged, Busy
<1>5. StashIsJudged' /\ UnjudgedIsStashed'
  BY <1>1, VerdictsKept
<1>6. preimage'[r] \subseteq Written /\ \A f \in DOMAIN shadow' : shadow'[f] \subseteq Written
  BY <1>1 DEF EditsWritten
<1> QED
  BY <1>1, <1>2, <1>3, <1>4, <1>5, <1>6, PatchStep

\* What a step does that writes an edit of a file which nobody has written before.
LEMMA WriteTextInv == ASSUME SharedInv, NEW r \in Writers, WriteText(r) PROVE SharedInv'
<1> USE DEF SharedInv
<1> DEFINE f == editing[r]
           e == EditOf(r)
           v == IF r \in exposed THEN "loose" ELSE "open"
<1>1. /\ patching[r] = "checked" /\ patching' = [patching EXCEPT ![r] = "idle"]
      /\ held' = [held EXCEPT ![f] = text[r]] /\ fate' = [fate EXCEPT ![e] = v]
      /\ entered' = Entering(r) \ {r}
      /\ excused' = IF r \in entered THEN excused \cup Differ(text[r], held[f] \cup {e}) ELSE excused
      /\ editing' = [editing EXCEPT ![r] = NoEdit]
      /\ form' = [form EXCEPT ![r] = "diff"] /\ text' = [text EXCEPT ![r] = {}]
      /\ hash' = [hash EXCEPT ![r] = {}] /\ exposed' = exposed \ {r}
      /\ UNCHANGED <<shadow, preimage, made, ended, delayed, outdated>>
  BY DEF WriteText, Moves, PatchOver
<1>2. /\ Busy(r) /\ f \in SharedFiles /\ made[r] >= 1 /\ text[r] \subseteq Edits /\ held[f] \subseteq Edits
      /\ text[r] \subseteq Written \cup {e} /\ e \notin Written
  BY <1>1 DEF PatchIsOfFile, Busy, SharedTypeOK, EditsWritten
<1>3. e \in Edits /\ \A s \in Writers : s # r => EditOf(s) # e
  BY <1>2, OwnEdit
<1>4. r \notin entered => text[r] = held[f] \cup {e}
  BY <1>1, <1>2 DEF PatchInv, TextFollows, Early
<1>5. v = "open" => f \in DOMAIN shadow
  BY <1>1 DEF PatchInv, StashStands
<1>6. excused \subseteq excused' /\ excused' \subseteq Edits
  BY <1>1, <1>2, <1>3 DEF Differ, SharedTypeOK
<1>7. \A d \in Edits \ excused' : d \in text[r] <=> d \in held[f] \cup {e}
  BY <1>1, <1>4 DEF Differ
<1>8. entered' \subseteq Writers /\ \A s \in Writers : s # r => (s \in entered => s \in entered')
  BY <1>1 DEF Entering, SharedTypeOK
<1>9. /\ patching'[r] = "idle" /\ editing'[r] = NoEdit /\ r \notin entered'
      /\ \A s \in Writers : s # r => SamePatch(s)
  BY <1>1 DEF SharedTypeOK, SamePatch
<1>10. \A s \in Writers : s # r /\ Unnoticed(s) /\ editing[s] # NoEdit /\ held'[editing[s]] # held[editing[s]]
                          => s \in entered'
  BY <1>1 DEF Entering
<1>e. v \in {"open", "loose"}
  OBVIOUS
<1> HIDE DEF f, e, v
<1>11. SharedTypeOK'
  <2>1. held' \in [SharedFiles -> SUBSET Edits]
    BY <1>1, <1>2 DEF SharedTypeOK
  <2>2. fate' \in [Edits -> {"none", "open", "loose", "kept", "undone"}]
    BY <1>1, <1>3, <1>e DEF SharedTypeOK
  <2>3. /\ patching' \in
             [Writers -> {"idle", "read", "stashing", "stashed", "hashed", "previewed", "checked"}]
        /\ editing' \in [Writers -> SharedFiles \cup {NoEdit}] /\ form' \in [Writers -> {"diff", "blocks"}]
        /\ {text', hash', preimage'} \subseteq [Writers -> SUBSET Edits]
    BY <1>1 DEF SharedTypeOK
  <2> QED
    BY <1>1, <1>6, <1>8, <2>1, <2>2, <2>3 DEF SharedTypeOK
<1>12. /\ StashIsJudged' /\ UnjudgedIsStashed' /\ VerdictsLast'
       /\ \A s \in Writers : s # r => PreimageIsJudged(s)'
  <2>1. /\ StashIsJudged' /\ UnjudgedIsStashed' /\ VerdictsLast'
        /\ \A s \in Writers : patching'[s] = patching[s] /\ editing'[s] = editing[s]
                              /\ preimage'[s] = preimage[s] /\ (s \in delayed' <=> s \in delayed)
                              => PreimageIsJudged(s)'
    <3>1. WritesEdit(f, e, text[r], v)
      BY <1>1, <1>2, <1>5, <1>6, <1>7, <1>e DEF WritesEdit
    <3> QED
      BY <1>2, <1>3, <3>1, EditIsWritten
  <2> QED
    BY <1>1, <1>9, <2>1 DEF SamePatch
<1>13. \A s \in Writers : PatchInv(s)'
  <2>1. PatchInv(r)'
    BY <1>9 DEF PatchInv, TextFollows, StashStands, PreimageIsJudged, Busy
  <2>2. ASSUME NEW s \in Writers, s # r PROVE PatchInv(s)'
    <3>1. TextFollows(s)'
      BY <1>8, <1>9, <1>10, <2>2, NoticedOrEntered
    <3>2. StashStands(s)'
      BY <1>1, <1>9, <2>2 DEF PatchInv, StashStands, SamePatch
    <3> QED
      BY <1>12, <2>2, <3>1, <3>2 DEF PatchInv
  <2> QED
    BY <2>1, <2>2
<1>14. PatchesBegun' /\ PatchIsOfFile'
  BY <1>1, <1>9 DEF PatchesBegun, PatchIsOfFile, Busy, SamePatch, Entering
<1>15. EditsWritten'
  <2>1. Written' = Written \cup {e}
    BY <1>1, <1>3, <1>e DEF Written, SharedTypeOK
  <2>2. \A g \in SharedFiles : held'[g] \subseteq Written'
    BY <1>1, <1>2, <2>1 DEF EditsWritten, SharedTypeOK
  <2>3. \A s \in Writers : Busy(s)' => s # r /\ Busy(s) /\ text'[s] = text[s] /\ EditOf(s)' = EditOf(s)
    BY <1>9 DEF Busy, SamePatch, EditOf
  <2>4. \A w \in Writers \cup {User} : \A i \in 1..MaxPatches[w] : i > made[w] => <<w, i>> # e
    BY <1>2, EditFacts DEF EditOf, e, SharedTypeOK
  <2> QED
    BY <1>1, <1>3, <2>1, <2>2, <2>3, <2>4 DEF EditsWritten
<1> QED
  BY <1>11, <1>12, <1>13, <1>14, <1>15

\* The user saves a file from his editor.
LEMMA UserSavesInv == ASSUME SharedInv, UserSaves PROVE SharedInv'
<1> USE DEF SharedInv
<1> DEFINE e == <<User, made[User] + 1>>
<1>1. /\ made \in [Writers \cup {User} -> Nat] /\ MaxPatches[User] \in Nat /\ made[User] \in Nat
      /\ made[User] < MaxPatches[User]
  BY SharedAssumption DEF UserSaves, SharedTypeOK
<1>2. /\ made' = [made EXCEPT ![User] = @ + 1] /\ made'[User] = made[User] + 1
      /\ \A w \in Writers : made'[w] = made[w]
      /\ made' \in [Writers \cup {User} -> Nat]
  BY <1>1, SharedAssumption DEF UserSaves
<1>3. PICK f \in SharedFiles : held' = [held EXCEPT ![f] = @ \cup {e}]
  BY <1>2 DEF UserSaves
<1>4. /\ fate' = [fate EXCEPT ![e] = "loose"] /\ entered' = Entering(User)
      /\ UNCHANGED <<shadow, patching, editing, form, text, hash, preimage, ended, exposed, delayed,
                     outdated, excused>>
  BY <1>2 DEF UserSaves, patchVars
<1>5. e \in Edits /\ e \notin Written /\ \A s \in Writers : EditOf(s) # e
  <2>1. made[User] + 1 \in 1..MaxPatches[User] /\ made[User] + 1 > made[User]
    BY <1>1
  <2> QED
    BY <2>1, EditFacts, SharedAssumption DEF EditsWritten, EditOf
<1>6. held[f] \subseteq Edits
  BY DEF SharedTypeOK
<1>7. entered' \subseteq Writers /\ \A s \in Writers : s \in entered => s \in entered'
  BY <1>4 DEF Entering, SharedTypeOK
<1>8. \A s \in Writers : Unnoticed(s) /\ editing[s] # NoEdit /\ held'[editing[s]] # held[editing[s]]
                         => s \in entered'
  BY <1>4, SharedAssumption DEF Entering
<1>9. \A s \in Writers : SamePatch(s) /\ EditOf(s)' = EditOf(s)
  BY <1>2, <1>4 DEF SamePatch, EditOf
<1>10. \A w \in Writers \cup {User} : \A i \in 1..MaxPatches[w] : i > made'[w] => i > made[w] /\ <<w, i>> # e
  <2>1. \A w \in Writers \cup {User} : made'[w] >= made[w] /\ made[w] \in Nat /\ made'[w] \in Nat
    BY <1>1, <1>2
  <2>2. \A i \in 1..MaxPatches[User] : i > made'[User] => <<User, i>> # e
    BY <1>1, <1>2
  <2> QED
    BY <2>1, <2>2, EditFacts
<1> HIDE DEF e
<1>11. SharedTypeOK'
  <2>1. held' \in [SharedFiles -> SUBSET Edits] /\ fate' \in [Edits -> {"none", "open", "loose", "kept", "undone"}]
    BY <1>3, <1>4, <1>5, <1>6 DEF SharedTypeOK
  <2> QED
    BY <1>2, <1>4, <1>7, <2>1 DEF SharedTypeOK
<1>12. held' = [held EXCEPT ![f] = held[f] \cup {e}]
  BY <1>3
<1>13. /\ StashIsJudged' /\ UnjudgedIsStashed' /\ VerdictsLast'
       /\ \A s \in Writers : PreimageIsJudged(s)'
  <2>1. WritesEdit(f, e, held[f] \cup {e}, "loose")
    BY <1>4, <1>5, <1>12 DEF WritesEdit
  <2>2. /\ StashIsJudged' /\ UnjudgedIsStashed' /\ VerdictsLast'
        /\ \A s \in Writers : patching'[s] = patching[s] /\ editing'[s] = editing[s]
                              /\ preimage'[s] = preimage[s] /\ (s \in delayed' <=> s \in delayed)
                              => PreimageIsJudged(s)'
    <3>1. held[f] \cup {e} \in SUBSET Edits
      BY <1>5, <1>6
    <3> QED
      BY <1>5, <2>1, <3>1, EditIsWritten
  <2> QED
    BY <1>4, <2>2
<1>14. \A s \in Writers : PatchInv(s)'
  BY <1>4, <1>7, <1>8, <1>9, <1>13, NoticedOrEntered DEF PatchInv, StashStands
<1>15. PatchesBegun'
  BY <1>1, <1>2 DEF PatchesBegun
<1>16. PatchIsOfFile'
  BY <1>2, <1>4 DEF PatchIsOfFile, Busy, Entering
<1>17. EditsWritten'
  <2>1. Written' = Written \cup {e}
    BY <1>4, <1>5 DEF Written, SharedTypeOK
  <2>2. \A g \in SharedFiles : held'[g] \subseteq Written'
    BY <1>12, <2>1 DEF EditsWritten, SharedTypeOK
  <2>3. \A s \in Writers : Busy(s)' = Busy(s)
    BY <1>4 DEF Busy
  <2> QED
    BY <1>4, <1>5, <1>9, <1>10, <2>1, <2>2, <2>3 DEF EditsWritten
<1> QED
  BY <1>11, <1>13, <1>14, <1>15, <1>16, <1>17

-----------------------------------------------------------------------------
\* The end of a validation leaves the patches as they are, and knows whose stash it takes away.
LEMMA PatchesOutlast ==
    ASSUME SharedInv, NEW r \in Writers, ValidationEnds(r), shadow' = <<>>, outdated' = {},
           Written' = Written, UNCHANGED <<held, entered>> \/ entered' = Entering(r),
           held' \in [SharedFiles -> SUBSET Edits], \A f \in SharedFiles : held'[f] \subseteq Written,
           fate' \in [Edits -> {"none", "open", "loose", "kept", "undone"}], excused' \subseteq Edits
    PROVE  /\ SharedTypeOK' /\ PatchesBegun' /\ PatchIsOfFile' /\ EditsWritten' /\ StashIsJudged'
           /\ \A s \in Writers : PatchInv(s)'
<1> USE DEF SharedInv
<1>1. /\ patching[r] = "idle" /\ ended < MaxEnds /\ ended' = ended + 1
      /\ exposed' = exposed \cup {w \in Writers : patching[w] \notin {"idle", "read", "stashing"}}
      /\ delayed' = delayed \cup {w \in Writers : patching[w] = "stashing"}
      /\ UNCHANGED <<patching, editing, form, text, hash, preimage, made>>
  BY DEF ValidationEnds, patchVars
<1>2. DOMAIN shadow' = {}
  OBVIOUS
<1>3. entered' \subseteq Writers
  BY DEF Entering, SharedTypeOK
<1>4. SharedTypeOK'
  <2>1. ended' \in 0..MaxEnds
    BY <1>1, SharedAssumption DEF SharedTypeOK
  <2> QED
    BY <1>1, <1>2, <1>3, <2>1 DEF SharedTypeOK
<1>5. PatchesBegun' /\ StashIsJudged'
  BY <1>1, <1>2 DEF PatchesBegun, StashIsJudged
<1>6. PatchIsOfFile'
  BY <1>1 DEF PatchIsOfFile, Busy, Entering
<1>7. EditsWritten'
  BY <1>1, <1>2 DEF EditsWritten, Busy, EditOf
<1>8. ASSUME NEW s \in Writers PROVE PatchInv(s)'
  <2>1. StashStands(s)' /\ PreimageIsJudged(s)'
    BY <1>1 DEF StashStands, PreimageIsJudged
  <2>2. SamePatch(s) /\ (s \in entered => s \in entered')
    BY <1>1 DEF SamePatch, Entering
  <2>3. TextFollows(s)'
    <3>1. CASE s = r
      BY <1>1, <3>1 DEF TextFollows, Busy
    <3>2. CASE s # r
      BY <2>2, <3>2, NoticedOrEntered DEF Entering
    <3> QED
      BY <3>1, <3>2
  <2> QED
    BY <2>1, <2>3 DEF PatchInv
<1> QED
  BY <1>4, <1>5, <1>6, <1>7, <1>8

\* A validation passes: whatever is on disk is kept, and the stash is cleared.
LEMMA PassesInv == ASSUME SharedInv, NEW r \in Writers, Passes(r) PROVE SharedInv'
<1> USE DEF SharedInv
<1>1. /\ ValidationEnds(r) /\ shadow' = <<>> /\ outdated' = {}
      /\ fate' = [e \in Edits |-> IF e \in OnDisk THEN "kept" ELSE fate[e]]
      /\ UNCHANGED <<held, entered, excused>>
  BY DEF Passes, Passing
<1>2. \A f \in SharedFiles : held[f] \subseteq Edits
  BY DEF SharedTypeOK
<1>3. \A e \in Edits : (e \in OnDisk => e \in Written) /\ OnDisk' = OnDisk
  BY <1>1 DEF OnDisk, EditsWritten
<1>4. Written' = Written
  BY <1>1, <1>3 DEF Written
<1>5. fate' \in [Edits -> {"none", "open", "loose", "kept", "undone"}]
  BY <1>1 DEF SharedTypeOK
<1>6. /\ SharedTypeOK' /\ PatchesBegun' /\ PatchIsOfFile' /\ EditsWritten' /\ StashIsJudged'
      /\ \A s \in Writers : PatchInv(s)'
  BY <1>1, <1>4, <1>5, PatchesOutlast DEF SharedTypeOK, EditsWritten
<1>7. UnjudgedIsStashed'
  BY <1>1, <1>2 DEF UnjudgedIsStashed, OnDisk
<1>8. VerdictsLast'
  BY <1>1, <1>3 DEF VerdictsLast
<1> QED
  BY <1>6, <1>7, <1>8

\* A validation fails: every stashed file is what its stash says.
LEMMA RollsBackAllInv == ASSUME SharedInv, NEW r \in Writers, RollsBackAll(r) PROVE SharedInv'
<1> USE DEF SharedInv
<1>1. /\ ValidationEnds(r) /\ shadow' = <<>> /\ outdated' = {} /\ entered' = Entering(r)
      /\ held' = [f \in SharedFiles |-> IF f \in DOMAIN shadow THEN shadow[f] ELSE held[f]]
      /\ fate' = [e \in Edits |-> IF e \in OnDisk \ OnDisk' /\ fate[e] # "kept" THEN "undone" ELSE fate[e]]
      /\ excused' = excused \cup UNION {Differ(held[f], shadow[f]) : f \in outdated}
  BY DEF RollsBackAll, OnDisk
<1>2. /\ \A f \in SharedFiles : held[f] \subseteq Edits /\ held[f] \subseteq Written
      /\ \A f \in DOMAIN shadow : f \in SharedFiles /\ shadow[f] \subseteq Edits /\ shadow[f] \subseteq Written
      /\ outdated \subseteq DOMAIN shadow
  BY DEF SharedTypeOK, EditsWritten
<1>3. \A e \in Edits : /\ e \in OnDisk => e \in Written
                       /\ fate'[e] = fate[e] \/ (e \in OnDisk /\ e \notin OnDisk' /\ fate'[e] = "undone")
  BY <1>1, <1>2 DEF OnDisk
<1>4. Written' = Written
  BY <1>3 DEF Written
<1>5. fate' \in [Edits -> {"none", "open", "loose", "kept", "undone"}]
  BY <1>1 DEF SharedTypeOK
<1>6. held' \in [SharedFiles -> SUBSET Edits] /\ \A f \in SharedFiles : held'[f] \subseteq Written
  BY <1>1, <1>2
<1>7. excused' \subseteq Edits /\ excused \subseteq excused'
  BY <1>1, <1>2 DEF Differ, SharedTypeOK
<1>8. /\ SharedTypeOK' /\ PatchesBegun' /\ PatchIsOfFile' /\ EditsWritten' /\ StashIsJudged'
      /\ \A s \in Writers : PatchInv(s)'
  BY <1>1, <1>4, <1>5, <1>6, <1>7, PatchesOutlast
\* What comes back has been judged, or was there and is excused otherwise.
<1>9. ASSUME NEW f \in SharedFiles, NEW e \in held'[f] \ excused'
      PROVE  /\ e \in Edits
             /\ \/ f \notin DOMAIN shadow /\ e \in held[f]
                \/ fate[e] \in {"loose", "kept"}
                \/ f \in DOMAIN shadow /\ e \in held[f] /\ e \in shadow[f]
  <2>1. CASE f \notin DOMAIN shadow
    BY <1>1, <1>2, <2>1
  <2>2. CASE f \in DOMAIN shadow \ outdated
    <3>1. e \in shadow[f] \ excused
      BY <1>1, <1>7, <2>2
    <3> QED
      BY <1>2, <2>2, <3>1 DEF StashIsJudged, JudgedIn
  <2>3. CASE f \in outdated
    BY <1>1, <1>2, <2>3 DEF Differ
  <2> QED
    BY <2>1, <2>2, <2>3
<1>10. UnjudgedIsStashed'
  <2> SUFFICES ASSUME NEW f \in SharedFiles, NEW e \in held'[f] \ excused', fate'[e] = "open" PROVE FALSE
    BY DEF UnjudgedIsStashed
  <2>1. fate[e] = "open" /\ e \notin excused
    BY <1>3, <1>7, <1>9
  <2> QED
    BY <1>9, <2>1 DEF UnjudgedIsStashed
<1>11. VerdictsLast'
  <2>1. ASSUME NEW e \in Edits \ excused', fate'[e] = "kept" PROVE \E f \in SharedFiles : e \in held'[f]
    <3>1. fate[e] = "kept" /\ e \notin excused
      BY <1>3, <1>7, <2>1
    <3>2. PICK f \in SharedFiles : e \in held[f]
      BY <3>1 DEF VerdictsLast, OnDisk
    <3>3. CASE f \notin DOMAIN shadow
      BY <1>1, <3>2, <3>3
    <3>4. CASE f \in DOMAIN shadow \ outdated
      BY <1>1, <3>1, <3>2, <3>4 DEF StashIsJudged, JudgedIn
    <3>5. CASE f \in outdated
      BY <1>1, <1>2, <2>1, <3>2, <3>5 DEF Differ
    <3> QED
      BY <3>3, <3>4, <3>5
  <2>2. ASSUME NEW e \in Edits \ excused', fate'[e] = "undone", NEW f \in SharedFiles, e \in held'[f] PROVE FALSE
    <3>1. e \in OnDisk'
      BY <2>2 DEF OnDisk
    <3>2. fate[e] = "undone" /\ e \notin excused
      BY <1>3, <1>7, <2>2, <3>1
    <3>3. \A g \in SharedFiles : e \notin held[g]
      BY <3>2 DEF VerdictsLast, OnDisk
    <3> QED
      BY <1>9, <2>2, <3>2, <3>3
  <2> QED
    BY <2>1, <2>2 DEF VerdictsLast, OnDisk
<1> QED
  BY <1>8, <1>10, <1>11

-----------------------------------------------------------------------------
\* Every step keeps the invariant.
LEMMA SharedStep == SharedInv /\ [SharedNext]_sharedVars => SharedInv'
<1>1. ASSUME SharedInv, UNCHANGED sharedVars PROVE SharedInv'
  BY <1>1 DEF sharedVars, patchVars, history, SharedInv, SharedTypeOK, PatchesBegun, PatchIsOfFile, EditsWritten,
              Written, Busy, EditOf, PatchInv, TextFollows, StashStands, PreimageIsJudged, JudgedIn, Early,
              StashIsJudged, UnjudgedIsStashed, VerdictsLast, OnDisk
<1> QED
  BY <1>1, ReadTextInv, ReadForStashInv, StashInv, ReadHashInv, CompareHashInv, RefusePatchInv,
     WriteTextInv, PassesInv, RollsBackAllInv, UserSavesInv DEF SharedNext

\* The invariant has what the properties say.
LEMMA SharedMeans == SharedInv => SharedTypeOK /\ PatchAddsItsEdit /\ UnjudgedIsStashed /\ VerdictsLast
<1>1. ASSUME SharedInv, NEW r \in Writers, patching[r] = "checked", r \notin entered
      PROVE  text[r] = held[editing[r]] \cup {EditOf(r)}
  BY <1>1 DEF SharedInv, PatchInv, TextFollows, Busy, Early
<1> QED
  BY <1>1 DEF SharedInv, PatchAddsItsEdit

-----------------------------------------------------------------------------
(* CaseRepair *)

\* The types of the parts of a repair and of its loop.
RepairStates == [phase : Phases, owner : RepairPaths \cup {NoPath}, anchor : BOOLEAN,
                 suggested : BOOLEAN, loaded : RepairPaths \cup {NoPath}, invalid : 0..1]
Requirements == [path : RepairPaths \cup {NoPath}, done : BOOLEAN]
LoopStates == [at : {"reply", "acting", "draining", "inject", "reread", "done", "dead"},
               rest : Seq(RepairActions), wrote : BOOLEAN]
FlagStates == [required : BOOLEAN, patched : BOOLEAN, rerun : BOOLEAN]
MarkStates == [wrote : BOOLEAN, lastWrite : RepairPaths \cup {NoPath}, scaffold : BOOLEAN,
               previewed : RepairPaths \cup {NoPath}, locks : BOOLEAN, refuted : BOOLEAN]

\* The types, of the loop, its queue and its marks also.
CaseTypes ==
    /\ CaseTypeOK
    /\ marks \in [wrote : BOOLEAN, lastWrite : RepairPaths \cup {NoPath}, scaffold : BOOLEAN,
                  previewed : RepairPaths \cup {NoPath}, locks : BOOLEAN, refuted : BOOLEAN]
    /\ standing \in [green : BOOLEAN, failing : BOOLEAN]
    /\ queue \in Seq({FastPlan, OtherPlan})
    /\ loop \in [at : {"reply", "acting", "draining", "inject", "reread", "done", "dead"},
                 rest : Seq(RepairActions), wrote : BOOLEAN]

\* A repair knows its owner; who looks for the implementation knows where the failure is, and
\* nothing has to be read again before that; who reruns the fast loop has patched.
PhaseKnows ==
    /\ repair.phase # "none" => repair.owner \in RepairPaths
    /\ repair.phase = "implementation" => repair.anchor
    /\ repair.phase \in {"anchor", "implementation"} => requirement = NoRequirement
    /\ repair.phase = "rerun" => flags.patched

\* A plan is drained alone, and nothing is edited before the patch.
RestFits ==
    /\ loop.at = "draining" => Len(loop.rest) = 1 /\ loop.rest[1] \in {FastPlan, OtherPlan}
    /\ loop.at = "acting" => queue = <<>>
    /\ loop.at = "acting" /\ repair.phase \in {"anchor", "implementation"} =>
          \A i \in DOMAIN loop.rest : ~IsWrite(loop.rest[i])

\* Before the first failure nothing is asked of an edit.
BeforeFailure ==
    /\ past = "failed" => failed > 0
    /\ failed = 0 => ~flags.required /\ ~flags.patched /\ ~flags.rerun

\* After the first failure the run is not green and nothing else is validated before the fast loop.
RerunComesFirst ==
    past = "failed" /\ FirstOwner(failure) # NoPath =>
        /\ flags.required /\ ~flags.rerun /\ ~standing.green /\ standing.failing
        /\ loop.at # "done"
        /\ loop.at = "acting" => /\ loop.wrote => flags.patched
                                 /\ \A i \in DOMAIN loop.rest : loop.rest[i] # OtherPlan
        /\ loop.at = "draining" => loop.rest[1] = FastPlan
        /\ loop.at \in {"reply", "inject", "reread"} => queue = <<>> \/ Head(queue) = FastPlan

\* The inductive invariant of the repair of a benchmark case.
CaseInv == CaseTypes /\ PhaseFollowsLedger /\ PhaseKnows /\ RestFits /\ BeforeFailure /\ RerunComesFirst

\* A set of numbers has a least one.
LEMMA LeastOf ==
    ASSUME NEW S \in SUBSET Nat, S # {}
    PROVE  \E i \in S : \A j \in S : i <= j
<1> DEFINE R == {pair \in Nat \X Nat : pair[1] < pair[2]}
<1>1. IsWellFoundedOn(R, Nat)
  BY NatLessThanWellFounded, Zenon DEF OpToRel
<1> HIDE DEF R
<1>2. PICK i \in S : \A j \in S : ~(<<j, i>> \in R)
  BY <1>1, WFMin
<1>3. \A k, j \in Nat : j < k => <<j, k>> \in R
  BY DEF R
<1>4. ASSUME NEW j \in S PROVE i <= j
  <2>1. i \in Nat /\ j \in Nat /\ <<j, i>> \notin R
    BY <1>2
  <2>2. ~(j < i)
    BY <1>3, <2>1
  <2> QED
    BY <2>1, <2>2
<1> QED
  BY <1>4

\* The first of a sequence that is in a set is in the set.
LEMMA FirstIsIn ==
    ASSUME NEW paths, NEW S, DOMAIN paths \subseteq Nat
    PROVE  FirstIn(paths, S) \in S \cup {NoPath}
<1> DEFINE among == {i \in DOMAIN paths : paths[i] \in S}
<1>1. CASE among = {}
  BY <1>1 DEF FirstIn
<1>2. CASE among # {}
  <2> DEFINE least == CHOOSE i \in among : \A j \in among : i <= j
  <2>1. \E i \in among : \A j \in among : i <= j
    BY <1>2, LeastOf
  <2>2. least \in among
    <3> HIDE DEF among
    <3> QED
      BY <2>1
  <2>3. FirstIn(paths, S) = paths[least]
    BY <1>2 DEF FirstIn
  <2> QED
    BY <2>2, <2>3
<1> QED
  BY <1>1, <1>2

\* A lease is on a file.
LEMMA LeaseIsFile == \A f : TargetLease(f) \in RepairPaths \cup {NoPath}
<1> TAKE f
<1>1. DOMAIN RankedTargets(f) \subseteq Nat
  <2> DEFINE S == {FirstIn(ledger.owners, RepairPaths \ Tests),
                   FirstIn(ledger.touched, RepairPaths \ (Manifests \cup Range(ledger.owners))),
                   FirstIn(ledger.touched, Manifests),
                   FirstIn(ledger.touched, IF f.class \in {"dependency", "feature"} THEN Manifests ELSE {}),
                   FirstIn(ledger.touched, RepairPaths),
                   IF f.path \in Tests THEN NoPath ELSE f.path}
  <2>1. RankedTargets(f) \in Seq(S)
    <3>1. <<IF f.path \in Tests THEN NoPath ELSE f.path>> \in Seq(S)
      OBVIOUS
    <3>2. /\ <<FirstIn(ledger.owners, RepairPaths \ Tests),
               FirstIn(ledger.touched, RepairPaths \ (Manifests \cup Range(ledger.owners))),
               FirstIn(ledger.touched, Manifests)>> \in Seq(S)
          /\ <<FirstIn(ledger.touched, IF f.class \in {"dependency", "feature"} THEN Manifests ELSE {}),
               FirstIn(ledger.touched, RepairPaths),
               FirstIn(ledger.owners, RepairPaths \ Tests)>> \in Seq(S)
      OBVIOUS
    <3> HIDE DEF S
    <3> QED
      BY <3>1, <3>2 DEF RankedTargets
  <2> QED
    BY <2>1
<1> QED
  BY <1>1, FirstIsIn DEF TargetLease

\* So is a target, once a repair has an owner.
LEMMA TargetIsFile ==
    ASSUME CaseTypes, NEW f, NEW leased \in RepairPaths \cup {NoPath}, NEW owner \in RepairPaths
    PROVE  PatchTarget(leased, f, owner) \in RepairPaths
  BY LeaseIsFile DEF PatchTarget

\* A failure names a file or none, and so does the ledger.
LEMMA FirstOwnerIsFile ==
    ASSUME CaseTypes, NEW f \in Failures \cup {NoFailure}
    PROVE  f.path \in RepairPaths \cup {NoPath} /\ FirstOwner(f) \in RepairPaths \cup {NoPath}
<1>1. ledger.owners \in Seq(RepairPaths) /\ ledger.touched \in Seq(RepairPaths)
  BY LedgersAssumption DEF CaseTypes, CaseTypeOK
<1>2. f.path \in RepairPaths \cup {NoPath}
  BY FailuresAssumption DEF NoFailure
<1>3. DOMAIN (ledger.owners \o ledger.touched) \subseteq Nat
  <2>1. \A S : \A s, t \in Seq(S) : s \o t \in Seq(S)
    OBVIOUS
  <2>2. ledger.owners \o ledger.touched \in Seq(RepairPaths)
    BY <1>1, <2>1
  <2>3. \A S : \A s \in Seq(S) : DOMAIN s \subseteq Nat
    OBVIOUS
  <2> QED
    BY <2>2, <2>3
<1>4. FirstIn(ledger.owners \o ledger.touched, RepairPaths) \in RepairPaths \cup {NoPath}
  BY <1>3, FirstIsIn
<1> QED
  BY <1>2, <1>4 DEF FirstOwner

\* What a sync leaves: a requirement is new only where a patch is due.
LEMMA SyncType ==
    ASSUME CaseTypes, NEW r \in RepairStates, NEW paths, NEW req \in Requirements, NEW f,
           r.phase # "none" => r.owner \in RepairPaths, Sync(r, paths, req, f)
    PROVE  /\ requirement' \in Requirements /\ lease' \in RepairPaths \cup {NoPath}
           /\ r.phase # "patch" => requirement' = req
<1>1. lease' \in RepairPaths \cup {NoPath}
  BY LeaseIsFile DEF Sync
<1>2. r.phase = "patch" => PatchTarget(lease, f, r.owner) \in RepairPaths
  BY TargetIsFile DEF CaseTypes, CaseTypeOK
<1>3. r.phase # "patch" => requirement' = req
  BY DEF Sync, Primed
<1>4. requirement' \in Requirements
  BY <1>2 DEF Sync, Primed, Require, Requirements
<1> QED
  BY <1>1, <1>3, <1>4

\* The repair a failure starts, and when it starts one.
LEMMA RepairStarts ==
    ASSUME CaseTypes, NEW f \in Failures
    PROVE  /\ RepairAfter(f) \in RepairStates
           /\ RepairAfter(f).phase \in {"none", "anchor", "patch"}
           /\ RepairAfter(f).phase = "none" <=> FirstOwner(f) = NoPath
           /\ RepairAfter(f).phase # "none" => RepairAfter(f).owner \in RepairPaths
<1>1. f.path \in RepairPaths \cup {NoPath} /\ FirstOwner(f) \in RepairPaths \cup {NoPath}
  BY FirstOwnerIsFile
<1>2. CASE LeaseDrives(f)
  <2>1. TargetLease(f) \in RepairPaths
    BY <1>2, LeaseIsFile DEF LeaseDrives
  <2>2. FirstOwner(f) # NoPath
    BY <1>2, RepairPathsAssumption DEF LeaseDrives, FirstOwner, RepairPaths
  <2>3. /\ RepairAfter(f).phase = "patch" /\ RepairAfter(f).owner = TargetLease(f)
        /\ RepairAfter(f) = [phase |-> "patch", owner |-> TargetLease(f), anchor |-> FALSE,
                             suggested |-> FALSE, loaded |-> NoPath, invalid |-> 0]
    BY <1>2 DEF RepairAfter, NoRepair
  <2> QED
    BY <2>1, <2>2, <2>3 DEF RepairStates, Phases
<1>3. CASE ~LeaseDrives(f) /\ FirstOwner(f) # NoPath
  <2>1. /\ RepairAfter(f).phase = "anchor" /\ RepairAfter(f).owner = FirstOwner(f)
        /\ RepairAfter(f) = [phase |-> "anchor", owner |-> FirstOwner(f), anchor |-> f.path # NoPath,
                             suggested |-> FALSE, loaded |-> NoPath, invalid |-> 0]
    BY <1>3 DEF RepairAfter, NoRepair
  <2> QED
    BY <1>1, <1>3, <2>1 DEF RepairStates, Phases
<1>4. CASE ~LeaseDrives(f) /\ FirstOwner(f) = NoPath
  BY <1>4 DEF RepairAfter, RepairStates, NoRepair, Phases
<1> QED
  BY <1>2, <1>3, <1>4

-----------------------------------------------------------------------------
\* The actions a reply is made of.
LEMMA ActionFacts ==
    /\ \A p \in RepairPaths : /\ \A k \in Ranges : Read(p, k) \in RepairActions
                              /\ Write(p) \in RepairActions /\ Preview(p) \in RepairActions
    /\ {Apply, OtherPlan, FastPlan, FastCommand} \subseteq RepairActions
    /\ \A a \in RepairActions : /\ a.path \in RepairPaths \cup {NoPath}
                                /\ IsRead(a) => a.path \in RepairPaths /\ a.range \in Ranges
                                /\ a.kind = "otherplan" => a = OtherPlan
<1>1. \A p \in RepairPaths : /\ \A k \in Ranges : Read(p, k) \in RepairActions
                             /\ Write(p) \in RepairActions /\ Preview(p) \in RepairActions
  BY DEF RepairActions, Reads
<1>2. {Apply, OtherPlan, FastPlan, FastCommand} \subseteq RepairActions
  BY DEF RepairActions, FastLoops
<1>3. ASSUME NEW a \in RepairActions
      PROVE  /\ a.path \in RepairPaths \cup {NoPath}
             /\ IsRead(a) => a.path \in RepairPaths /\ a.range \in Ranges
             /\ a.kind = "otherplan" => a = OtherPlan
  <2> USE DEF RepairActions, Reads, FastLoops, Read, Write, Preview, Anchors, Apply, Explore, OtherPlan,
              FastPlan, FastCommand, IsRead
  <2>1. CASE a \in Reads
    <3>1. PICK p \in RepairPaths, k \in Ranges : a = Read(p, k)
      BY <2>1
    <3>2. a.kind = "read" /\ a.path = p /\ a.range = k
      BY <3>1
    <3> QED
      BY <3>2
  <2>2. CASE a \in {Explore, Apply, OtherPlan} \cup FastLoops
    BY <2>2
  <2>3. CASE \E p \in RepairPaths : a \in {Anchors(p), Preview(p), Write(p)}
    BY <2>3
  <2> QED
    BY <2>1, <2>2, <2>3
<1> QED
  BY <1>1, <1>2, <1>3

\* A batch is one action, an edit with a fast loop, or the two validations.
LEMMA BatchFacts ==
    ASSUME NEW b \in Batches
    PROVE  /\ b \in Seq(RepairActions) /\ Len(b) \in {1, 2}
           /\ Len(b) = 2 => \/ b[1].kind = "write" /\ b[2] \in FastLoops
                            \/ b[1] = OtherPlan /\ b[2] = FastCommand
<1>1. CASE \E a \in RepairActions : b = <<a>>
  BY <1>1
<1>2. CASE \E p \in RepairPaths, f \in FastLoops : b = <<Write(p), f>>
  <2>1. PICK p \in RepairPaths, f \in FastLoops : b = <<Write(p), f>>
    BY <1>2
  <2>2. Write(p) \in RepairActions /\ f \in RepairActions /\ Write(p).kind = "write"
    BY ActionFacts DEF FastLoops, Write
  <2> QED
    BY <2>1, <2>2
<1>3. CASE b = <<OtherPlan, FastCommand>>
  BY <1>3, ActionFacts
<1> QED
  BY <1>1, <1>2, <1>3 DEF Batches

\* Normalizing yields one of the batches.
LEMMA NormalizedFacts ==
    ASSUME CaseTypes, PhaseKnows, NEW b \in Batches
    PROVE  Normalized(b) \in Batches
<1>1. repair.phase = "patch" => Target \in RepairPaths
  BY TargetIsFile DEF CaseTypes, CaseTypeOK, PhaseKnows, Target
<1>2. repair.phase = "patch" => <<Read(Target, "elsewhere")>> \in Batches
  BY <1>1, ActionFacts DEF Batches, Ranges
<1>3. <<Apply>> \in Batches
  BY ActionFacts DEF Batches
<1> QED
  BY <1>2, <1>3 DEF Normalized

\* What a reply that fits has not: an edit before the patch, another validation during a repair.
LEMMA FittingReply ==
    ASSUME CaseTypes, PhaseKnows, NEW b \in Batches, FitsPhase(b)
    PROVE  /\ repair.phase \in {"anchor", "implementation"} => \A i \in DOMAIN b : ~IsWrite(b[i])
           /\ repair.phase # "none" => \A i \in DOMAIN b : b[i] # OtherPlan
<1>1. /\ b \in Seq(RepairActions) /\ Len(b) \in {1, 2}
      /\ Len(b) = 2 => \/ b[1].kind = "write" /\ b[2] \in FastLoops
                       \/ b[1] = OtherPlan /\ b[2] = FastCommand
  BY BatchFacts
<1>2. \A i \in DOMAIN b : b[i] \in Range(b)
  BY DEF Range
<1>3. DOMAIN b = 1..Len(b) /\ Head(b) = b[1] /\ b # <<>>
  BY <1>1
<1>4. repair.phase \in Phases
  BY DEF CaseTypes, CaseTypeOK
<1>5. CASE repair.phase # "none" /\ Pending
  <2>1. \A i \in DOMAIN b : IsRead(b[i])
    BY <1>2, <1>5 DEF FitsPhase, ReadsRequired
  <2> QED
    BY <2>1 DEF IsRead, IsWrite, OtherPlan
<1>6. CASE repair.phase = "anchor" /\ ~Pending
  <2>1. \A i \in DOMAIN b : SatisfiesEvidence(b[i])
    BY <1>2, <1>6 DEF FitsPhase
  <2> QED
    BY <1>6, <2>1 DEF SatisfiesEvidence, IsRead, IsWrite, OtherPlan
<1>7. CASE repair.phase = "implementation" /\ ~Pending
  <2>1. \A i \in DOMAIN b : b[i] = Read(repair.owner, "elsewhere")
    BY <1>2, <1>7 DEF FitsPhase
  <2> QED
    BY <1>7, <2>1 DEF Read, IsWrite, OtherPlan
<1>8. CASE repair.phase = "patch" /\ ~Pending
  <2>1. PatchTurn(b)
    BY <1>8 DEF FitsPhase
  <2>2. b[1].kind # "otherplan"
    BY <1>3, <2>1 DEF PatchTurn, Apply, Preview, OwnerWrite, Write
  <2> QED
    BY <1>1, <1>3, <1>8, <2>2 DEF OtherPlan, FastLoops, FastPlan, FastCommand
<1>9. CASE repair.phase = "rerun" /\ ~Pending
  <2>1. \A i \in DOMAIN b : b[i] \in FastLoops
    BY <1>2, <1>9 DEF FitsPhase
  <2> QED
    BY <1>9, <2>1 DEF FastLoops, FastPlan, FastCommand, OtherPlan
<1> QED
  BY <1>4, <1>5, <1>6, <1>7, <1>8, <1>9 DEF Phases

-----------------------------------------------------------------------------
\* What a read makes of a repair.
LEMMA AfterRead ==
    ASSUME CaseInv, NEW a, a.path \in RepairPaths, NEW t \in BOOLEAN, NEW l \in BOOLEAN, NEW e \in BOOLEAN,
           repair.phase # "none"
    PROVE  LET r == RepairAfterRead(a, t, l, e)
           IN  /\ r \in RepairStates /\ r.phase # "none" /\ r.owner \in RepairPaths
               /\ r.phase = "implementation" => r.anchor
               /\ r.phase \in {"anchor", "implementation"} => repair.phase \in {"anchor", "implementation"}
               /\ r.phase = "rerun" => repair.phase = "rerun"
<1> DEFINE r == RepairAfterRead(a, t, l, e)
<1>0. "patch" \in Phases /\ "implementation" \in Phases /\ 0 \in 0..1
  BY DEF Phases
<1>1. repair \in RepairStates /\ repair.owner \in RepairPaths /\ LeaseInForce \in RepairPaths \cup {NoPath}
  BY LeaseIsFile DEF CaseInv, CaseTypes, CaseTypeOK, RepairStates, PhaseKnows, LeaseInForce
<1>2. CASE repair.phase = "anchor" /\ repair.anchor /\ a.range = "anchor"
  <2>1. CASE ~t
    <3>1. r = [repair EXCEPT !.phase = "patch", !.loaded = a.path, !.invalid = 0]
      BY <1>2, <2>1 DEF RepairAfterRead
    <3>2. r \in RepairStates
      BY <1>0, <1>1, <3>1 DEF RepairStates
    <3>3. r.phase = "patch" /\ r.owner = repair.owner
      BY <1>1, <3>1 DEF RepairStates
    <3> QED
      BY <1>1, <3>2, <3>3
  <2>2. CASE t /\ LeaseInForce \notin {NoPath, a.path}
    <3>1. r = [repair EXCEPT !.phase = "patch", !.owner = LeaseInForce, !.loaded = NoPath,
                             !.suggested = FALSE, !.invalid = 0]
      BY <1>2, <2>2 DEF RepairAfterRead
    <3>2. r \in RepairStates
      BY <1>0, <1>1, <3>1 DEF RepairStates
    <3>3. r.phase = "patch" /\ r.owner = LeaseInForce
      BY <1>1, <3>1 DEF RepairStates
    <3> QED
      BY <1>1, <2>2, <3>2, <3>3
  <2>3. CASE t /\ LeaseInForce \in {NoPath, a.path}
    <3>1. r = [repair EXCEPT !.phase = "implementation", !.suggested = l, !.loaded = NoPath, !.invalid = 0]
      BY <1>2, <2>3 DEF RepairAfterRead
    <3>2. r \in RepairStates
      BY <1>0, <1>1, <3>1 DEF RepairStates
    <3>3. r.phase = "implementation" /\ r.owner = repair.owner /\ r.anchor = repair.anchor
      BY <1>1, <3>1 DEF RepairStates
    <3> QED
      BY <1>1, <1>2, <3>2, <3>3
  <2> QED
    BY <2>1, <2>2, <2>3
<1>3. CASE repair.phase = "implementation" /\ repair.anchor /\ a.range = "elsewhere"
  <2>1. r = [repair EXCEPT !.phase = "patch", !.loaded = a.path, !.invalid = 0]
    BY <1>3 DEF RepairAfterRead
  <2>2. r \in RepairStates
    BY <1>0, <1>1, <2>1 DEF RepairStates
  <2>3. r.phase = "patch" /\ r.owner = repair.owner
    BY <1>1, <2>1 DEF RepairStates
  <2> QED
    BY <1>1, <2>2, <2>3
<1>4. CASE repair.phase = "patch" /\ a.path = LeaseInForce
  <2> DEFINE n == IF a.path \in Manifests \/ a.range # "whole" \/ e THEN a.path ELSE NoPath
  <2>1. r = [repair EXCEPT !.invalid = 0, !.loaded = n]
    BY <1>4 DEF RepairAfterRead
  <2>2. n \in RepairPaths \cup {NoPath}
    OBVIOUS
  <2> HIDE DEF n
  <2>3. r \in RepairStates
    BY <1>0, <1>1, <2>1, <2>2 DEF RepairStates
  <2>4. r.phase = "patch" /\ r.owner = repair.owner
    BY <1>1, <1>4, <2>1 DEF RepairStates
  <2> QED
    BY <1>1, <2>3, <2>4
<1>5. CASE r = repair
  BY <1>1, <1>5 DEF CaseInv, PhaseKnows
<1> QED
  BY <1>2, <1>3, <1>4, <1>5 DEF RepairAfterRead

\* What reading a file leaves of the repair.
LEMMA ObserveKeeps ==
    ASSUME CaseInv, NEW a, a.path \in RepairPaths, ObserveRead(a), UNCHANGED ledgerVars
    PROVE  /\ observed' \subseteq RepairPaths /\ repair' \in RepairStates
           /\ requirement' \in Requirements /\ lease' \in RepairPaths \cup {NoPath}
           /\ PhaseKnows' /\ (repair'.phase = "none" <=> repair.phase = "none")
           /\ repair'.phase \in {"anchor", "implementation"} => repair.phase \in {"anchor", "implementation"}
<1>1. observed' \subseteq RepairPaths
  BY DEF ObserveRead, CaseInv, CaseTypes, CaseTypeOK
<1>2. /\ requirement \in Requirements /\ repair \in RepairStates /\ lease \in RepairPaths \cup {NoPath}
      /\ flags' = flags /\ PhaseKnows /\ CaseTypes
  BY DEF CaseInv, CaseTypes, CaseTypeOK, Requirements, RepairStates, ledgerVars
<1>3. PICK settles \in BOOLEAN :
        IF repair.phase # "none" /\ a.path \in {repair.owner, LeaseInForce}
        THEN \E t, l, e \in BOOLEAN :
                /\ repair' = RepairAfterRead(a, t, l, e)
                /\ Sync(repair', observed', RequirementAfter(a, settles), failure)
        ELSE requirement' = RequirementAfter(a, settles) /\ UNCHANGED <<repair, lease>>
  BY DEF ObserveRead, Settles
<1> DEFINE req == RequirementAfter(a, settles)
<1>4. req \in Requirements /\ (requirement = NoRequirement => req = NoRequirement)
  <2>1. requirement.path # NoPath \/ req = requirement
    BY RepairPathsAssumption DEF RequirementAfter
  <2> QED
    <3>1. req = requirement \/ req = [requirement EXCEPT !.done = settles]
      BY DEF RequirementAfter
    <3>2. [requirement EXCEPT !.done = settles] \in Requirements
      BY <1>2 DEF Requirements
    <3> HIDE DEF req
    <3>3. NoRequirement.path = NoPath
      BY DEF NoRequirement
    <3> QED
      BY <1>2, <2>1, <3>1, <3>2, <3>3
<1> HIDE DEF req
<1>5. CASE repair.phase # "none" /\ a.path \in {repair.owner, LeaseInForce}
  <2>1. PICK t, l, e \in BOOLEAN : /\ repair' = RepairAfterRead(a, t, l, e)
                                   /\ Sync(repair', observed', req, failure)
    BY <1>3, <1>5 DEF req
  <2>2. /\ repair' \in RepairStates /\ repair'.phase # "none" /\ repair'.owner \in RepairPaths
        /\ repair'.phase = "implementation" => repair'.anchor
        /\ repair'.phase \in {"anchor", "implementation"} => repair.phase \in {"anchor", "implementation"}
        /\ repair'.phase = "rerun" => repair.phase = "rerun"
    BY <1>5, <2>1, AfterRead
  <2> DEFINE r == repair'
  <2>3. /\ requirement' \in Requirements /\ lease' \in RepairPaths \cup {NoPath}
        /\ r.phase # "patch" => requirement' = req
    <3>1. r \in RepairStates /\ r.owner \in RepairPaths /\ Sync(r, observed', req, failure)
      BY <2>1, <2>2
    <3> HIDE DEF r
    <3> QED
      BY <1>2, <1>4, <3>1, SyncType
  <2> QED
    BY <1>1, <1>2, <1>4, <1>5, <2>2, <2>3 DEF PhaseKnows
<1>6. CASE ~(repair.phase # "none" /\ a.path \in {repair.owner, LeaseInForce})
  <2>1. requirement' = req /\ repair' = repair /\ lease' = lease
    BY <1>3, <1>6 DEF req
  <2> QED
    BY <1>1, <1>2, <1>4, <2>1 DEF PhaseKnows
<1> QED
  BY <1>5, <1>6

\* What looking at a reply by the phase leaves.
LEMMA PhaseCheckKeeps ==
    ASSUME CaseInv, NEW n \in 0..1, PhaseChecked(n), UNCHANGED ledgerVars
    PROVE  /\ repair' \in RepairStates /\ requirement' \in Requirements /\ lease' \in RepairPaths \cup {NoPath}
           /\ PhaseKnows' /\ repair'.phase = repair.phase
<1>1. /\ requirement \in Requirements /\ repair \in RepairStates /\ lease \in RepairPaths \cup {NoPath}
      /\ flags' = flags /\ PhaseKnows /\ CaseTypes
  BY DEF CaseInv, CaseTypes, CaseTypeOK, Requirements, RepairStates, ledgerVars
<1>2. CASE repair.phase = "none"
  BY <1>1, <1>2 DEF PhaseChecked, PhaseKnows
<1>3. CASE repair.phase # "none"
  <2>1. repair' = [repair EXCEPT !.invalid = n] /\ Sync(repair, observed, requirement, failure)
    BY <1>3 DEF PhaseChecked
  <2>2. /\ repair' \in RepairStates /\ repair'.phase = repair.phase /\ repair'.owner = repair.owner
        /\ repair'.anchor = repair.anchor
    BY <1>1, <2>1 DEF RepairStates
  <2>3. /\ requirement' \in Requirements /\ lease' \in RepairPaths \cup {NoPath}
        /\ repair.phase # "patch" => requirement' = requirement
    BY <1>1, <2>1, SyncType DEF PhaseKnows
  <2> QED
    BY <1>1, <2>2, <2>3 DEF PhaseKnows
<1> QED
  BY <1>2, <1>3

-----------------------------------------------------------------------------
\* Before the first reply.
LEMMA CaseInitInv == CaseInit => CaseInv
<1> SUFFICES ASSUME CaseInit PROVE CaseInv
  OBVIOUS
<1>1. CaseTypes
  <2>1. ledger \in Ledgers /\ failure \in Failures \cup {NoFailure} /\ failed \in 0..MaxFailures
    BY RepairBoundsAssumption DEF CaseInit
  <2>2. /\ repair \in RepairStates /\ requirement \in Requirements
    BY DEF CaseInit, NoRepair, RepairStates, Phases, NoRequirement, Requirements
  <2>3. <<>> \in Seq({FastPlan, OtherPlan}) /\ <<>> \in Seq(RepairActions)
    OBVIOUS
  <2> QED
    BY <2>1, <2>2, <2>3 DEF CaseInit, CaseTypes, CaseTypeOK, RepairStates, Requirements
<1>2. PhaseFollowsLedger /\ PhaseKnows /\ RestFits
  BY DEF CaseInit, PhaseFollowsLedger, PhaseKnows, RestFits, NoRepair, NoRequirement
<1>3. BeforeFailure /\ RerunComesFirst
  BY DEF CaseInit, BeforeFailure, RerunComesFirst
<1> QED
  BY <1>1, <1>2, <1>3 DEF CaseInv

\* Whoever stops acting, without a verdict, leaves the run as it stands.
LEMMA StopsAt ==
    ASSUME CaseInv, NEW step \in {"reply", "inject", "reread", "dead"}, At(step), Unfinished,
           step # "dead" /\ past = "failed" /\ FirstOwner(failure) # NoPath =>
              queue = <<>> \/ Head(queue) = FastPlan,
           repair' \in RepairStates, requirement' \in Requirements, lease' \in RepairPaths \cup {NoPath},
           observed' \subseteq RepairPaths,
           marks' \in [wrote : BOOLEAN, lastWrite : RepairPaths \cup {NoPath}, scaffold : BOOLEAN,
                       previewed : RepairPaths \cup {NoPath}, locks : BOOLEAN, refuted : BOOLEAN],
           PhaseKnows', repair'.phase = "none" <=> repair.phase = "none"
    PROVE  CaseInv'
<1> USE DEF CaseInv
<1>1. UNCHANGED <<ledger, failure, flags, failed, standing, queue, past>>
  BY DEF Unfinished, ledgerVars
<1>2. loop'.at = step /\ loop'.rest = <<>> /\ loop'.wrote = loop.wrote
  BY DEF At, CaseTypes
<1>3. CaseTypes'
  <2>1. loop' \in [at : {"reply", "acting", "draining", "inject", "reread", "done", "dead"},
                   rest : Seq(RepairActions), wrote : BOOLEAN]
    <3>1. <<>> \in Seq(RepairActions)
      OBVIOUS
    <3>2. step \in {"reply", "acting", "draining", "inject", "reread", "done", "dead"}
      OBVIOUS
    <3>3. loop' = [at |-> step, rest |-> <<>>, wrote |-> loop.wrote] /\ loop.wrote \in BOOLEAN
      BY DEF At, CaseTypes
    <3> QED
      BY <3>1, <3>2, <3>3
  <2> QED
    BY <1>1, <1>2, <2>1 DEF CaseTypes, CaseTypeOK, RepairStates, Requirements
<1>4. FirstOwner(failure)' = FirstOwner(failure)
  BY <1>1 DEF FirstOwner
<1>5. PhaseFollowsLedger'
  BY <1>1, <1>4 DEF PhaseFollowsLedger
<1>6. RestFits' /\ BeforeFailure'
  BY <1>1, <1>2 DEF RestFits, BeforeFailure
<1>7. RerunComesFirst'
  BY <1>1, <1>2, <1>4 DEF RerunComesFirst
<1> QED
  BY <1>3, <1>5, <1>6, <1>7

\* The types by themselves, for steps that leave the repair.
LEMMA CaseTypesMean ==
    ASSUME CaseInv
    PROVE  /\ repair \in RepairStates /\ requirement \in Requirements /\ lease \in RepairPaths \cup {NoPath}
           /\ observed \subseteq RepairPaths /\ PhaseKnows
           /\ marks \in [wrote : BOOLEAN, lastWrite : RepairPaths \cup {NoPath}, scaffold : BOOLEAN,
                         previewed : RepairPaths \cup {NoPath}, locks : BOOLEAN, refuted : BOOLEAN]
  BY DEF CaseInv, CaseTypes, CaseTypeOK, RepairStates, Requirements

\* A reply that is corrected, is garbled or repeats itself.
LEMMA ReplyStops == CaseInv /\ (ReplyCorrected \/ ReplyGarbled \/ ReplyRepeats) => CaseInv'
<1> SUFFICES ASSUME CaseInv, ReplyCorrected \/ ReplyGarbled \/ ReplyRepeats PROVE CaseInv'
  OBVIOUS
<1>1. queue = <<>> /\ UNCHANGED contextVars /\ Unfinished /\ UNCHANGED ledgerVars
  BY DEF ReplyCorrected, ReplyGarbled, ReplyRepeats, Replying, Unfinished
<1>2. \E step \in {"reply", "inject", "reread", "dead"} : At(step)
  BY DEF ReplyCorrected, ReplyGarbled, ReplyRepeats
<1>3. /\ repair' \in RepairStates /\ requirement' \in Requirements /\ lease' \in RepairPaths \cup {NoPath}
      /\ PhaseKnows' /\ repair'.phase = repair.phase
  <2>1. CASE ReplyGarbled
    BY <1>1, <2>1, CaseTypesMean DEF ReplyGarbled, PhaseKnows, ledgerVars
  <2>2. CASE ReplyCorrected \/ ReplyRepeats
    <3>1. \E n \in 0..1 : PhaseChecked(n)
      BY <2>2 DEF ReplyCorrected, ReplyRepeats
    <3> QED
      BY <1>1, <3>1, PhaseCheckKeeps
  <2> QED
    BY <2>1, <2>2
<1>4. marks' = marks /\ observed' = observed
  BY <1>1 DEF contextVars
<1> QED
  BY <1>1, <1>2, <1>3, <1>4, CaseTypesMean, StopsAt

\* The controller's own read, and the turns without one.
LEMMA ControllerReads == CaseInv /\ Controller => CaseInv'
<1> SUFFICES ASSUME CaseInv, Controller PROVE CaseInv'
  OBVIOUS
<1>1. /\ loop.at \in {"inject", "reread"} /\ Unfinished /\ UNCHANGED <<marks, ledgerVars>>
      /\ \E step \in {"reply", "inject", "reread", "dead"} :
            At(step) /\ (step # "dead" => NotInjected \/ ReadInjected)
  BY DEF Controller, NotInjected, ReadInjected, InjectionFails, Injects, Unfinished, contextVars
<1>2. /\ observed' \subseteq RepairPaths /\ repair' \in RepairStates
      /\ requirement' \in Requirements /\ lease' \in RepairPaths \cup {NoPath}
      /\ PhaseKnows' /\ (repair'.phase = "none" <=> repair.phase = "none")
  <2>1. CASE UNCHANGED <<repair, requirement, lease, contextVars>>
    BY <1>1, <2>1, CaseTypesMean DEF PhaseKnows, ledgerVars, contextVars
  <2>2. CASE ReadInjected
    <3>1. PICK a \in RequiredReads : ObserveRead(a)
      BY <2>2 DEF ReadInjected
    <3>2. a.path \in RepairPaths
      <4>1. CASE Pending
        <5>1. a.path = requirement.path
          BY <3>1, <4>1 DEF RequiredReads, Read
        <5> QED
          BY <4>1, <5>1, CaseTypesMean DEF Pending, Requirements
      <4>2. CASE ~Pending
        <5>1. repair.phase \in {"anchor", "implementation"} /\ a.path = repair.owner
          BY <3>1, <4>2 DEF RequiredReads, Read
        <5> QED
          BY <5>1, CaseTypesMean DEF PhaseKnows
      <4> QED
        BY <4>1, <4>2
    <3> QED
      BY <1>1, <3>1, <3>2, ObserveKeeps
  <2> QED
    BY <2>1, <2>2 DEF Controller, NotInjected, InjectionFails
<1>3. past = "failed" /\ FirstOwner(failure) # NoPath => queue = <<>> \/ Head(queue) = FastPlan
  BY <1>1 DEF CaseInv, RerunComesFirst
<1>4. marks' = marks
  BY <1>1
<1> QED
  BY <1>1, <1>2, <1>3, <1>4, CaseTypesMean, StopsAt

-----------------------------------------------------------------------------
\* The action at hand, and what is left after it.
LEMMA ActFacts ==
    ASSUME CaseInv, loop.rest # <<>>
    PROVE  /\ Act \in RepairActions /\ Act = loop.rest[1] /\ 1 \in DOMAIN loop.rest
           /\ Tail(loop.rest) \in Seq(RepairActions)
           /\ \A i \in DOMAIN Tail(loop.rest) : \E k \in DOMAIN loop.rest : Tail(loop.rest)[i] = loop.rest[k]
           /\ loop.at = "draining" => Act \in {FastPlan, OtherPlan} /\ Tail(loop.rest) = <<>>
<1>1. loop.rest \in Seq(RepairActions)
  BY DEF CaseInv, CaseTypes
<1>2. /\ Act \in RepairActions /\ Act = loop.rest[1] /\ 1 \in DOMAIN loop.rest
      /\ Tail(loop.rest) \in Seq(RepairActions) /\ Len(Tail(loop.rest)) = Len(loop.rest) - 1
      /\ Len(loop.rest) \in Nat
  BY <1>1 DEF Act
<1>3. ASSUME NEW i \in DOMAIN Tail(loop.rest)
      PROVE  i + 1 \in DOMAIN loop.rest /\ Tail(loop.rest)[i] = loop.rest[i + 1]
  BY <1>1, <1>2, <1>3
<1>4. loop.at = "draining" => Act \in {FastPlan, OtherPlan} /\ Tail(loop.rest) = <<>>
  <2>1. loop.at = "draining" => Len(loop.rest) = 1 /\ loop.rest[1] \in {FastPlan, OtherPlan}
    BY DEF CaseInv, RestFits
  <2>2. \A s \in Seq(RepairActions) : Len(s) = 0 => s = <<>>
    OBVIOUS
  <2>3. Len(loop.rest) = 1 => Tail(loop.rest) = <<>>
    <3> DEFINE t == Tail(loop.rest)
    <3>1. t \in Seq(RepairActions) /\ Len(t) = Len(loop.rest) - 1 /\ Len(loop.rest) \in Nat
      BY <1>2
    <3> HIDE DEF t
    <3> QED
      <4>1. Len(loop.rest) = 1 => t = <<>>
        BY <2>2, <3>1
      <4> QED
        BY <4>1 DEF t
  <2> QED
    BY <1>2, <2>1, <2>3
<1> QED
  BY <1>2, <1>3, <1>4

\* The turn goes on with its next action.
LEMMA GoesOn ==
    ASSUME CaseInv, loop.at = "acting", loop.rest # <<>>,
           loop' \in LoopStates, loop'.at = "acting", loop'.rest = Tail(loop.rest),
           loop'.wrote => loop.wrote \/ (flags.required => flags'.patched),
           UNCHANGED <<ledger, failure, failed, past, queue>>,
           flags' \in FlagStates, flags'.required = flags.required, flags'.rerun = flags.rerun,
           flags.patched => flags'.patched, flags'.patched => flags.patched \/ flags.required,
           standing' \in [green : BOOLEAN, failing : BOOLEAN],
           past = "failed" /\ FirstOwner(failure) # NoPath => ~standing'.green /\ standing'.failing,
           repair' \in RepairStates, requirement' \in Requirements, lease' \in RepairPaths \cup {NoPath},
           observed' \subseteq RepairPaths, marks' \in MarkStates, PhaseKnows',
           repair'.phase = "none" <=> repair.phase = "none",
           repair'.phase \in {"anchor", "implementation"} => repair.phase \in {"anchor", "implementation"}
    PROVE  CaseInv'
<1> USE DEF CaseInv
<1>1. /\ Tail(loop.rest) \in Seq(RepairActions)
      /\ \A i \in DOMAIN Tail(loop.rest) : \E k \in DOMAIN loop.rest : Tail(loop.rest)[i] = loop.rest[k]
  BY ActFacts
<1>2. CaseTypes'
  BY DEF CaseTypes, CaseTypeOK, RepairStates, Requirements, LoopStates, FlagStates, MarkStates
<1>3. FirstOwner(failure)' = FirstOwner(failure)
  BY DEF FirstOwner
<1>4. PhaseFollowsLedger'
  BY <1>3 DEF PhaseFollowsLedger
<1>5. RestFits'
  BY <1>1 DEF RestFits
<1>6. BeforeFailure'
  BY DEF BeforeFailure
<1>7. RerunComesFirst'
  <2> SUFFICES ASSUME past = "failed", FirstOwner(failure) # NoPath
               PROVE  /\ flags'.required /\ ~flags'.rerun /\ ~standing'.green /\ standing'.failing
                      /\ loop'.wrote => flags'.patched
                      /\ \A i \in DOMAIN loop'.rest : loop'.rest[i] # OtherPlan
    BY <1>3 DEF RerunComesFirst
  <2>1. \A i \in DOMAIN loop.rest : loop.rest[i] # OtherPlan
    BY DEF RerunComesFirst
  <2>2. \A i \in DOMAIN loop'.rest : loop'.rest[i] # OtherPlan
    BY <1>1, <2>1
  <2> QED
    BY <2>2 DEF RerunComesFirst
<1> QED
  BY <1>2, <1>4, <1>5, <1>6, <1>7

\* The parts that an action of the turn leaves as they are.
LEMMA NextActFacts ==
    ASSUME CaseInv, loop.rest # <<>>, NextAct
    PROVE  loop' \in LoopStates /\ loop'.at = loop.at /\ loop'.rest = Tail(loop.rest) /\ loop'.wrote = loop.wrote
<1>1. Tail(loop.rest) \in Seq(RepairActions) /\ loop \in LoopStates
  BY ActFacts DEF CaseInv, CaseTypes, LoopStates
<1>2. loop' = [loop EXCEPT !.rest = Tail(loop.rest)]
  BY DEF NextAct
<1> DEFINE t == Tail(loop.rest)
<1> HIDE DEF t
<1>3. loop' = [at |-> loop.at, rest |-> t, wrote |-> loop.wrote]
  BY <1>1, <1>2 DEF LoopStates, t
<1>4. loop.at \in {"reply", "acting", "draining", "inject", "reread", "done", "dead"} /\ loop.wrote \in BOOLEAN
      /\ t \in Seq(RepairActions)
  BY <1>1 DEF LoopStates, t
<1> QED
  BY <1>3, <1>4 DEF LoopStates, t

\* The flags, marks and verdicts by themselves, and what they say after the first failure.
LEMMA RunFacts ==
    ASSUME CaseInv
    PROVE  /\ flags \in FlagStates /\ marks \in MarkStates /\ standing \in [green : BOOLEAN, failing : BOOLEAN]
           /\ past = "failed" /\ FirstOwner(failure) # NoPath => ~standing.green /\ standing.failing
           /\ past = "failed" /\ FirstOwner(failure) # NoPath /\ loop.at \in {"acting", "draining"} /\ loop.rest # <<>>
              => Act # OtherPlan
           /\ loop.at = "acting" => queue = <<>>
<1>1. loop.rest # <<>> => Act = loop.rest[1] /\ 1 \in DOMAIN loop.rest
  BY ActFacts
<1>2. OtherPlan # FastPlan
  BY DEF OtherPlan, FastPlan
<1> QED
  BY <1>1, <1>2 DEF CaseInv, CaseTypes, CaseTypeOK, FlagStates, MarkStates, RerunComesFirst, RestFits

\* Inspections that succeed.
LEMMA InspectionSteps == CaseInv /\ (ReadSucceeds \/ Inspects \/ Previews) => CaseInv'
<1> SUFFICES ASSUME CaseInv, ReadSucceeds \/ Inspects \/ Previews PROVE CaseInv'
  OBVIOUS
<1>1. /\ loop.at \in {"acting", "draining"} /\ loop.rest # <<>> /\ NextAct /\ Unfinished
      /\ UNCHANGED <<ledger, failure, flags, failed, past, queue, standing>>
      /\ Act.kind \in {"read", "explore", "anchors", "preview"}
  BY DEF ReadSucceeds, Inspects, Previews, Acting, Unfinished, ledgerVars
<1>2. loop.at = "acting" /\ Act \in RepairActions
  BY <1>1, ActFacts DEF FastPlan, OtherPlan
<1>3. loop' \in LoopStates /\ loop'.at = "acting" /\ loop'.rest = Tail(loop.rest) /\ loop'.wrote = loop.wrote
  BY <1>1, <1>2, NextActFacts
<1>4. marks' \in MarkStates
  <2>1. marks \in MarkStates /\ Act.path \in RepairPaths \cup {NoPath}
        /\ (WriteLocked /\ Target \in Manifests) \in BOOLEAN
    BY <1>2, RunFacts, ActionFacts DEF WriteLocked
  <2>2. CASE ReadSucceeds
    BY <2>1, <2>2 DEF ReadSucceeds
  <2>3. CASE Inspects
    BY <2>1, <2>3 DEF Inspects, MarkStates
  <2>4. CASE Previews
    <3> DEFINE path == Act.path
               locks == WriteLocked /\ Target \in Manifests
    <3>1. \/ marks' = [marks EXCEPT !.scaffold = FALSE, !.previewed = path, !.locks = locks]
          \/ marks' = [marks EXCEPT !.scaffold = FALSE]
      BY <2>4 DEF Previews
    <3>2. path \in RepairPaths \cup {NoPath} /\ locks \in BOOLEAN
      BY <2>1
    <3> HIDE DEF path, locks
    <3> QED
      BY <2>1, <3>1, <3>2 DEF MarkStates
  <2> QED
    BY <2>2, <2>3, <2>4
<1>5. /\ observed' \subseteq RepairPaths /\ repair' \in RepairStates
      /\ requirement' \in Requirements /\ lease' \in RepairPaths \cup {NoPath}
      /\ PhaseKnows' /\ (repair'.phase = "none" <=> repair.phase = "none")
      /\ repair'.phase \in {"anchor", "implementation"} => repair.phase \in {"anchor", "implementation"}
  <2>1. CASE ReadSucceeds
    <3>1. ObserveRead(Act) /\ Act.path \in RepairPaths
      BY <1>2, <2>1, ActionFacts DEF ReadSucceeds, Acting, IsRead
    <3>2. UNCHANGED ledgerVars
      BY <1>1 DEF ledgerVars
    <3> QED
      BY <3>1, <3>2, ObserveKeeps
  <2>2. CASE Inspects \/ Previews
    BY <1>1, <2>2, CaseTypesMean DEF Inspects, Previews, PhaseKnows
  <2> QED
    BY <2>1, <2>2
<1>6. /\ flags' = flags /\ flags' \in FlagStates /\ standing' = standing
      /\ standing' \in [green : BOOLEAN, failing : BOOLEAN]
      /\ past = "failed" /\ FirstOwner(failure) # NoPath => ~standing'.green /\ standing'.failing
  BY <1>1, RunFacts
<1> QED
  BY <1>1, <1>2, <1>3, <1>4, <1>5, <1>6, GoesOn

\* One that fails.
LEMMA InspectionFailsStep == CaseInv /\ InspectionFails => CaseInv'
<1> SUFFICES ASSUME CaseInv, InspectionFails PROVE CaseInv'
  OBVIOUS
<1>1. /\ loop.at \in {"acting", "draining"} /\ loop.rest # <<>>
      /\ Act.kind \in {"read", "explore", "anchors", "preview"}
      /\ UNCHANGED <<repair, requirement, lease, marks, observed>> /\ Unfinished
      /\ \E next \in {"reply", "dead"} : At(next)
  BY DEF InspectionFails, Acting, contextVars
<1>2. loop.at = "acting" /\ queue = <<>>
  BY <1>1, ActFacts, RunFacts DEF FastPlan, OtherPlan
<1>3. PhaseKnows'
  BY <1>1, CaseTypesMean DEF PhaseKnows, Unfinished, ledgerVars
<1> QED
  BY <1>1, <1>2, <1>3, CaseTypesMean, StopsAt

\* An action that is refused.
LEMMA ActionRefusedStep == CaseInv /\ ActionRefused => CaseInv'
<1> SUFFICES ASSUME CaseInv, ActionRefused PROVE CaseInv'
  OBVIOUS
<1>1. /\ loop.at \in {"acting", "draining"} /\ loop.rest # <<>>
      /\ UNCHANGED <<repair, requirement, lease, marks, observed>> /\ Unfinished
  BY DEF ActionRefused, contextVars
<1>2. \E next \in {"reply", "reread", "dead"} : At(next) /\ (next # "dead" => loop.at = "acting")
  BY <1>1 DEF ActionRefused
<1>3. loop.at = "acting" => queue = <<>>
  BY RunFacts
<1>4. PhaseKnows'
  BY <1>1, CaseTypesMean DEF PhaseKnows, Unfinished, ledgerVars
<1> QED
  BY <1>1, <1>2, <1>3, <1>4, CaseTypesMean, StopsAt

-----------------------------------------------------------------------------
(* Replies that are accepted, edits, validations and the queue *)

\* A reply without actions, or one that fits, begins a turn.
LEMMA ReplyBegins == CaseInv /\ (ReplyAccepted \/ EmptyReply) => CaseInv'
<1> SUFFICES ASSUME CaseInv, ReplyAccepted \/ EmptyReply PROVE CaseInv'
  OBVIOUS
<1>1. /\ loop.at = "reply" /\ queue = <<>> /\ PhaseChecked(0) /\ UNCHANGED contextVars /\ Unfinished
      /\ UNCHANGED <<ledger, failure, flags, failed, past, queue, standing, marks, observed>>
  BY DEF ReplyAccepted, EmptyReply, Replying, Unfinished, ledgerVars, contextVars
<1>2. /\ repair' \in RepairStates /\ requirement' \in Requirements /\ lease' \in RepairPaths \cup {NoPath}
      /\ PhaseKnows' /\ repair'.phase = repair.phase
  BY <1>1, PhaseCheckKeeps DEF ledgerVars
<1>3. PICK rest \in Seq(RepairActions) :
        /\ loop' = [at |-> "acting", rest |-> rest, wrote |-> FALSE]
        /\ repair.phase \in {"anchor", "implementation"} => \A i \in DOMAIN rest : ~IsWrite(rest[i])
        /\ repair.phase # "none" => \A i \in DOMAIN rest : rest[i] # OtherPlan
  <2>1. CASE ReplyAccepted
    <3>1. PICK b \in Batches : /\ FitsPhase(Normalized(b))
                               /\ loop' = [at |-> "acting", rest |-> Normalized(b), wrote |-> FALSE]
      BY <2>1 DEF ReplyAccepted
    <3>2. Normalized(b) \in Batches
      BY NormalizedFacts DEF CaseInv
    <3> QED
      BY <3>1, <3>2, BatchFacts, FittingReply DEF CaseInv
  <2>2. CASE EmptyReply
    <3>1. <<>> \in Seq(RepairActions) /\ DOMAIN <<>> = {}
      OBVIOUS
    <3> QED
      BY <2>2, <3>1 DEF EmptyReply
  <2> QED
    BY <2>1, <2>2
<1>4. loop' \in LoopStates /\ loop'.at = "acting" /\ loop'.rest = rest /\ loop'.wrote = FALSE
  BY <1>3 DEF LoopStates
<1>5. FirstOwner(failure)' = FirstOwner(failure)
  BY <1>1 DEF FirstOwner
<1> USE DEF CaseInv
<1>6. CaseTypes'
  BY <1>1, <1>2, <1>4 DEF CaseTypes, CaseTypeOK, RepairStates, Requirements, LoopStates
<1>7. PhaseFollowsLedger'
  BY <1>1, <1>2, <1>5 DEF PhaseFollowsLedger
<1>8. RestFits' /\ BeforeFailure'
  BY <1>1, <1>2, <1>3, <1>4 DEF RestFits, BeforeFailure
<1>9. RerunComesFirst'
  BY <1>1, <1>3, <1>4, <1>5 DEF RerunComesFirst, PhaseFollowsLedger
<1> QED
  BY <1>2, <1>6, <1>7, <1>8, <1>9

\* An edit: the repair waits for the fast loop.
LEMMA EditSucceedsStep == CaseInv /\ EditSucceeds => CaseInv'
<1> SUFFICES ASSUME CaseInv, EditSucceeds PROVE CaseInv'
  OBVIOUS
<1>1. /\ loop.at \in {"acting", "draining"} /\ loop.rest # <<>> /\ Act.kind \in {"write", "apply"}
      /\ flags' = [flags EXCEPT !.patched = @ \/ flags.required]
      /\ IF repair.phase = "patch"
         THEN repair' = [repair EXCEPT !.phase = "rerun", !.invalid = 0] /\ lease' = TargetLease(failure)
         ELSE UNCHANGED <<repair, lease>>
      /\ requirement' = NoRequirement
      /\ marks' = [Spent(marks) EXCEPT !.wrote = TRUE, !.scaffold = FALSE, !.lastWrite = Act.path]
      /\ standing' = [standing EXCEPT !.green = FALSE]
      /\ loop' = [loop EXCEPT !.rest = Tail(@), !.wrote = TRUE]
      /\ UNCHANGED <<ledger, failure, failed, observed, queue, past>>
  BY DEF EditSucceeds, Acting
<1>2. loop.at = "acting" /\ Act \in RepairActions /\ Act.path \in RepairPaths \cup {NoPath}
      /\ Act = loop.rest[1] /\ 1 \in DOMAIN loop.rest /\ Tail(loop.rest) \in Seq(RepairActions)
  BY <1>1, ActFacts, ActionFacts DEF FastPlan, OtherPlan
<1>3. repair.phase \notin {"anchor", "implementation"}
  BY <1>1, <1>2 DEF CaseInv, RestFits, IsWrite
<1>4. loop' \in LoopStates /\ loop'.at = "acting" /\ loop'.rest = Tail(loop.rest)
  <2> DEFINE t == Tail(loop.rest)
  <2>1. loop' = [loop EXCEPT !.rest = t, !.wrote = TRUE] /\ t \in Seq(RepairActions) /\ loop \in LoopStates
    BY <1>1, <1>2 DEF CaseInv, CaseTypes, LoopStates
  <2> HIDE DEF t
  <2>2. loop' = [at |-> loop.at, rest |-> t, wrote |-> TRUE]
    BY <2>1 DEF LoopStates
  <2> QED
    BY <1>2, <2>1, <2>2 DEF LoopStates, t
<1>5. /\ flags' \in FlagStates /\ flags'.required = flags.required /\ flags'.rerun = flags.rerun
      /\ flags'.patched = (flags.patched \/ flags.required)
  BY <1>1, RunFacts DEF FlagStates
<1>6. /\ standing' \in [green : BOOLEAN, failing : BOOLEAN] /\ standing'.green = FALSE
      /\ standing'.failing = standing.failing
  BY <1>1, RunFacts
<1>7. marks' \in MarkStates
  <2>1. Spent(marks) \in MarkStates
    BY RunFacts DEF Spent, MarkStates
  <2> DEFINE m == Spent(marks)
             path == Act.path
  <2>2. marks' = [m EXCEPT !.wrote = TRUE, !.scaffold = FALSE, !.lastWrite = path] /\ path \in RepairPaths \cup {NoPath}
    BY <1>1, <1>2
  <2> HIDE DEF m, path
  <2> QED
    BY <2>1, <2>2 DEF MarkStates, m
<1>8. /\ repair' \in RepairStates /\ lease' \in RepairPaths \cup {NoPath} /\ requirement' \in Requirements
      /\ repair'.phase = IF repair.phase = "patch" THEN "rerun" ELSE repair.phase
      /\ repair'.owner = repair.owner
  <2>1. requirement' \in Requirements
    BY <1>1 DEF Requirements, NoRequirement
  <2>2. "rerun" \in Phases /\ 0 \in 0..1 /\ repair \in RepairStates
    BY CaseTypesMean DEF Phases
  <2>3. CASE repair.phase = "patch"
    <3>1. /\ repair' = [repair EXCEPT !.phase = "rerun", !.invalid = 0]
          /\ lease' \in RepairPaths \cup {NoPath}
      BY <1>1, <2>3, LeaseIsFile
    <3>2. repair' \in RepairStates /\ repair'.phase = "rerun" /\ repair'.owner = repair.owner
      BY <2>2, <3>1 DEF RepairStates
    <3> QED
      BY <2>1, <2>3, <3>1, <3>2
  <2>4. CASE repair.phase # "patch"
    BY <1>1, <2>1, <2>2, <2>4, CaseTypesMean
  <2> QED
    BY <2>3, <2>4
<1>9. PhaseKnows'
  <2>1. repair.phase = "patch" => flags.required
    BY DEF CaseInv, PhaseFollowsLedger
  <2> QED
    BY <1>3, <1>5, <1>8, <2>1 DEF CaseInv, PhaseKnows
<1>10. observed' \subseteq RepairPaths
  BY <1>1, CaseTypesMean
<1>11. past = "failed" /\ FirstOwner(failure) # NoPath => ~standing'.green /\ standing'.failing
  BY <1>6, RunFacts
<1> QED
  BY <1>1, <1>2, <1>3, <1>4, <1>5, <1>6, <1>7, <1>8, <1>9, <1>10, <1>11, GoesOn

\* An edit that fails.
LEMMA EditFailsStep == CaseInv /\ EditFails => CaseInv'
<1> SUFFICES ASSUME CaseInv, EditFails PROVE CaseInv'
  OBVIOUS
<1>1. /\ loop.at \in {"acting", "draining"} /\ loop.rest # <<>> /\ Act.kind \in {"write", "apply"}
      /\ requirement' = IF Act.kind = "write" THEN Require(Act.path) ELSE NoRequirement
      /\ marks' = Spent(marks) /\ At("reply") /\ UNCHANGED <<repair, lease, observed>> /\ Unfinished
  BY DEF EditFails, Acting
<1>2. loop.at = "acting" /\ Act.path \in RepairPaths \cup {NoPath} /\ queue = <<>>
      /\ Act = loop.rest[1] /\ 1 \in DOMAIN loop.rest
  BY <1>1, ActFacts, ActionFacts, RunFacts DEF FastPlan, OtherPlan
<1>3. repair.phase \notin {"anchor", "implementation"}
  BY <1>1, <1>2 DEF CaseInv, RestFits, IsWrite
<1>4. marks' \in MarkStates
  BY <1>1, RunFacts DEF Spent, MarkStates
<1>5. requirement' \in Requirements
  BY <1>1, <1>2 DEF Require, NoRequirement, Requirements
<1>6. PhaseKnows'
  BY <1>1, <1>3, CaseTypesMean DEF PhaseKnows, Unfinished, ledgerVars
<1> QED
  BY <1>1, <1>2, <1>4, <1>5, <1>6, CaseTypesMean, StopsAt DEF MarkStates

\* The fast loop passes: there is no repair any more.
LEMMA FastLoopPassesStep == CaseInv /\ FastLoopPasses => CaseInv'
<1> SUFFICES ASSUME CaseInv, FastLoopPasses PROVE CaseInv'
  OBVIOUS
<1>1. /\ loop.at \in {"acting", "draining"} /\ loop.rest # <<>>
      /\ flags' = [flags EXCEPT !.required = FALSE, !.rerun = @ \/ flags.patched]
      /\ repair' = NoRepair /\ lease' = TargetLease(failure)
      /\ standing' = [green |-> TRUE, failing |-> FALSE] /\ queue' = <<>>
      /\ Drained(TRUE, <<>>) /\ past' = Rerun
      /\ UNCHANGED <<ledger, failure, failed, requirement, marks, observed>>
  BY DEF FastLoopPasses, Acting, contextVars
<1>2. /\ loop' \in LoopStates /\ loop'.at \in {"acting", "done"}
  <2>1. CASE loop.at = "draining"
    <3>1. loop' = [loop EXCEPT !.at = "done", !.rest = <<>>] /\ loop \in LoopStates
      BY <1>1, <2>1 DEF Drained, At, CaseInv, CaseTypes, LoopStates
    <3>2. <<>> \in Seq(RepairActions)
      OBVIOUS
    <3>3. loop' = [at |-> "done", rest |-> <<>>, wrote |-> loop.wrote] /\ loop.wrote \in BOOLEAN
      BY <3>1 DEF LoopStates
    <3> QED
      BY <3>2, <3>3 DEF LoopStates
  <2>2. CASE loop.at = "acting"
    BY <1>1, <2>2, NextActFacts DEF Drained
  <2> QED
    BY <1>1, <2>1, <2>2
<1>3. /\ flags' \in FlagStates /\ flags'.required = FALSE /\ flags'.patched = flags.patched
      /\ flags'.rerun = (flags.rerun \/ flags.patched)
  BY <1>1, RunFacts DEF FlagStates
<1>4. repair' \in RepairStates /\ repair'.phase = "none"
  BY <1>1 DEF NoRepair, RepairStates, Phases
<1>5. past' \in {"none", "command", "reran"}
  BY <1>1 DEF Rerun, CaseInv, CaseTypes, CaseTypeOK
<1> USE DEF CaseInv
<1>6. CaseTypes'
  <2>1. <<>> \in Seq({FastPlan, OtherPlan})
    OBVIOUS
  <2> QED
    BY <1>1, <1>2, <1>3, <1>4, <1>5, <2>1, LeaseIsFile
       DEF CaseTypes, CaseTypeOK, LoopStates, FlagStates, RepairStates
<1>7. PhaseFollowsLedger' /\ PhaseKnows' /\ BeforeFailure' /\ RerunComesFirst'
  BY <1>1, <1>3, <1>4, <1>5 DEF PhaseFollowsLedger, PhaseKnows, BeforeFailure, RerunComesFirst
<1>8. RestFits'
  BY <1>1, <1>2, <1>4 DEF RestFits
<1> QED
  BY <1>6, <1>7, <1>8

\* It fails: the repair begins anew, and the turn is over.
LEMMA FastLoopFailsStep == CaseInv /\ FastLoopFails => CaseInv'
<1> SUFFICES ASSUME CaseInv, FastLoopFails PROVE CaseInv'
  OBVIOUS
<1>1. /\ loop.at \in {"acting", "draining"} /\ loop.rest # <<>> /\ Act.kind \in {"fastplan", "fastcommand"}
      /\ failed < MaxFailures /\ failed' = failed + 1 /\ At("reply")
      /\ flags' = [flags EXCEPT !.required = TRUE, !.rerun = @ \/ flags.patched]
      /\ IF Act.kind = "fastplan"
         THEN standing' = [green |-> FALSE, failing |-> TRUE] /\ queue' = <<>>
         ELSE UNCHANGED <<standing, queue>>
      /\ past' = IF failed > 0 THEN Rerun ELSE IF Act.kind = "fastplan" THEN "failed" ELSE "command"
      /\ marks' = [marks EXCEPT !.refuted = TRUE] /\ UNCHANGED <<ledger, observed>>
  BY DEF FastLoopFails, Acting
<1>2. PICK f \in Failures : failure' = f /\ repair' = RepairAfter(f) /\ Sync(RepairAfter(f), observed, NoRequirement, f)
  BY DEF FastLoopFails
<1> DEFINE r == RepairAfter(f)
<1>3. /\ r \in RepairStates /\ r.phase \in {"none", "anchor", "patch"}
      /\ r.phase = "none" <=> FirstOwner(f) = NoPath
      /\ r.phase # "none" => r.owner \in RepairPaths
  BY RepairStarts DEF CaseInv
<1>4. NoRequirement \in Requirements
  BY DEF NoRequirement, Requirements
<1>5. /\ requirement' \in Requirements /\ lease' \in RepairPaths \cup {NoPath}
      /\ r.phase # "patch" => requirement' = NoRequirement
  <2>1. Sync(r, observed, NoRequirement, f)
    BY <1>2
  <2> HIDE DEF r
  <2> QED
    BY <1>3, <1>4, <2>1, SyncType DEF CaseInv
<1>6. repair' = r /\ failure' = f
  BY <1>2
<1> HIDE DEF r
<1>7. loop' \in LoopStates /\ loop'.at = "reply" /\ loop'.rest = <<>>
  <2>1. <<>> \in Seq(RepairActions)
    OBVIOUS
  <2>2. loop' = [at |-> "reply", rest |-> <<>>, wrote |-> loop.wrote] /\ loop.wrote \in BOOLEAN
    BY <1>1 DEF At, CaseInv, CaseTypes
  <2> QED
    BY <2>1, <2>2 DEF LoopStates
<1>8. /\ flags' \in FlagStates /\ flags'.required = TRUE /\ flags'.patched = flags.patched
      /\ flags'.rerun = (flags.rerun \/ flags.patched)
  BY <1>1, RunFacts DEF FlagStates
<1>9. marks' \in MarkStates
  BY <1>1, RunFacts DEF MarkStates
<1>10. failed \in 0..MaxFailures /\ failed' \in 0..MaxFailures /\ failed' > 0 /\ (failed > 0 <=> failed # 0)
  BY <1>1, RepairBoundsAssumption DEF CaseInv, CaseTypes, CaseTypeOK
<1>11. /\ past' \in {"none", "failed", "command", "reran"}
       /\ past' = "failed" => failed = 0 /\ Act.kind = "fastplan"
  BY <1>1 DEF Rerun, CaseInv, CaseTypes, CaseTypeOK
<1>12. FirstOwner(failure)' = FirstOwner(f)
  BY <1>1, <1>6 DEF FirstOwner
<1> USE DEF CaseInv
<1>13. CaseTypes'
  <2>1. <<>> \in Seq({FastPlan, OtherPlan})
    OBVIOUS
  <2>2. queue' \in Seq({FastPlan, OtherPlan}) /\ standing' \in [green : BOOLEAN, failing : BOOLEAN]
    <3>1. queue \in Seq({FastPlan, OtherPlan}) /\ standing \in [green : BOOLEAN, failing : BOOLEAN]
      BY DEF CaseTypes
    <3>2. \/ standing' = [green |-> FALSE, failing |-> TRUE] /\ queue' = <<>>
          \/ standing' = standing /\ queue' = queue
      BY <1>1
    <3>3. [green |-> FALSE, failing |-> TRUE] \in [green : BOOLEAN, failing : BOOLEAN]
      OBVIOUS
    <3> QED
      BY <2>1, <3>1, <3>2, <3>3, Zenon
  <2> QED
    BY <1>1, <1>3, <1>5, <1>6, <1>7, <1>8, <1>9, <1>10, <1>11, <2>2
       DEF CaseTypes, CaseTypeOK, LoopStates, FlagStates, RepairStates, Requirements, MarkStates
<1>14. PhaseFollowsLedger' /\ PhaseKnows'
  BY <1>3, <1>5, <1>6, <1>8, <1>12 DEF PhaseFollowsLedger, PhaseKnows
<1>15. RestFits' /\ BeforeFailure'
  BY <1>7, <1>10 DEF RestFits, BeforeFailure
<1>16. RerunComesFirst'
  <2> SUFFICES ASSUME past' = "failed" PROVE RerunComesFirst'
    BY DEF RerunComesFirst
  <2>1. ~flags'.rerun
    BY <1>8, <1>11 DEF BeforeFailure
  <2>2. standing' = [green |-> FALSE, failing |-> TRUE] /\ queue' = <<>>
    BY <1>1, <1>11
  <2> QED
    BY <1>7, <1>8, <2>1, <2>2 DEF RerunComesFirst
<1> QED
  BY <1>13, <1>14, <1>15, <1>16

\* Another validation passes, which is none that is run before the fast loop.
LEMMA OtherPassesStep == CaseInv /\ OtherValidationPasses => CaseInv'
<1> SUFFICES ASSUME CaseInv, OtherValidationPasses PROVE CaseInv'
  OBVIOUS
<1>1. /\ loop.at \in {"acting", "draining"} /\ loop.rest # <<>> /\ Act.kind = "otherplan"
      /\ standing' = [green |-> standing.green \/ queue = <<>>, failing |-> FALSE]
      /\ IF loop.at = "draining" THEN Drained(standing'.green, queue)
                                 ELSE loop' = [loop EXCEPT !.rest = Tail(@), !.wrote = FALSE]
      /\ UNCHANGED <<ledger, failure, flags, failed, repair, requirement, lease, marks, observed, queue, past>>
  BY DEF OtherValidationPasses, Acting, contextVars, ledgerVars
<1>2. Act = OtherPlan /\ Tail(loop.rest) \in Seq(RepairActions)
  BY <1>1, ActFacts, ActionFacts
<1>3. ~(past = "failed" /\ FirstOwner(failure) # NoPath)
  BY <1>1, <1>2, RunFacts
<1>4. standing' \in [green : BOOLEAN, failing : BOOLEAN]
  BY <1>1, RunFacts
<1>5. PhaseKnows'
  BY <1>1, CaseTypesMean DEF PhaseKnows
<1>6. FirstOwner(failure)' = FirstOwner(failure)
  BY <1>1 DEF FirstOwner
<1>7. CASE loop.at = "acting"
  <2> DEFINE t == Tail(loop.rest)
  <2>1. loop' = [loop EXCEPT !.rest = t, !.wrote = FALSE] /\ t \in Seq(RepairActions) /\ loop \in LoopStates
    BY <1>1, <1>2, <1>7 DEF CaseInv, CaseTypes, LoopStates
  <2> HIDE DEF t
  <2>2. loop' = [at |-> loop.at, rest |-> t, wrote |-> FALSE]
    BY <2>1 DEF LoopStates
  <2>3. loop' \in LoopStates /\ loop'.at = "acting" /\ loop'.rest = Tail(loop.rest) /\ loop'.wrote = FALSE
    BY <1>7, <2>1, <2>2 DEF LoopStates, t
  <2> QED
    BY <1>1, <1>3, <1>4, <1>5, <1>7, <2>3, CaseTypesMean, RunFacts, GoesOn
<1>8. CASE loop.at = "draining"
  <2>1. PICK step \in {"done", "reply"} : At(step)
    BY <1>1, <1>8 DEF Drained
  <2>2. loop' \in LoopStates /\ loop'.at = step /\ loop'.rest = <<>>
    <3>1. <<>> \in Seq(RepairActions)
      OBVIOUS
    <3>2. loop' = [at |-> step, rest |-> <<>>, wrote |-> loop.wrote] /\ loop.wrote \in BOOLEAN
      BY <2>1 DEF At, CaseInv, CaseTypes
    <3> QED
      BY <3>1, <3>2 DEF LoopStates
  <2> USE DEF CaseInv
  <2>3. CaseTypes'
    BY <1>1, <1>4, <2>2 DEF CaseTypes, CaseTypeOK, LoopStates
  <2>4. PhaseFollowsLedger' /\ RestFits' /\ BeforeFailure' /\ RerunComesFirst'
    BY <1>1, <1>3, <1>6, <2>2 DEF PhaseFollowsLedger, RestFits, BeforeFailure, RerunComesFirst
  <2> QED
    BY <1>5, <2>3, <2>4
<1> QED
  BY <1>1, <1>7, <1>8

\* Another validation fails.
LEMMA OtherFailsStep == CaseInv /\ OtherValidationFails => CaseInv'
<1> SUFFICES ASSUME CaseInv, OtherValidationFails PROVE CaseInv'
  OBVIOUS
<1>1. /\ loop.at \in {"acting", "draining"} /\ loop.rest # <<>> /\ Act.kind = "otherplan"
      /\ standing' = [green |-> FALSE, failing |-> TRUE] /\ queue' = <<>> /\ At("reply")
      /\ marks' = [marks EXCEPT !.refuted = TRUE]
      /\ \/ UNCHANGED <<repair, requirement, lease>>
         \/ /\ marks.lastWrite # NoPath /\ requirement' = Require(marks.lastWrite)
            /\ lease' = TargetLease(failure)
            /\ repair' = IF repair.phase = "none" THEN repair
                         ELSE [repair EXCEPT !.phase = "patch", !.invalid = 0]
      /\ UNCHANGED <<ledger, failure, flags, failed, observed, past>>
  BY DEF OtherValidationFails, Acting, ledgerVars
<1>2. ~(past = "failed" /\ FirstOwner(failure) # NoPath)
  BY <1>1, ActFacts, ActionFacts, RunFacts
<1>3. loop' \in LoopStates /\ loop'.at = "reply"
  <2>1. <<>> \in Seq(RepairActions)
    OBVIOUS
  <2>2. loop' = [at |-> "reply", rest |-> <<>>, wrote |-> loop.wrote] /\ loop.wrote \in BOOLEAN
    BY <1>1 DEF At, CaseInv, CaseTypes
  <2> QED
    BY <2>1, <2>2 DEF LoopStates
<1>4. marks' \in MarkStates
  BY <1>1, RunFacts DEF MarkStates
<1>5. /\ repair' \in RepairStates /\ requirement' \in Requirements /\ lease' \in RepairPaths \cup {NoPath}
      /\ PhaseKnows' /\ (repair'.phase = "none" <=> repair.phase = "none")
  <2>1. CASE UNCHANGED <<repair, requirement, lease>>
    BY <1>1, <2>1, CaseTypesMean DEF PhaseKnows
  <2>2. CASE /\ requirement' = Require(marks.lastWrite) /\ lease' = TargetLease(failure)
             /\ repair' = IF repair.phase = "none" THEN repair
                          ELSE [repair EXCEPT !.phase = "patch", !.invalid = 0]
    <3>1. requirement' \in Requirements
      BY <2>2, CaseTypesMean DEF Require, Requirements
    <3>2. "patch" \in Phases /\ 0 \in 0..1 /\ repair \in RepairStates
      BY CaseTypesMean DEF Phases
    <3>3. /\ repair' \in RepairStates /\ repair'.owner = repair.owner
          /\ repair'.phase = IF repair.phase = "none" THEN "none" ELSE "patch"
      BY <2>2, <3>2 DEF RepairStates
    <3> QED
      BY <1>1, <2>2, <3>1, <3>3, LeaseIsFile, CaseTypesMean DEF PhaseKnows
  <2> QED
    BY <1>1, <2>1, <2>2
<1>6. FirstOwner(failure)' = FirstOwner(failure)
  BY <1>1 DEF FirstOwner
<1> USE DEF CaseInv
<1>7. CaseTypes'
  <2>1. <<>> \in Seq({FastPlan, OtherPlan})
    OBVIOUS
  <2> QED
    BY <1>1, <1>3, <1>4, <1>5, <2>1
       DEF CaseTypes, CaseTypeOK, LoopStates, MarkStates, RepairStates, Requirements
<1>8. PhaseFollowsLedger' /\ RestFits' /\ BeforeFailure' /\ RerunComesFirst'
  BY <1>1, <1>2, <1>3, <1>5, <1>6 DEF PhaseFollowsLedger, RestFits, BeforeFailure, RerunComesFirst
<1> QED
  BY <1>5, <1>7, <1>8

\* The run comes to a rest: nothing of the turn is left.
LEMMA Rests ==
    ASSUME CaseInv, NEW step \in {"reply", "acting", "draining", "inject", "reread", "done", "dead"}, At(step)
    PROVE  loop' \in LoopStates /\ loop'.at = step /\ loop'.rest = <<>> /\ loop'.wrote = loop.wrote
<1>1. <<>> \in Seq(RepairActions)
  OBVIOUS
<1>2. loop' = [at |-> step, rest |-> <<>>, wrote |-> loop.wrote] /\ loop.wrote \in BOOLEAN
  BY DEF At, CaseInv, CaseTypes
<1> QED
  BY <1>1, <1>2 DEF LoopStates

\* The queue holds plans.
LEMMA CaseQueue ==
    ASSUME CaseInv
    PROVE  /\ queue \in Seq({FastPlan, OtherPlan})
           /\ queue # <<>> => Head(queue) \in {FastPlan, OtherPlan} /\ Tail(queue) \in Seq({FastPlan, OtherPlan})
<1>1. queue \in Seq({FastPlan, OtherPlan})
  BY DEF CaseInv, CaseTypes
<1>2. \A S : \A s \in Seq(S) : s # <<>> => Head(s) \in S /\ Tail(s) \in Seq(S)
  OBVIOUS
<1> QED
  BY <1>1, <1>2

\* The end of a turn queues the fast loop first, while it has to be rerun.
LEMMA TurnEndsStep == CaseInv /\ TurnEnds => CaseInv'
<1> SUFFICES ASSUME CaseInv, TurnEnds PROVE CaseInv'
  OBVIOUS
<1>1. /\ loop.at = "acting" /\ loop.rest = <<>>
      /\ UNCHANGED <<ledger, failure, flags, failed, repair, requirement, lease, marks, observed, standing, past>>
  BY DEF TurnEnds, ledgerVars, contextVars
<1>2. /\ \A S : \A s \in Seq(S) : <<>> \o s = s
      /\ \A S : \A s \in Seq(S) : \A a \in S : <<a>> \o s \in Seq(S) /\ Head(<<a>> \o s) = a
  OBVIOUS
<1>3. /\ FastLoopQueue \in {<<FastPlan>>, <<>>}
      /\ flags.required /\ flags.patched /\ ~flags.rerun => FastLoopQueue = <<FastPlan>>
  BY DEF FastLoopQueue
<1>5. queue' \in Seq({FastPlan, OtherPlan})
  <2>1. CASE queue' = queue
    BY <2>1, CaseQueue
  <2>2. \A s \in Seq({FastPlan, OtherPlan}) : FastLoopQueue \o s \in Seq({FastPlan, OtherPlan})
    BY <1>2, <1>3
  <2>3. /\ \A p \in {OtherPlan, FastPlan} : <<OtherPlan, p>> \in Seq({FastPlan, OtherPlan})
        /\ <<OtherPlan>> \in Seq({FastPlan, OtherPlan})
    OBVIOUS
  <2> QED
    BY <2>1, <2>2, <2>3 DEF TurnEnds
<1>6. PICK step \in {"reply", "done", "dead"} : At(step) /\ (step = "done" => standing.green)
  BY DEF TurnEnds
<1>7. loop' \in LoopStates /\ loop'.at = step /\ loop'.rest = <<>>
  BY <1>6, Rests
<1>8. FirstOwner(failure)' = FirstOwner(failure)
  BY <1>1 DEF FirstOwner
<1> USE DEF CaseInv
<1>9. CaseTypes'
  BY <1>1, <1>5, <1>7 DEF CaseTypes, CaseTypeOK, LoopStates
<1>10. PhaseFollowsLedger' /\ PhaseKnows' /\ RestFits' /\ BeforeFailure'
  BY <1>1, <1>7, <1>8 DEF PhaseFollowsLedger, PhaseKnows, RestFits, BeforeFailure
<1>11. RerunComesFirst'
  <2> SUFFICES ASSUME past = "failed", FirstOwner(failure) # NoPath
               PROVE  /\ flags.required /\ ~flags.rerun /\ ~standing.green /\ standing.failing
                      /\ step # "done" /\ (queue' = <<>> \/ Head(queue') = FastPlan)
    BY <1>1, <1>7, <1>8 DEF RerunComesFirst
  <2>1. /\ flags.required /\ ~flags.rerun /\ ~standing.green /\ standing.failing
        /\ loop.wrote => flags.patched
    BY <1>1 DEF RerunComesFirst
  <2>2. CASE loop.wrote
    <3>1. PICK p \in {OtherPlan, FastPlan} : queue' = FastLoopQueue \o <<OtherPlan, p>>
      BY <2>2 DEF TurnEnds
    <3>2. FastLoopQueue = <<FastPlan>>
      BY <1>3, <2>1, <2>2
    <3>3. <<OtherPlan, p>> \in Seq({FastPlan, OtherPlan})
      OBVIOUS
    <3>4. Head(queue') = FastPlan
      BY <1>2, <3>1, <3>2, <3>3
    <3> QED
      BY <1>6, <2>1, <3>4
  <2>3. CASE ~loop.wrote
    <3>1. queue' = queue /\ queue = <<>>
      BY <1>1, <2>1, <2>3 DEF TurnEnds, RestFits
    <3> QED
      BY <1>6, <2>1, <3>1
  <2> QED
    BY <2>2, <2>3
<1> QED
  BY <1>9, <1>10, <1>11

\* A queued plan is begun.
LEMMA DrainsStep == CaseInv /\ Drains => CaseInv'
<1> SUFFICES ASSUME CaseInv, Drains PROVE CaseInv'
  OBVIOUS
<1>1. /\ loop.at = "reply" /\ queue # <<>> /\ queue' = Tail(queue)
      /\ loop' = [loop EXCEPT !.at = "draining", !.rest = <<Head(queue)>>]
      /\ UNCHANGED <<ledger, failure, flags, failed, repair, requirement, lease, marks, observed, standing, past>>
  BY DEF Drains, ledgerVars, contextVars
<1>2. Head(queue) \in {FastPlan, OtherPlan} /\ queue' \in Seq({FastPlan, OtherPlan})
  BY <1>1, CaseQueue
<1> DEFINE h == Head(queue)
<1> HIDE DEF h
<1>3. <<h>> \in Seq(RepairActions) /\ Len(<<h>>) = 1 /\ <<h>>[1] = h
  BY <1>2, ActionFacts DEF h
<1>4. loop' = [at |-> "draining", rest |-> <<h>>, wrote |-> loop.wrote] /\ loop.wrote \in BOOLEAN
  BY <1>1 DEF CaseInv, CaseTypes, h
<1>5. loop' \in LoopStates /\ loop'.at = "draining" /\ loop'.rest = <<h>>
  BY <1>3, <1>4 DEF LoopStates
<1>6. FirstOwner(failure)' = FirstOwner(failure)
  BY <1>1 DEF FirstOwner
<1> USE DEF CaseInv
<1>7. CaseTypes'
  BY <1>1, <1>2, <1>5 DEF CaseTypes, CaseTypeOK, LoopStates
<1>8. PhaseFollowsLedger' /\ PhaseKnows' /\ BeforeFailure'
  BY <1>1, <1>6 DEF PhaseFollowsLedger, PhaseKnows, BeforeFailure
<1>9. RestFits' /\ RerunComesFirst'
  BY <1>1, <1>2, <1>3, <1>5, <1>6 DEF RestFits, RerunComesFirst, h
<1> QED
  BY <1>7, <1>8, <1>9

\* Every step keeps the invariant.
LEMMA CaseStep == CaseInv /\ [CaseNext]_caseVars => CaseInv'
<1> SUFFICES ASSUME CaseInv, [CaseNext]_caseVars PROVE CaseInv'
  OBVIOUS
<1>1. CASE Reply
  BY <1>1, ReplyStops, ReplyBegins DEF Reply
<1>2. CASE Controller
  BY <1>2, ControllerReads
<1>3. CASE Acts
  BY <1>3, InspectionSteps, InspectionFailsStep, ActionRefusedStep, EditSucceedsStep, EditFailsStep,
     FastLoopPassesStep, FastLoopFailsStep, OtherPassesStep, OtherFailsStep DEF Acts
<1>4. CASE TurnEnds \/ Drains
  BY <1>4, TurnEndsStep, DrainsStep
<1>5. CASE UNCHANGED caseVars
  <2>1. UNCHANGED <<ledger, failure, flags, repair, requirement, lease, marks, observed, standing, queue,
                    loop, failed, past>>
    BY <1>5 DEF caseVars
  <2>2. FirstOwner(failure)' = FirstOwner(failure)
    BY <2>1 DEF FirstOwner
  <2> QED
    BY <2>1, <2>2 DEF CaseInv, CaseTypes, CaseTypeOK, PhaseFollowsLedger, PhaseKnows, RestFits,
                      BeforeFailure, RerunComesFirst
<1> QED
  BY <1>1, <1>2, <1>3, <1>4, <1>5 DEF CaseNext

\* The invariant holds from the first reply to the end of the run.
THEOREM CaseInvariance == CaseSpec => []CaseInv
  BY CaseInitInv, CaseStep, PTL DEF CaseSpec

\* What the invariant says of the end of a case.
LEMMA DoneWasRerun == CaseInv => CaseTypeOK /\ PhaseFollowsLedger /\ SuccessWasRerun
  BY DEF CaseInv, CaseTypes, RerunComesFirst, SuccessWasRerun

-----------------------------------------------------------------------------
\* A reply of one action that is left as it is, fits, is what moves the repair on and is not refused.
LEMMA OneAction ==
    ASSUME NEW a \in RepairActions, Normalized(<<a>>) = <<a>>, FitsPhase(<<a>>), Awaited(a), PolicyOn(a) = "allowed"
    PROVE  WayOn
<1>1. <<a>> \in Batches /\ <<a>>[1] = a
  BY DEF Batches
<1> QED
  BY <1>1 DEF WayOn

\* What is to be reread is read by the controller.
LEMMA PendingIsRead ==
    ASSUME CaseInv, repair.phase # "none", Pending, ~OutOfScope
    PROVE  WayOn
<1> DEFINE a == Read(requirement.path, IF requirement.path \in Manifests THEN "whole" ELSE "anchor")
<1>1. requirement.path \in RepairPaths /\ flags.required
  BY CaseTypesMean DEF Pending, Requirements, CaseInv, PhaseFollowsLedger
<1>2. a \in RequiredReads
  BY DEF RequiredReads
<1>3. a.kind = "read" /\ a.path = requirement.path
  BY DEF Read
<1>4. ledger.narrow => InScope(a.path)
  BY <1>1, <1>3, RepairPathsAssumption DEF OutOfScope
<1> HIDE DEF a
<1>5. PolicyOn(a) = "allowed"
  <2>1. ~NarrowRefuses(a) /\ ~LeaseRefuses(a) /\ ~UnobservedRefuses(a)
    BY <1>3, <1>4 DEF NarrowRefuses, LeaseRefuses, UnobservedRefuses, WriteLocked
  <2>2. ~IsWrite(a) /\ ~PatchNextRefuses(a) /\ ~RepeatedValidationRefuses(a) /\ ~TestFileRefuses(a)
    BY <1>3 DEF IsWrite, PatchNextRefuses, RepeatedValidationRefuses, TestFileRefuses, Pending,
                FastLoops, FastPlan, FastCommand, OtherPlan
  <2> QED
    BY <2>1, <2>2 DEF PolicyOn
<1> QED
  BY <1>1, <1>2, <1>5 DEF WayOn, MayInject

\* The failure's lines, and then the implementation, are read where they are.
LEMMA EvidenceIsRead ==
    ASSUME CaseInv, repair.phase \in {"anchor", "implementation"}, ~NoLineToRead, ~OutOfScope
    PROVE  WayOn
<1> DEFINE a == Read(repair.owner, IF repair.phase = "anchor" THEN "anchor" ELSE "elsewhere")
<1>1. /\ repair.owner \in RepairPaths /\ repair.anchor /\ requirement = NoRequirement /\ ~Pending
      /\ repair \in RepairStates
  BY CaseTypesMean DEF PhaseKnows, NoLineToRead, Pending, NoRequirement, RepairStates
<1>2. a.kind = "read" /\ a.path = repair.owner /\ a \in RepairActions
  BY <1>1, ActionFacts DEF Read, Ranges
<1>3. repair.phase = "anchor" => a.range = "anchor"
  BY DEF Read
<1>4. Normalized(<<a>>) = <<a>>
  BY DEF Normalized
<1>5. Range(<<a>>) = {a}
  BY DEF Range
<1>6. FitsPhase(<<a>>)
  BY <1>1, <1>2, <1>3, <1>5 DEF FitsPhase, SatisfiesEvidence, IsRead
<1>7. Awaited(a)
  BY <1>1 DEF Awaited
<1>8. ledger.narrow => InScope(a.path)
  BY <1>1, <1>2, RepairPathsAssumption DEF OutOfScope
<1> HIDE DEF a
<1>9. PolicyOn(a) = "allowed"
  <2>1. ~NarrowRefuses(a) /\ ~LeaseRefuses(a) /\ ~UnobservedRefuses(a)
    BY <1>2, <1>8 DEF NarrowRefuses, LeaseRefuses, UnobservedRefuses, WriteLocked
  <2>2. ~IsWrite(a) /\ ~PatchNextRefuses(a) /\ ~RepeatedValidationRefuses(a) /\ ~TestFileRefuses(a)
    BY <1>1, <1>2 DEF IsWrite, PatchNextRefuses, RepeatedValidationRefuses, TestFileRefuses, NoRequirement,
                FastLoops, FastPlan, FastCommand, OtherPlan
  <2> QED
    BY <2>1, <2>2 DEF PolicyOn
<1> QED
  BY <1>2, <1>4, <1>6, <1>7, <1>9, OneAction

\* The fast loop is rerun.
LEMMA RerunIsMade ==
    ASSUME CaseInv, repair.phase = "rerun", ~Pending
    PROVE  WayOn
<1>1. flags.patched
  BY CaseTypesMean DEF PhaseKnows
<1>2. Normalized(<<FastCommand>>) = <<FastCommand>>
  BY DEF Normalized
<1>3. Range(<<FastCommand>>) = {FastCommand} /\ FastCommand \in FastLoops /\ FastCommand \in RepairActions
  BY ActionFacts DEF Range, FastLoops
<1>4. FitsPhase(<<FastCommand>>) /\ Awaited(FastCommand)
  BY <1>3 DEF FitsPhase, Awaited
<1>5. FastCommand.kind = "fastcommand" /\ FastCommand.path = NoPath
  BY DEF FastCommand
<1>6. PolicyOn(FastCommand) = "allowed"
  <2>1. ~NarrowRefuses(FastCommand) /\ ~LeaseRefuses(FastCommand) /\ ~UnobservedRefuses(FastCommand)
    BY <1>5 DEF NarrowRefuses, LeaseRefuses, UnobservedRefuses, WriteLocked
  <2>2. /\ ~IsWrite(FastCommand) /\ ~PatchNextRefuses(FastCommand)
        /\ ~RepeatedValidationRefuses(FastCommand) /\ ~TestFileRefuses(FastCommand)
    BY <1>1, <1>5 DEF IsWrite, PatchNextRefuses, RepeatedValidationRefuses, TestFileRefuses
  <2> QED
    BY <2>1, <2>2 DEF PolicyOn
<1> QED
  BY <1>2, <1>3, <1>4, <1>6, OneAction

\* What the policy lets through on the target of a patch.
LEMMA TargetAllowed ==
    ASSUME CaseInv, repair.phase = "patch", ~Pending, ~OutOfScope, ~TestToEdit,
           NEW a \in RepairActions, a.path = Target \/ a = Apply,
           \/ a.kind = "read" /\ ~TargetLoaded /\ ~requirement.done
           \/ a.kind = "preview"
           \/ a.kind = "write" /\ Target \in observed
           \/ a = Apply
    PROVE  PolicyOn(a) = "allowed"
<1>1. Target \in RepairPaths /\ Target # NoPath
  BY TargetIsFile, RepairPathsAssumption DEF CaseInv, CaseTypes, CaseTypeOK, PhaseKnows, Target
<1>2. lease # NoPath => Target = lease
  BY DEF Target, PatchTarget
<1>3. ledger.narrow => InScope(Target)
  BY <1>1 DEF OutOfScope
<1>4. Apply.kind = "apply" /\ Apply.path = NoPath
  BY DEF Apply
<1>5. ~NarrowRefuses(a) /\ ~LeaseRefuses(a) /\ ~UnobservedRefuses(a)
  BY <1>2, <1>3, <1>4 DEF NarrowRefuses, LeaseRefuses, UnobservedRefuses, WriteLocked, IsEvidence
<1>6. ~PatchNextRefuses(a) /\ ~RepeatedValidationRefuses(a) /\ ~TestFileRefuses(a)
  BY <1>4 DEF IsWrite, PatchNextRefuses, RepeatedValidationRefuses, TestFileRefuses, TestToEdit,
              FastLoops, FastPlan, FastCommand, OtherPlan
<1> QED
  BY <1>5, <1>6 DEF PolicyOn

\* A loaded target is previewed, or its preview applied.
LEMMA LoadedIsPatched ==
    ASSUME CaseInv, repair.phase = "patch", ~Pending, TargetLoaded, ~OutOfScope, ~TestToEdit
    PROVE  WayOn
<1>1. Target \in RepairPaths
  BY TargetIsFile DEF CaseInv, CaseTypes, CaseTypeOK, PhaseKnows, Target
<1>2. CASE Target \in Manifests /\ PreviewLocked
  <2>1. Normalized(<<Apply>>) = <<Apply>> /\ FitsPhase(<<Apply>>) /\ Awaited(Apply)
    BY <1>2 DEF Normalized, FitsPhase, PatchTurn, Awaited, IsWrite, Apply
  <2> QED
    BY <2>1, ActionFacts, TargetAllowed, OneAction
<1>3. CASE ~(Target \in Manifests /\ PreviewLocked)
  <2> DEFINE a == Preview(Target)
  <2>1. a \in RepairActions /\ a.kind = "preview" /\ a.path = Target
    BY <1>1, ActionFacts DEF Preview
  <2>2. FitsPhase(<<a>>)
    BY <1>3 DEF FitsPhase, PatchTurn
  <2> HIDE DEF a
  <2>3. Normalized(<<a>>) = <<a>> /\ Awaited(a)
    BY <1>3, <2>1 DEF Normalized, Awaited
  <2> QED
    BY <2>1, <2>2, <2>3, TargetAllowed, OneAction
<1> QED
  BY <1>2, <1>3

\* One that is not loaded is read or previewed, or, once seen, written.
LEMMA TargetIsReached ==
    ASSUME CaseInv, repair.phase = "patch", ~Pending, ~TargetLoaded, ~OutOfScope, ~TestToEdit, ~TargetOutOfSight
    PROVE  WayOn
<1>1. Target \in RepairPaths
  BY TargetIsFile DEF CaseInv, CaseTypes, CaseTypeOK, PhaseKnows, Target
<1>2. CASE marks.scaffold /\ ~requirement.done
  <2> DEFINE a == Read(Target, "elsewhere")
  <2>1. a \in RepairActions /\ a.kind = "read" /\ a.path = Target
    BY <1>1, ActionFacts DEF Read, Ranges
  <2>2. Normalized(<<a>>) = <<a>>
    BY DEF Normalized
  <2> HIDE DEF a
  <2>3. Len(<<a>>) = 1 /\ Head(<<a>>) = a
    OBVIOUS
  <2>4. FitsPhase(<<a>>) /\ Awaited(a)
    BY <1>2, <2>1, <2>3 DEF FitsPhase, PatchTurn, Awaited
  <2> QED
    BY <1>2, <2>1, <2>2, <2>4, TargetAllowed, OneAction
<1>3. CASE marks.scaffold /\ requirement.done
  <2> DEFINE a == Preview(Target)
  <2>1. a \in RepairActions /\ a.kind = "preview" /\ a.path = Target
    BY <1>1, ActionFacts DEF Preview
  <2> HIDE DEF a
  <2>2. Range(<<a>>) = {a} /\ Len(<<a>>) = 1 /\ Head(<<a>>) = a
    BY DEF Range
  <2>3. Normalized(<<a>>) = <<a>>
    BY <2>1, <2>2 DEF Normalized
  <2>4. FitsPhase(<<a>>) /\ Awaited(a)
    BY <1>3, <2>1, <2>2 DEF FitsPhase, PatchTurn, Awaited
  <2> QED
    BY <2>1, <2>3, <2>4, TargetAllowed, OneAction
<1>4. CASE ~marks.scaffold
  <2> DEFINE a == Write(Target)
  <2>1. a \in RepairActions /\ a.kind = "write" /\ a.path = Target /\ OwnerWrite(a)
    BY <1>1, ActionFacts DEF Write, OwnerWrite
  <2> HIDE DEF a
  <2>2. Range(<<a>>) = {a} /\ Range(Tail(<<a>>)) = {} /\ Head(<<a>>) = a
    BY DEF Range
  <2>3. Normalized(<<a>>) = <<a>>
    BY <2>1, <2>2 DEF Normalized
  <2>4. FitsPhase(<<a>>) /\ Awaited(a)
    BY <2>1, <2>2 DEF FitsPhase, PatchTurn, Awaited, IsWrite
  <2>5. Target \in observed
    BY <1>4 DEF TargetOutOfSight
  <2> QED
    BY <2>1, <2>3, <2>4, <2>5, TargetAllowed, OneAction
<1> QED
  BY <1>2, <1>3, <1>4

\* Where a repair stands, something moves it on, but for the four ways to get stuck.
LEMMA StuckInFourWays == CaseInv => StuckOnlyAsKnown
<1> SUFFICES ASSUME CaseInv, repair.phase # "none",
                    ~NoLineToRead, ~TargetOutOfSight, ~OutOfScope, ~TestToEdit
             PROVE  WayOn
  BY DEF StuckOnlyAsKnown
<1>1. repair.phase \in Phases
  BY DEF CaseInv, CaseTypes, CaseTypeOK
<1> QED
  BY <1>1, PendingIsRead, EvidenceIsRead, RerunIsMade, LoadedIsPatched, TargetIsReached DEF Phases

\* Every variable of the repair of a case keeps its type, for any files, ledgers and failures.
THEOREM CaseTypesKept == CaseSpec => []CaseTypeOK
  BY CaseInvariance, DoneWasRerun, PTL

\* A case whose fast loop has failed as a validation is not called done before the fast loop has been
\* run again: whatever is queued meanwhile, the rerun comes first and the failed verdict stands.
THEOREM DoneAfterRerun == CaseSpec => []SuccessWasRerun
  BY CaseInvariance, DoneWasRerun, PTL

\* The phase of a repair and the ledger's failure come and go together.
THEOREM PhaseAgrees == CaseSpec => []PhaseFollowsLedger
  BY CaseInvariance, DoneWasRerun, PTL

\* The policy and the phase never refuse between them every reply that would move a repair on, but
\* in the four ways StuckOnlyAsKnown names.
THEOREM RepairGoesOn == CaseSpec => []StuckOnlyAsKnown
  BY CaseInvariance, StuckInFourWays, PTL
-----------------------------------------------------------------------------
(* Counting, and what the recursive definitions compute *)

\* What holds of zero, and of the next number with each, holds of every number.
LEMMA Counting ==
    ASSUME NEW S, 0 \in S, \A n \in Nat : n \in S => n + 1 \in S
    PROVE  Nat \subseteq S
<1> DEFINE R == {pair \in Nat \X Nat : pair[1] < pair[2]}
           T == {n \in Nat : n \notin S}
<1> SUFFICES ASSUME T # {} PROVE FALSE
  OBVIOUS
<1>1. IsWellFoundedOn(R, Nat)
  BY NatLessThanWellFounded, Zenon DEF OpToRel
<1>3. \A k, j \in Nat : j < k => <<j, k>> \in R
  OBVIOUS
<1> HIDE DEF R
<1>2. PICK i \in T : \A j \in T : ~(<<j, i>> \in R)
  BY <1>1, WFMin
<1>4. i \in Nat /\ i # 0
  BY <1>2
<1>5. i - 1 \in Nat /\ i - 1 < i
  BY <1>4
<1>6. i - 1 \notin T
  BY <1>2, <1>3, <1>4, <1>5
<1> QED
  BY <1>4, <1>5, <1>6

\* Picked goes through the sequence.
LEMMA PickedRuns ==
    ASSUME NEW seq, NEW kept, Len(seq) \in Nat
    PROVE  \E g : /\ g[0] = <<>>
                  /\ \A n \in 1..Len(seq) : g[n] = IF n \in kept THEN Append(g[n - 1], seq[n]) ELSE g[n - 1]
                  /\ Picked(seq, kept) = g[Len(seq)]
<1> DEFINE Upto(g, m) == g = [n \in 0..m |-> IF n = 0 THEN <<>> ELSE IF n \in kept THEN Append(g[n - 1], seq[n]) ELSE g[n - 1]]
           S == {m \in Nat : \E g : Upto(g, m)}
<1>1. 0 \in S
  <2> DEFINE g == [n \in 0..0 |-> <<>>]
  <2>1. Upto(g, 0)
    OBVIOUS
  <2> QED
    BY <2>1
<1>2. ASSUME NEW m \in Nat, m \in S PROVE m + 1 \in S
  <2> PICK g : Upto(g, m)
    BY <1>2
  <2> DEFINE h == [n \in 0..(m + 1) |-> IF n <= m THEN g[n] ELSE IF n \in kept THEN Append(g[n - 1], seq[n]) ELSE g[n - 1]]
  <2>1. \A n \in 0..m : g[n] = IF n = 0 THEN <<>> ELSE IF n \in kept THEN Append(g[n - 1], seq[n]) ELSE g[n - 1]
    BY Zenon
  <2>2. ASSUME NEW n \in 0..(m + 1)
        PROVE  h[n] = IF n = 0 THEN <<>> ELSE IF n \in kept THEN Append(h[n - 1], seq[n]) ELSE h[n - 1]
    <3>1. \A k \in 0..m : k \in 0..(m + 1) /\ k <= m
      OBVIOUS
    <3>2. \A k \in 0..m : h[k] = g[k]
      BY <3>1
    <3>3. n \in 0..m \/ (n = m + 1 /\ ~(n <= m) /\ n # 0 /\ n - 1 \in 0..m)
      OBVIOUS
    <3>4. ~(n <= m) => h[n] = IF n \in kept THEN Append(g[n - 1], seq[n]) ELSE g[n - 1]
      BY Zenon
    <3> HIDE DEF h
    <3>5. CASE n = m + 1
      <4>1. ~(n <= m) /\ n # 0 /\ h[n - 1] = g[n - 1]
        BY <3>2, <3>3, <3>5
      <4> QED
        BY <3>4, <4>1, Zenon
    <3>6. CASE n \in 0..m
      <4>1. n = 0 \/ n - 1 \in 0..m
        BY <3>6
      <4>2. h[n] = g[n] /\ (n = 0 \/ h[n - 1] = g[n - 1])
        BY <3>2, <3>6, <4>1
      <4> QED
        BY <4>2, <3>6, <2>1, Zenon
    <3> QED
      BY <3>3, <3>5, <3>6
  <2>3. h = [n \in 0..(m + 1) |-> h[n]]
    OBVIOUS
  <2> HIDE DEF h
  <2>4. Upto(h, m + 1)
    BY <2>2, <2>3
  <2>5. m + 1 \in Nat
    OBVIOUS
  <2> HIDE DEF Upto
  <2> QED
    BY <2>4, <2>5
<1> DEFINE f == CHOOSE g : Upto(g, Len(seq))
<1>3. Len(seq) \in S
  <2> HIDE DEF S
  <2> QED
    BY <1>1, <1>2, Counting
<1>4. Upto(f, Len(seq))
  BY <1>3, ZenonT(30)
<1>5. Picked(seq, kept) = f[Len(seq)]
  BY DEF Picked
<1> HIDE DEF f
<1>6. f[0] = <<>> /\ \A n \in 1..Len(seq) : f[n] = IF n \in kept THEN Append(f[n - 1], seq[n]) ELSE f[n - 1]
  <2>1. \A n \in 0..Len(seq) : f[n] = IF n = 0 THEN <<>> ELSE IF n \in kept THEN Append(f[n - 1], seq[n]) ELSE f[n - 1]
    BY <1>4, Zenon
  <2>2. 0 \in 0..Len(seq) /\ \A n \in 1..Len(seq) : n \in 0..Len(seq) /\ n # 0
    OBVIOUS
  <2> QED
    BY <2>1, <2>2
<1> QED
  BY <1>5, <1>6

\* The lines of a hunk are applied one after the other, ...
LinesRunning(original, state, lines, g) ==
    /\ g[0] = state
    /\ \A n \in 1..Len(lines) : g[n] = AfterLine(original, g[n - 1], lines[n])
    /\ LinesApplied(original, state, lines) = g[Len(lines)]

LEMMA LinesRun ==
    ASSUME NEW original, NEW state, NEW lines, Len(lines) \in Nat
    PROVE  \E g : LinesRunning(original, state, lines, g)
<1> DEFINE Upto(g, m) == g = [n \in 0..m |-> IF n = 0 THEN state ELSE AfterLine(original, g[n - 1], lines[n])]
           S == {m \in Nat : \E g : Upto(g, m)}
<1>1. 0 \in S
  <2> DEFINE g == [n \in 0..0 |-> state]
  <2>1. Upto(g, 0)
    OBVIOUS
  <2> QED
    BY <2>1
<1>2. ASSUME NEW m \in Nat, m \in S PROVE m + 1 \in S
  <2> PICK g : Upto(g, m)
    BY <1>2
  <2> DEFINE h == [n \in 0..(m + 1) |-> IF n <= m THEN g[n] ELSE AfterLine(original, g[n - 1], lines[n])]
  <2>1. \A n \in 0..m : g[n] = IF n = 0 THEN state ELSE AfterLine(original, g[n - 1], lines[n])
    BY Zenon
  <2>2. ASSUME NEW n \in 0..(m + 1)
        PROVE  h[n] = IF n = 0 THEN state ELSE AfterLine(original, h[n - 1], lines[n])
    <3>1. \A k \in 0..m : k \in 0..(m + 1) /\ k <= m
      OBVIOUS
    <3>2. \A k \in 0..m : h[k] = g[k]
      BY <3>1
    <3>3. n \in 0..m \/ (n = m + 1 /\ ~(n <= m) /\ n # 0 /\ n - 1 \in 0..m)
      OBVIOUS
    <3>4. ~(n <= m) => h[n] = AfterLine(original, g[n - 1], lines[n])
      BY Zenon
    <3> HIDE DEF h
    <3>5. CASE n = m + 1
      <4>1. ~(n <= m) /\ n # 0 /\ h[n - 1] = g[n - 1]
        BY <3>2, <3>3, <3>5
      <4> QED
        BY <3>4, <4>1, Zenon
    <3>6. CASE n \in 0..m
      <4>1. n = 0 \/ n - 1 \in 0..m
        BY <3>6
      <4>2. h[n] = g[n] /\ (n = 0 \/ h[n - 1] = g[n - 1])
        BY <3>2, <3>6, <4>1
      <4> QED
        BY <4>2, <3>6, <2>1, Zenon
    <3> QED
      BY <3>3, <3>5, <3>6
  <2>3. h = [n \in 0..(m + 1) |-> h[n]]
    OBVIOUS
  <2> HIDE DEF h
  <2>4. Upto(h, m + 1)
    BY <2>2, <2>3
  <2>5. m + 1 \in Nat
    OBVIOUS
  <2> HIDE DEF Upto
  <2> QED
    BY <2>4, <2>5
<1> DEFINE f == CHOOSE g : Upto(g, Len(lines))
<1>3. Len(lines) \in S
  <2> HIDE DEF S
  <2> QED
    BY <1>1, <1>2, Counting
<1>4. Upto(f, Len(lines))
  BY <1>3
<1>5. LinesApplied(original, state, lines) = f[Len(lines)]
  BY DEF LinesApplied
<1> HIDE DEF f
<1>6. f[0] = state /\ \A n \in 1..Len(lines) : f[n] = AfterLine(original, f[n - 1], lines[n])
  <2>1. \A n \in 0..Len(lines) : f[n] = IF n = 0 THEN state ELSE AfterLine(original, f[n - 1], lines[n])
    BY <1>4, Zenon
  <2>2. 0 \in 0..Len(lines) /\ \A n \in 1..Len(lines) : n \in 0..Len(lines) /\ n # 0
    OBVIOUS
  <2> QED
    BY <2>1, <2>2
<1> QED
  BY <1>5, <1>6 DEF LinesRunning

\* ... and so are the hunks, ...
LEMMA HunksRun ==
    ASSUME NEW original, NEW hunks, Len(hunks) \in Nat
    PROVE  \E g : /\ g[0] = [out |-> <<>>, at |-> 0, verdict |-> "ok"]
                  /\ \A n \in 1..Len(hunks) : g[n] = AfterHunk(original, g[n - 1], hunks[n])
                  /\ HunksApplied(original, hunks) = g[Len(hunks)]
<1> DEFINE Upto(g, m) == g = [n \in 0..m |-> IF n = 0 THEN [out |-> <<>>, at |-> 0, verdict |-> "ok"] ELSE AfterHunk(original, g[n - 1], hunks[n])]
           S == {m \in Nat : \E g : Upto(g, m)}
<1>1. 0 \in S
  <2> DEFINE g == [n \in 0..0 |-> [out |-> <<>>, at |-> 0, verdict |-> "ok"]]
  <2>1. Upto(g, 0)
    OBVIOUS
  <2> QED
    BY <2>1
<1>2. ASSUME NEW m \in Nat, m \in S PROVE m + 1 \in S
  <2> PICK g : Upto(g, m)
    BY <1>2
  <2> DEFINE h == [n \in 0..(m + 1) |-> IF n <= m THEN g[n] ELSE AfterHunk(original, g[n - 1], hunks[n])]
  <2>1. \A n \in 0..m : g[n] = IF n = 0 THEN [out |-> <<>>, at |-> 0, verdict |-> "ok"] ELSE AfterHunk(original, g[n - 1], hunks[n])
    BY Zenon
  <2>2. ASSUME NEW n \in 0..(m + 1)
        PROVE  h[n] = IF n = 0 THEN [out |-> <<>>, at |-> 0, verdict |-> "ok"] ELSE AfterHunk(original, h[n - 1], hunks[n])
    <3>1. \A k \in 0..m : k \in 0..(m + 1) /\ k <= m
      OBVIOUS
    <3>2. \A k \in 0..m : h[k] = g[k]
      BY <3>1
    <3>3. n \in 0..m \/ (n = m + 1 /\ ~(n <= m) /\ n # 0 /\ n - 1 \in 0..m)
      OBVIOUS
    <3>4. ~(n <= m) => h[n] = AfterHunk(original, g[n - 1], hunks[n])
      BY Zenon
    <3> HIDE DEF h
    <3>5. CASE n = m + 1
      <4>1. ~(n <= m) /\ n # 0 /\ h[n - 1] = g[n - 1]
        BY <3>2, <3>3, <3>5
      <4> QED
        BY <3>4, <4>1, Zenon
    <3>6. CASE n \in 0..m
      <4>1. n = 0 \/ n - 1 \in 0..m
        BY <3>6
      <4>2. h[n] = g[n] /\ (n = 0 \/ h[n - 1] = g[n - 1])
        BY <3>2, <3>6, <4>1
      <4> QED
        BY <4>2, <3>6, <2>1, Zenon
    <3> QED
      BY <3>3, <3>5, <3>6
  <2>3. h = [n \in 0..(m + 1) |-> h[n]]
    OBVIOUS
  <2> HIDE DEF h
  <2>4. Upto(h, m + 1)
    BY <2>2, <2>3
  <2>5. m + 1 \in Nat
    OBVIOUS
  <2> HIDE DEF Upto
  <2> QED
    BY <2>4, <2>5
<1> DEFINE f == CHOOSE g : Upto(g, Len(hunks))
<1>3. Len(hunks) \in S
  <2> HIDE DEF S
  <2> QED
    BY <1>1, <1>2, Counting
<1>4. Upto(f, Len(hunks))
  BY <1>3
<1>5. HunksApplied(original, hunks) = f[Len(hunks)]
  BY DEF HunksApplied
<1> HIDE DEF f
<1>6. f[0] = [out |-> <<>>, at |-> 0, verdict |-> "ok"] /\ \A n \in 1..Len(hunks) : f[n] = AfterHunk(original, f[n - 1], hunks[n])
  <2>1. \A n \in 0..Len(hunks) : f[n] = IF n = 0 THEN [out |-> <<>>, at |-> 0, verdict |-> "ok"] ELSE AfterHunk(original, f[n - 1], hunks[n])
    BY <1>4, Zenon
  <2>2. 0 \in 0..Len(hunks) /\ \A n \in 1..Len(hunks) : n \in 0..Len(hunks) /\ n # 0
    OBVIOUS
  <2> QED
    BY <2>1, <2>2
<1> QED
  BY <1>5, <1>6

\* ... while a patch replaces them from the last to the first.
PatchRunning(original, hunks, g) ==
    /\ g[0] = original
    /\ \A n \in 1..Len(hunks) : g[n] = Replaced(g[n - 1], hunks[Len(hunks) + 1 - n])
    /\ Patched(original, hunks) = g[Len(hunks)]

LEMMA PatchedRuns ==
    ASSUME NEW original, NEW hunks, Len(hunks) \in Nat
    PROVE  \E g : PatchRunning(original, hunks, g)
<1> DEFINE Upto(g, m) == g = [n \in 0..m |-> IF n = 0 THEN original ELSE Replaced(g[n - 1], hunks[Len(hunks) + 1 - n])]
           S == {m \in Nat : \E g : Upto(g, m)}
<1>1. 0 \in S
  <2> DEFINE g == [n \in 0..0 |-> original]
  <2>1. Upto(g, 0)
    OBVIOUS
  <2> QED
    BY <2>1
<1>2. ASSUME NEW m \in Nat, m \in S PROVE m + 1 \in S
  <2> PICK g : Upto(g, m)
    BY <1>2
  <2> DEFINE h == [n \in 0..(m + 1) |-> IF n <= m THEN g[n] ELSE Replaced(g[n - 1], hunks[Len(hunks) + 1 - n])]
  <2>1. \A n \in 0..m : g[n] = IF n = 0 THEN original ELSE Replaced(g[n - 1], hunks[Len(hunks) + 1 - n])
    BY Zenon
  <2>2. ASSUME NEW n \in 0..(m + 1)
        PROVE  h[n] = IF n = 0 THEN original ELSE Replaced(h[n - 1], hunks[Len(hunks) + 1 - n])
    <3>1. \A k \in 0..m : k \in 0..(m + 1) /\ k <= m
      OBVIOUS
    <3>2. \A k \in 0..m : h[k] = g[k]
      BY <3>1
    <3>3. n \in 0..m \/ (n = m + 1 /\ ~(n <= m) /\ n # 0 /\ n - 1 \in 0..m)
      OBVIOUS
    <3>4. ~(n <= m) => h[n] = Replaced(g[n - 1], hunks[Len(hunks) + 1 - n])
      BY Zenon
    <3> HIDE DEF h
    <3>5. CASE n = m + 1
      <4>1. ~(n <= m) /\ n # 0 /\ h[n - 1] = g[n - 1]
        BY <3>2, <3>3, <3>5
      <4> QED
        BY <3>4, <4>1, Zenon
    <3>6. CASE n \in 0..m
      <4>1. n = 0 \/ n - 1 \in 0..m
        BY <3>6
      <4>2. h[n] = g[n] /\ (n = 0 \/ h[n - 1] = g[n - 1])
        BY <3>2, <3>6, <4>1
      <4> QED
        BY <4>2, <3>6, <2>1, Zenon
    <3> QED
      BY <3>3, <3>5, <3>6
  <2>3. h = [n \in 0..(m + 1) |-> h[n]]
    OBVIOUS
  <2> HIDE DEF h
  <2>4. Upto(h, m + 1)
    BY <2>2, <2>3
  <2>5. m + 1 \in Nat
    OBVIOUS
  <2> HIDE DEF Upto
  <2> QED
    BY <2>4, <2>5
<1> DEFINE f == CHOOSE g : Upto(g, Len(hunks))
<1>3. Len(hunks) \in S
  <2> HIDE DEF S
  <2> QED
    BY <1>1, <1>2, Counting
<1>4. Upto(f, Len(hunks))
  BY <1>3
<1>5. Patched(original, hunks) = f[Len(hunks)]
  BY DEF Patched
<1> HIDE DEF f
<1>6. f[0] = original /\ \A n \in 1..Len(hunks) : f[n] = Replaced(f[n - 1], hunks[Len(hunks) + 1 - n])
  <2>1. \A n \in 0..Len(hunks) : f[n] = IF n = 0 THEN original ELSE Replaced(f[n - 1], hunks[Len(hunks) + 1 - n])
    BY <1>4, Zenon
  <2>2. 0 \in 0..Len(hunks) /\ \A n \in 1..Len(hunks) : n \in 0..Len(hunks) /\ n # 0
    OBVIOUS
  <2> QED
    BY <2>1, <2>2
<1> QED
  BY <1>5, <1>6 DEF PatchRunning


\* What is picked comes in its order, from the places that are kept and from all of these.
LEMMA PickedPlaces ==
    ASSUME NEW S, NEW seq \in Seq(S), NEW kept
    PROVE  /\ Picked(seq, kept) \in Seq(S)
           /\ \E r \in [1..Len(Picked(seq, kept)) -> kept \cap (1..Len(seq))] :
                 /\ \A i, j \in 1..Len(Picked(seq, kept)) : i < j => r[i] < r[j]
                 /\ \A n \in kept \cap (1..Len(seq)) : \E j \in 1..Len(Picked(seq, kept)) : r[j] = n
                 /\ \A j \in 1..Len(Picked(seq, kept)) : Picked(seq, kept)[j] = seq[r[j]]
<1> DEFINE N == Len(seq)
<1>1. N \in Nat /\ \A n \in 1..N : seq[n] \in S
  BY LenProperties, ElementOfSeq
<1>2. PICK g : /\ g[0] = <<>>
               /\ \A n \in 1..N : g[n] = IF n \in kept THEN Append(g[n - 1], seq[n]) ELSE g[n - 1]
               /\ Picked(seq, kept) = g[N]
  BY <1>1, PickedRuns
<1> DEFINE Fits1(n, r) == /\ r \in [1..Len(g[n]) -> kept \cap (1..n)]
                          /\ \A i, j \in 1..Len(g[n]) : i < j => r[i] < r[j]
                          /\ \A m \in kept \cap (1..n) : \E j \in 1..Len(g[n]) : r[j] = m
                          /\ \A j \in 1..Len(g[n]) : g[n][j] = seq[r[j]]
           P(n) == g[n] \in Seq(S) /\ \E r : Fits1(n, r)
           T == {n \in Nat : n <= N => P(n)}
<1>3. 0 \in T
  <2>1. g[0] \in Seq(S) /\ Len(g[0]) = 0 /\ 1..Len(g[0]) = {} /\ 1..0 = {}
    BY <1>2
  <2>2. Fits1(0, [j \in {} |-> 0])
    BY <2>1
  <2> QED
    BY <2>1, <2>2, <1>1
<1>4. ASSUME NEW n \in Nat, n \in T, n + 1 <= N PROVE P(n + 1)
  <2>1. P(n) /\ n + 1 \in 1..N /\ seq[n + 1] \in S /\ (n + 1) - 1 = n
    BY <1>1, <1>4
  <2>2. PICK r : Fits1(n, r)
    BY <2>1
  <2>3. Len(g[n]) \in Nat /\ g[n] \in Seq(S)
    BY <2>1
  <2>4. CASE n + 1 \in kept
    <3>1. g[n + 1] = Append(g[n], seq[n + 1])
      BY <1>2, <2>1, <2>4
    <3>2. /\ g[n + 1] \in Seq(S) /\ Len(g[n + 1]) = Len(g[n]) + 1
          /\ \A i \in 1..Len(g[n]) : g[n + 1][i] = g[n][i]
          /\ g[n + 1][Len(g[n]) + 1] = seq[n + 1]
      BY <3>1, <2>1, <2>3, AppendProperties
    <3> DEFINE t == [j \in 1..Len(g[n + 1]) |-> IF j <= Len(g[n]) THEN r[j] ELSE n + 1]
    <3>3. \A j \in 1..Len(g[n + 1]) : j \in 1..Len(g[n]) \/ j = Len(g[n]) + 1
      BY <3>2, <2>3
    <3>4. /\ \A j \in 1..Len(g[n]) : t[j] = r[j] /\ r[j] \in kept \cap (1..n)
          /\ t[Len(g[n]) + 1] = n + 1
      <4>1. \A j \in 1..Len(g[n]) : j \in 1..Len(g[n + 1]) /\ j <= Len(g[n]) /\ r[j] \in kept \cap (1..n)
        BY <3>2, <2>2, <2>3, SMTT(30)
      <4>2. Len(g[n]) + 1 \in 1..Len(g[n + 1]) /\ ~(Len(g[n]) + 1 <= Len(g[n]))
        BY <3>2, <2>3, SMTT(30)
      <4> QED
        BY <4>1, <4>2
    <3> HIDE DEF t
    <3>5. t \in [1..Len(g[n + 1]) -> kept \cap (1..(n + 1))]
      <4>1. \A j \in 1..Len(g[n + 1]) : t[j] \in kept \cap (1..(n + 1))
        BY <3>3, <3>4, <2>4
      <4> QED
        BY <4>1 DEF t
    <3>6. \A i, j \in 1..Len(g[n + 1]) : i < j => t[i] < t[j]
      <4> SUFFICES ASSUME NEW i \in 1..Len(g[n + 1]), NEW j \in 1..Len(g[n + 1]), i < j PROVE t[i] < t[j]
        OBVIOUS
      <4>1. i \in 1..Len(g[n])
        BY <3>2, <2>3
      <4>2. CASE j \in 1..Len(g[n])
        BY <4>1, <4>2, <3>4, <2>2
      <4>3. CASE j = Len(g[n]) + 1
        BY <4>1, <4>3, <3>4, SMTT(30)
      <4> QED
        BY <4>2, <4>3, <3>3
    <3>7. \A m \in kept \cap (1..(n + 1)) : \E j \in 1..Len(g[n + 1]) : t[j] = m
      <4> TAKE m \in kept \cap (1..(n + 1))
      <4>1. CASE m = n + 1
        BY <4>1, <3>2, <3>4, <2>3
      <4>2. CASE m \in kept \cap (1..n)
        <5>1. PICK j \in 1..Len(g[n]) : r[j] = m
          BY <4>2, <2>2
        <5>2. j \in 1..Len(g[n + 1])
          BY <3>2, <2>3
        <5> QED
          BY <5>1, <5>2, <3>4
      <4> QED
        BY <4>1, <4>2
    <3>8. \A j \in 1..Len(g[n + 1]) : g[n + 1][j] = seq[t[j]]
      BY <3>2, <3>3, <3>4, <2>2
    <3> QED
      BY <3>2, <3>5, <3>6, <3>7, <3>8
  <2>5. CASE n + 1 \notin kept
    <3>1. g[n + 1] = g[n]
      BY <1>2, <2>1, <2>5
    <3>2. kept \cap (1..(n + 1)) = kept \cap (1..n)
      BY <2>5
    <3> QED
      BY <3>1, <3>2, <2>1, SMTT(30)
  <2> QED
    BY <2>4, <2>5
<1>5. N \in T
  <2> HIDE DEF P
  <2>1. \A n \in Nat : n \in T => n + 1 \in T
    BY <1>4
  <2> HIDE DEF T
  <2> QED
    BY <1>1, <1>3, <2>1, Counting
<1>6. P(N)
  BY <1>1, <1>5
<1> QED
  BY <1>2, <1>6

\* When all places are kept, all is picked.
LEMMA PickedAll ==
    ASSUME NEW S, NEW seq \in Seq(S), NEW kept, 1..Len(seq) \subseteq kept
    PROVE  Picked(seq, kept) = seq
<1> DEFINE N == Len(seq)
<1>1. N \in Nat /\ \A n \in 1..N : seq[n] \in S
  BY LenProperties, ElementOfSeq
<1>2. PICK g : /\ g[0] = <<>>
               /\ \A n \in 1..N : g[n] = IF n \in kept THEN Append(g[n - 1], seq[n]) ELSE g[n - 1]
               /\ Picked(seq, kept) = g[N]
  BY <1>1, PickedRuns
<1> DEFINE P(n) == g[n] \in Seq(S) /\ Len(g[n]) = n /\ \A i \in 1..n : g[n][i] = seq[i]
           T == {n \in Nat : n <= N => P(n)}
<1>3. 0 \in T
  <2>1. g[0] \in Seq(S) /\ Len(g[0]) = 0 /\ 1..0 = {}
    BY <1>2
  <2> QED
    BY <2>1
<1>4. ASSUME NEW n \in Nat, n \in T, n + 1 <= N PROVE P(n + 1)
  <2>1. P(n) /\ n + 1 \in 1..N /\ n + 1 \in kept /\ seq[n + 1] \in S /\ (n + 1) - 1 = n
    BY <1>1, <1>4
  <2>2. g[n + 1] = Append(g[n], seq[n + 1])
    BY <1>2, <2>1
  <2> QED
    BY <2>1, <2>2, AppendProperties
<1>5. N \in T
  <2> HIDE DEF P
  <2>1. \A n \in Nat : n \in T => n + 1 \in T
    BY <1>4
  <2> HIDE DEF T
  <2> QED
    BY <1>1, <1>3, <2>1, Counting
<1>6. PICK all \in Seq(S) : all = g[N] /\ Len(all) = Len(seq) /\ \A i \in 1..Len(all) : all[i] = seq[i]
  <2>1. P(N)
    BY <1>1, <1>5
  <2> QED
    BY <2>1
<1>7. all = seq
  BY <1>6, SeqEqual
<1> QED
  BY <1>2, <1>6, <1>7

-----------------------------------------------------------------------------
(* The lines of a hunk *)

States == [out : Seq(Lines), at : Nat, verdict : {"ok", "conflict", "panic"}]

\* Texts of lines are lines of text.
LEMMA TextsOf ==
    ASSUME NEW lines \in Seq(HunkLines)
    PROVE  /\ Texts(lines) \in Seq(Lines) /\ Len(Texts(lines)) = Len(lines)
           /\ \A i \in 1..Len(lines) : Texts(lines)[i] = lines[i].text
<1>1. /\ DOMAIN lines = 1..Len(lines) /\ Len(lines) \in Nat
      /\ \A i \in 1..Len(lines) : lines[i] \in HunkLines /\ lines[i].text \in Lines
  <2>1. DOMAIN lines = 1..Len(lines) /\ Len(lines) \in Nat
    BY LenProperties
  <2>2. \A i \in 1..Len(lines) : lines[i] \in HunkLines
    BY ElementOfSeq
  <2>3. \A line \in HunkLines : line.text \in Lines
    BY DEF HunkLines
  <2> QED
    BY <2>1, <2>2, <2>3
<1>2. Texts(lines) = [i \in 1..Len(lines) |-> lines[i].text]
  BY <1>1 DEF Texts
<1> QED
  BY <1>1, <1>2

\* One more line has one more text.
LEMMA TextsAppended ==
    ASSUME NEW lines \in Seq(HunkLines), NEW line \in HunkLines
    PROVE  Texts(Append(lines, line)) = Append(Texts(lines), line.text)
<1>1. Append(lines, line) \in Seq(HunkLines) /\ line.text \in Lines
  BY AppendProperties DEF HunkLines
<1>2. /\ Texts(lines) \in Seq(Lines) /\ Len(Texts(lines)) = Len(lines)
      /\ \A i \in 1..Len(lines) : Texts(lines)[i] = lines[i].text
  BY TextsOf
<1>3. /\ Texts(Append(lines, line)) \in Seq(Lines) /\ Len(Texts(Append(lines, line))) = Len(lines) + 1
      /\ \A i \in 1..(Len(lines) + 1) : Texts(Append(lines, line))[i] = Append(lines, line)[i].text
  <2>1. Len(Append(lines, line)) = Len(lines) + 1
    BY AppendProperties
  <2> QED
    BY <1>1, <2>1, TextsOf
<1>4. Append(Texts(lines), line.text) \in Seq(Lines) /\ Len(Append(Texts(lines), line.text)) = Len(lines) + 1
  BY <1>1, <1>2, AppendProperties
<1>5. Len(lines) \in Nat
  BY LenProperties
<1>6. \A i \in 1..(Len(lines) + 1) : Texts(Append(lines, line))[i] = Append(Texts(lines), line.text)[i]
  <2> TAKE i \in 1..(Len(lines) + 1)
  <2>0. i \in 1..Len(lines) \/ i = Len(lines) + 1
    BY <1>5
  <2>1. CASE i \in 1..Len(lines)
    <3>1. Append(lines, line)[i] = lines[i] /\ Append(Texts(lines), line.text)[i] = Texts(lines)[i]
      BY <2>1, <1>1, <1>2, AppendProperties
    <3> QED
      BY <3>1, <2>1, <1>2, <1>3
  <2>2. CASE i = Len(lines) + 1
    <3>1. /\ Append(lines, line)[Len(lines) + 1] = line
          /\ Append(Texts(lines), line.text)[Len(Texts(lines)) + 1] = line.text
      BY <1>1, <1>2, AppendProperties
    <3> QED
      BY <3>1, <2>2, <1>2, <1>3
  <2> QED
    BY <2>0, <2>1, <2>2
<1> QED
  BY <1>3, <1>4, <1>5, <1>6, SeqEqual


\* A line leaves a state, ...
LEMMA LineStates ==
    ASSUME NEW original \in Seq(Lines), NEW state \in States, NEW line \in HunkLines
    PROVE  /\ AfterLine(original, state, line) \in States
           /\ AfterLine(original, state, line).verdict = "ok" => state.verdict = "ok"
<1>1. LineAt(original, state.at) \in Lines /\ Copied(original, state.at) \in Seq(Lines)
  BY LinesAssumption DEF LineAt, Copied, States
<1>2. /\ state.out \in Seq(Lines) /\ state.at \in Nat /\ line.text \in Lines
      /\ \A copied \in Seq(Lines) : state.out \o copied \in Seq(Lines)
      /\ Append(state.out, line.text) \in Seq(Lines)
      /\ line.kind \in {"context", "delete", "add"}
  BY DEF States, HunkLines
<1>3. CASE state.verdict # "ok"
  <2>1. AfterLine(original, state, line) = state
    BY <1>3 DEF AfterLine
  <2> QED
    BY <1>3, <2>1
<1>4. CASE state.verdict = "ok" /\ line.kind = "add"
  BY <1>2, <1>4 DEF AfterLine, States
<1>5. CASE state.verdict = "ok" /\ line.kind # "add" /\ LineAt(original, state.at) # line.text
  BY <1>2, <1>5 DEF AfterLine, States
<1>6. CASE state.verdict = "ok" /\ line.kind = "delete" /\ LineAt(original, state.at) = line.text
  <2>1. AfterLine(original, state, line) = [state EXCEPT !.at = @ + 1]
    BY <1>6 DEF AfterLine
  <2> QED
    BY <1>2, <1>6, <2>1 DEF States
<1>7. CASE state.verdict = "ok" /\ line.kind = "context" /\ LineAt(original, state.at) = line.text
  <2>1. AfterLine(original, state, line)
            = [state EXCEPT !.out = state.out \o Copied(original, state.at), !.at = state.at + 1]
    BY <1>7 DEF AfterLine
  <2>2. state.out \o Copied(original, state.at) \in Seq(Lines) /\ state.at + 1 \in Nat
    BY <1>1, <1>2
  <2>3. \A out \in Seq(Lines), at \in Nat : [state EXCEPT !.out = out, !.at = at] \in States
    BY DEF States
  <2> QED
    BY <1>7, <2>1, <2>2, <2>3, ZenonT(30)
<1> QED
  BY <1>2, <1>3, <1>4, <1>5, <1>6, <1>7

\* ... and is, while all is well, added, or in the original at this place.
LEMMA LineMeans ==
    ASSUME NEW original \in Seq(Lines), NEW state \in States, NEW line \in HunkLines,
           NEW after, after = AfterLine(original, state, line), after.verdict = "ok"
    PROVE  /\ state.verdict = "ok"
           /\ line.kind = "add" => after.at = state.at /\ after.out = Append(state.out, line.text)
           /\ line.kind # "add" => after.at = state.at + 1 /\ LineAt(original, state.at) = line.text
           /\ line.kind = "delete" => after.out = state.out
           /\ line.kind = "context" /\ state.at < Len(original) => after.out = Append(state.out, line.text)
<1>1. state.verdict = "ok"
  BY LineStates
<1>2. line.kind \in {"context", "delete", "add"} /\ line.text \in Lines /\ state.out \in Seq(Lines)
  BY DEF HunkLines, States
<1>3. CASE line.kind = "add"
  BY <1>1, <1>3 DEF AfterLine, States
<1>4. CASE line.kind = "delete"
  <2>1. LineAt(original, state.at) = line.text
    <3> SUFFICES ASSUME LineAt(original, state.at) # line.text PROVE FALSE
      OBVIOUS
    <3>1. after = [state EXCEPT !.verdict = "conflict"]
      BY <1>1, <1>4 DEF AfterLine
    <3> QED
      BY <3>1 DEF States
  <2>2. after = [state EXCEPT !.at = @ + 1]
    BY <1>1, <1>4, <2>1 DEF AfterLine, States
  <2> QED
    BY <1>1, <1>4, <2>1, <2>2 DEF States
<1>5. CASE line.kind = "context"
  <2>1. LineAt(original, state.at) = line.text
    BY <1>1, <1>5 DEF AfterLine, States
  <2>2. after = [state EXCEPT !.out = @ \o Copied(original, state.at), !.at = @ + 1]
    BY <1>1, <1>5, <2>1 DEF AfterLine, States
  <2>3. after.at = state.at + 1 /\ after.out = state.out \o Copied(original, state.at)
    BY <2>2 DEF States
  <2>4. state.at < Len(original) => after.out = Append(state.out, line.text)
    BY <1>2, <2>1, <2>3, AppendIsConcat DEF LineAt, Copied
  <2> QED
    BY <1>1, <1>5, <2>1, <2>3, <2>4
<1> QED
  BY <1>2, <1>3, <1>4, <1>5

\* When the lines of a hunk go well, its old side is in the original from where it began, past
\* the end of which all lines are blank, and what was written is its new side.
LEMMA LinesMean ==
    ASSUME NEW original \in Seq(Lines), NEW state \in States, NEW hunk \in Hunks
    PROVE  LET after == LinesApplied(original, state, hunk.lines) IN
           /\ after \in States
           /\ after.verdict = "ok" =>
                 /\ state.verdict = "ok" /\ after.at = state.at + Len(OldSide(hunk))
                 /\ after.at <= Len(original) =>
                       /\ after.out = state.out \o NewSide(hunk)
                       /\ \A k \in 1..Len(OldSide(hunk)) : original[state.at + k] = OldSide(hunk)[k]
<1>13. PICK lines \in Seq(HunkLines) : lines = hunk.lines
  BY DEF Hunks
<1> DEFINE after == LinesApplied(original, state, lines)
<1> DEFINE N == Len(lines)
<1>15. PICK InOld : InOld = {k \in DOMAIN lines : lines[k].kind # "add"}
  OBVIOUS
<1>16. PICK InNew : InNew = {k \in DOMAIN lines : lines[k].kind # "delete"}
  OBVIOUS
<1>1. N \in Nat /\ DOMAIN lines = 1..N /\ Len(original) \in Nat
  BY LenProperties
<1>2. \A n \in 1..N : lines[n] \in HunkLines
  BY ElementOfSeq
<1>7. \A n \in 1..N : (n \in InOld <=> lines[n].kind # "add") /\ (n \in InNew <=> lines[n].kind # "delete")
  BY <1>1, <1>15, <1>16
<1>0. OldSide(hunk) = Texts(Picked(lines, InOld)) /\ NewSide(hunk) = Texts(Picked(lines, InNew))
  BY <1>13, <1>15, <1>16 DEF OldSide, NewSide, Without
<1>14. Len(lines) \in Nat
  BY LenProperties
<1>3. PICK a : /\ a[0] = state
               /\ \A n \in 1..N : a[n] = AfterLine(original, a[n - 1], lines[n])
               /\ LinesApplied(original, state, lines) = a[N]
  <2>1. PICK g : LinesRunning(original, state, lines, g)
    BY <1>14, LinesRun
  <2> QED
    BY <2>1 DEF LinesRunning
<1>4. PICK p : /\ p[0] = <<>>
               /\ \A n \in 1..N : p[n] = IF n \in InOld THEN Append(p[n - 1], lines[n]) ELSE p[n - 1]
               /\ Picked(lines, InOld) = p[N]
  BY <1>14, PickedRuns
<1>5. PICK q : /\ q[0] = <<>>
               /\ \A n \in 1..N : q[n] = IF n \in InNew THEN Append(q[n - 1], lines[n]) ELSE q[n - 1]
               /\ Picked(lines, InNew) = q[N]
  BY <1>14, PickedRuns
<1>6. OldSide(hunk) = Texts(p[N]) /\ NewSide(hunk) = Texts(q[N]) /\ after = a[N]
  BY <1>0, <1>3, <1>4, <1>5
<1> DEFINE Well(n) == /\ state.verdict = "ok" /\ a[n].at = state.at + Len(p[n])
                      /\ a[n].at <= Len(original) =>
                            /\ a[n].out = state.out \o Texts(q[n])
                            /\ \A k \in 1..Len(p[n]) : original[state.at + k] = Texts(p[n])[k]
           P(n) == /\ a[n] \in States /\ p[n] \in Seq(HunkLines) /\ q[n] \in Seq(HunkLines)
                   /\ a[n].verdict = "ok" => Well(n)
           T == {n \in Nat : n <= N => P(n)}
<1>8. P(0)
  <2>1. Texts(<<>>) = <<>> /\ <<>> \in Seq(HunkLines) /\ Len(<<>>) = 0
    BY DEF Texts
  <2>2. state.out \in Seq(Lines) /\ state.out \o <<>> = state.out /\ state.at \in Nat
    BY ConcatEmptySeq DEF States
  <2> QED
    BY <1>3, <1>4, <1>5, <2>1, <2>2
<1>9. ASSUME NEW n \in Nat, n \in T, n + 1 <= N PROVE P(n + 1)
  <2> DEFINE line == lines[n + 1]
  <2>0. n <= N /\ n + 1 \in 1..N /\ (n + 1) - 1 = n
    BY <1>1, <1>9
  <2>1. P(n) /\ n + 1 \in 1..N /\ (n + 1) - 1 = n
    <3> HIDE DEF P
    <3> QED
      BY <1>9, <2>0
  <2>2. line \in HunkLines /\ a[n + 1] = AfterLine(original, a[n], line)
    BY <2>1, <1>2, <1>3
  <2>3. a[n + 1] \in States /\ a[n] \in States
    BY <2>1, <2>2, LineStates
  <2>4. p[n + 1] = IF line.kind # "add" THEN Append(p[n], line) ELSE p[n]
    BY <2>1, <1>4, <1>7
  <2>5. q[n + 1] = IF line.kind # "delete" THEN Append(q[n], line) ELSE q[n]
    BY <2>1, <1>5, <1>7
  <2>6. /\ p[n] \in Seq(HunkLines) /\ q[n] \in Seq(HunkLines)
        /\ p[n + 1] \in Seq(HunkLines) /\ q[n + 1] \in Seq(HunkLines)
    BY <2>1, <2>2, <2>4, <2>5, AppendProperties
  <2> HIDE DEF line
  <2>7. ASSUME a[n + 1].verdict = "ok" PROVE Well(n + 1)
    <3>1. /\ a[n].verdict = "ok"
          /\ line.kind = "add" => a[n + 1].at = a[n].at /\ a[n + 1].out = Append(a[n].out, line.text)
          /\ line.kind # "add" => a[n + 1].at = a[n].at + 1 /\ LineAt(original, a[n].at) = line.text
          /\ line.kind = "delete" => a[n + 1].out = a[n].out
          /\ line.kind = "context" /\ a[n].at < Len(original) => a[n + 1].out = Append(a[n].out, line.text)
      BY <2>2, <2>3, <2>7, LineMeans, SMTT(30)
    <3>2. Well(n)
      <4> HIDE DEF Well
      <4> QED
        BY <2>1, <3>1
    <3>7. a[n].at = state.at + Len(p[n])
      BY <3>2
    <3>3. /\ Len(p[n]) \in Nat /\ a[n].at \in Nat /\ state.at \in Nat
          /\ line.kind \in {"context", "delete", "add"} /\ line.text \in Lines
          /\ state.out \in Seq(Lines) /\ a[n].out \in Seq(Lines)
      BY <2>2, <2>3, <2>6, LenProperties DEF States, HunkLines
    <3>4. a[n + 1].at = state.at + Len(p[n + 1])
      <4>1. line.kind # "add" => Len(p[n + 1]) = Len(p[n]) + 1
        BY <2>2, <2>4, <2>6, AppendProperties
      <4> QED
        BY <3>1, <3>2, <3>3, <4>1, <2>4, SMTT(30)
    <3>5. ASSUME a[n + 1].at <= Len(original)
          PROVE  a[n + 1].out = state.out \o Texts(q[n + 1])
      <4>1. a[n].at <= Len(original) /\ (line.kind # "add" => a[n].at < Len(original))
        BY <3>1, <3>3, <3>5, <1>1, SMTT(30)
      <4>2. a[n].out = state.out \o Texts(q[n]) /\ Texts(q[n]) \in Seq(Lines)
        BY <3>2, <4>1, <2>6, TextsOf
      <4>3. CASE line.kind = "delete"
        BY <4>2, <4>3, <3>1, <2>5
      <4>4. CASE line.kind # "delete"
        <5>1. a[n + 1].out = Append(a[n].out, line.text)
          BY <4>1, <4>4, <3>1, <3>3
        <5>2. Texts(q[n + 1]) = Append(Texts(q[n]), line.text)
          BY <4>4, <2>2, <2>5, <2>6, TextsAppended
        <5>3. Append(state.out \o Texts(q[n]), line.text) = state.out \o Append(Texts(q[n]), line.text)
          <6> DEFINE one == <<line.text>>
                     texts == Texts(q[n])
                     out == state.out
          <6>1. one \in Seq(Lines) /\ out \in Seq(Lines) /\ texts \in Seq(Lines)
            BY <4>2, <3>3
          <6>2. Append(out \o texts, line.text) = (out \o texts) \o one /\ Append(texts, line.text) = texts \o one
            BY <6>1, <3>3, AppendIsConcat, ConcatProperties, ZenonT(60)
          <6> HIDE DEF one, texts, out
          <6>3. (out \o texts) \o one = out \o (texts \o one)
            BY <6>1, ConcatAssociative, SMTT(30)
          <6>4. Append(out \o texts, line.text) = out \o Append(texts, line.text)
            BY <6>2, <6>3
          <6> QED
            BY <6>4 DEF texts, out
        <5> QED
          BY <5>1, <5>2, <5>3, <4>2
      <4> QED
        BY <4>3, <4>4
    <3>6. ASSUME a[n + 1].at <= Len(original), NEW k \in 1..Len(p[n + 1])
          PROVE  original[state.at + k] = Texts(p[n + 1])[k]
      <4>1. a[n].at <= Len(original) /\ (line.kind # "add" => a[n].at < Len(original))
        BY <3>1, <3>3, <3>6, <1>1, SMTT(30)
      <4>2. \A i \in 1..Len(p[n]) : original[state.at + i] = Texts(p[n])[i]
        BY <3>2, <4>1
      <4>3. CASE line.kind = "add"
        BY <4>2, <4>3, <2>4
      <4>4. CASE line.kind # "add"
        <5>1. Texts(p[n + 1]) = Append(Texts(p[n]), line.text) /\ Len(p[n + 1]) = Len(p[n]) + 1
          <6>1. p[n + 1] = Append(p[n], line)
            BY <4>4, <2>4
          <6> QED
            BY <6>1, <2>2, <2>6, TextsAppended, AppendProperties, SMTT(30)
        <5>2. Texts(p[n]) \in Seq(Lines) /\ Len(Texts(p[n])) = Len(p[n])
          BY <2>6, TextsOf
        <5>3. k \in 1..Len(p[n]) \/ k = Len(p[n]) + 1
          BY <5>1, <3>3, SMTT(30)
        <5>4. CASE k \in 1..Len(p[n])
          BY <5>1, <5>2, <5>4, <4>2, <3>3, AppendProperties
        <5>5. CASE k = Len(p[n]) + 1
          <6>1. Texts(p[n + 1])[k] = line.text
            BY <5>1, <5>2, <5>5, <3>3, AppendProperties, SMTT(30)
          <6>2. original[a[n].at + 1] = line.text
            BY <4>1, <4>4, <3>1 DEF LineAt
          <6>3. a[n].at + 1 = state.at + k
            <7>1. a[n].at \in Nat /\ state.at \in Nat /\ Len(p[n]) \in Nat
              BY <3>3
            <7> QED
              BY <3>7, <5>5, <7>1, SMTT(30)
          <6> QED
            BY <6>1, <6>2, <6>3
        <5> QED
          BY <5>3, <5>4, <5>5
      <4> QED
        BY <4>3, <4>4
    <3> QED
      BY <3>2, <3>4, <3>5, <3>6
  <2> QED
    BY <2>3, <2>6, <2>7
<1>10. P(N)
  <2> HIDE DEF P
  <2>1. 0 \in T /\ \A n \in Nat : n \in T => n + 1 \in T
    BY <1>8, <1>9
  <2>2. N \in T
    <3> HIDE DEF T
    <3> QED
      BY <1>1, <2>1, Counting
  <2> QED
    BY <1>1, <2>2
<1>11. Len(OldSide(hunk)) = Len(p[N])
  BY <1>6, <1>10, TextsOf
<1>12. /\ after \in States
       /\ after.verdict = "ok" =>
             /\ state.verdict = "ok" /\ after.at = state.at + Len(OldSide(hunk))
             /\ after.at <= Len(original) =>
                   /\ after.out = state.out \o NewSide(hunk)
                   /\ \A k \in 1..Len(OldSide(hunk)) : original[state.at + k] = OldSide(hunk)[k]
  BY <1>6, <1>10, <1>11
<1> QED
  BY <1>12, <1>13

-----------------------------------------------------------------------------
(* The hunks of a file *)

\* The sides of a hunk are text.
LEMMA Sides ==
    ASSUME NEW hunk \in Hunks
    PROVE  /\ OldSide(hunk) \in Seq(Lines) /\ NewSide(hunk) \in Seq(Lines)
           /\ Len(OldSide(hunk)) \in Nat /\ Len(NewSide(hunk)) \in Nat /\ Place(hunk) \in Nat
<1>1. hunk.lines \in Seq(HunkLines) /\ hunk.start \in Nat
  BY DEF Hunks
<1>2. /\ Without(hunk.lines, "add") \in Seq(HunkLines)
      /\ Without(hunk.lines, "delete") \in Seq(HunkLines)
  BY <1>1, PickedPlaces DEF Without
<1>3. OldSide(hunk) \in Seq(Lines) /\ NewSide(hunk) \in Seq(Lines)
  BY <1>2, TextsOf DEF OldSide, NewSide
<1> QED
  BY <1>1, <1>3, LenProperties DEF Place

\* The piece of a sequence from the place m to the place n.
IsPiece(piece, S, s, m, n) ==
    piece \in Seq(S) /\ Len(piece) = n - m /\ \A i \in 1..(n - m) : piece[i] = s[m + i]

LEMMA Piece ==
    ASSUME NEW S, NEW s, NEW m, NEW n, s \in Seq(S), m \in Nat, n \in Nat, m <= n, n <= Len(s)
    PROVE  IsPiece(Between(s, m, n), S, s, m, n)
<1>1. Len(s) \in Nat
  BY LenProperties
<1>2. \A i \in (m + 1)..n : s[i] \in S
  BY <1>1, ElementOfSeq
<1> DEFINE a == m + 1
<1>3. a \in Int /\ n - a + 1 = n - m /\ (IF a <= n THEN n - a + 1 ELSE 0) = n - m
      /\ \A i \in 1..(n - m) : a + i - 1 = m + i
  OBVIOUS
<1> HIDE DEF a
<1>4. /\ SubSeq(s, a, n) \in Seq(S)
      /\ Len(SubSeq(s, a, n)) = IF a <= n THEN n - a + 1 ELSE 0
      /\ \A i \in 1..(n - a + 1) : SubSeq(s, a, n)[i] = s[a + i - 1]
  <2>1. \A i \in a..n : s[i] \in S
    BY <1>2 DEF a
  <2> QED
    BY <1>3, <2>1, SubSeqProperties, SMTT(30)
<1>5. /\ SubSeq(s, a, n) \in Seq(S) /\ Len(SubSeq(s, a, n)) = n - m
      /\ \A i \in 1..(n - m) : SubSeq(s, a, n)[i] = s[m + i]
  BY <1>3, <1>4
<1> QED
  BY <1>5 DEF a, Between, IsPiece

\* A hunk that goes well begins in the file, behind the one before it, and fits there; the text
\* between the two is copied, and its new side follows.
LEMMA HunkMeans ==
    ASSUME NEW original \in Seq(Lines), NEW state \in States, NEW hunk \in Hunks
    PROVE  LET after == AfterHunk(original, state, hunk) IN
           /\ after \in States
           /\ after.verdict = "ok" =>
                 /\ state.verdict = "ok" /\ state.at <= Place(hunk) /\ Place(hunk) <= Len(original)
                 /\ after.at = Place(hunk) + Len(OldSide(hunk))
                 /\ after.at <= Len(original) =>
                       /\ after.out = (state.out \o Between(original, state.at, Place(hunk))) \o NewSide(hunk)
                       /\ Fits(original, hunk)
<1> SUFFICES ASSUME NEW after, after = AfterHunk(original, state, hunk)
             PROVE  /\ after \in States
                    /\ after.verdict = "ok" =>
                          /\ state.verdict = "ok" /\ state.at <= Place(hunk) /\ Place(hunk) <= Len(original)
                          /\ after.at = Place(hunk) + Len(OldSide(hunk))
                          /\ after.at <= Len(original) =>
                                /\ after.out = (state.out \o Between(original, state.at, Place(hunk)))
                                                   \o NewSide(hunk)
                                /\ Fits(original, hunk)
  OBVIOUS
<1> DEFINE start == Place(hunk)
           begin == [state EXCEPT !.out = @ \o Between(original, state.at, start), !.at = start]
<1>1. /\ Len(original) \in Nat /\ state.at \in Nat /\ state.out \in Seq(Lines) /\ start \in Nat
      /\ OldSide(hunk) \in Seq(Lines) /\ Len(OldSide(hunk)) \in Nat /\ hunk.lines \in Seq(HunkLines)
  BY LenProperties, Sides DEF States, Hunks
<1>2. after = IF state.verdict # "ok" THEN state
              ELSE IF start < state.at THEN [state EXCEPT !.verdict = "conflict"]
              ELSE IF start > Len(original) THEN [state EXCEPT !.verdict = "panic"]
              ELSE LinesApplied(original, begin, hunk.lines)
  BY DEF AfterHunk, Place
<1>3. CASE state.verdict # "ok"
  BY <1>2, <1>3
<1>4. CASE state.verdict = "ok" /\ start < state.at
  <2>1. after = [state EXCEPT !.verdict = "conflict"]
    BY <1>2, <1>4
  <2> QED
    BY <2>1 DEF States
<1>5. CASE state.verdict = "ok" /\ ~(start < state.at) /\ start > Len(original)
  <2>1. after = [state EXCEPT !.verdict = "panic"]
    BY <1>2, <1>5
  <2> QED
    BY <2>1 DEF States
<1>6. CASE state.verdict = "ok" /\ ~(start < state.at) /\ ~(start > Len(original))
  <2>1. after = LinesApplied(original, begin, hunk.lines)
    BY <1>2, <1>6
  <2> DEFINE between == Between(original, state.at, start)
  <2>2. between \in Seq(Lines)
    <3>1. IsPiece(between, Lines, original, state.at, start)
      BY <1>1, <1>6, Piece
    <3> QED
      BY <3>1 DEF IsPiece
  <2>3. state.out \o between \in Seq(Lines)
    BY <1>1, <2>2, ConcatProperties
  <2>4. /\ begin \in States /\ begin.out = state.out \o between /\ begin.at = start
    BY <1>1, <2>3 DEF States
  <2> HIDE DEF begin
  <2>5. /\ after \in States
        /\ after.verdict = "ok" =>
              /\ after.at = start + Len(OldSide(hunk))
              /\ after.at <= Len(original) =>
                    /\ after.out = (state.out \o between) \o NewSide(hunk)
                    /\ \A k \in 1..Len(OldSide(hunk)) : original[start + k] = OldSide(hunk)[k]
    <3> HIDE DEF between, start
    <3>2. /\ after \in States
          /\ after.verdict = "ok" =>
                /\ after.at = begin.at + Len(OldSide(hunk))
                /\ after.at <= Len(original) =>
                      /\ after.out = begin.out \o NewSide(hunk)
                      /\ \A k \in 1..Len(OldSide(hunk)) : original[begin.at + k] = OldSide(hunk)[k]
      <4>1. PICK st \in States : st = begin
        BY <2>4
      <4>2. LinesApplied(original, st, hunk.lines) = after
        BY <2>1, <4>1
      <4> QED
        BY <4>1, <4>2, LinesMean
    <3> QED
      BY <2>4, <3>2
  <2>6. ASSUME after.verdict = "ok", after.at <= Len(original) PROVE Fits(original, hunk)
    <3> DEFINE old == OldSide(hunk)
               here == Between(original, start, start + Len(old))
    <3>1. start + Len(old) <= Len(original)
      BY <2>5, <2>6
    <3>2. start + Len(old) \in Nat /\ start <= start + Len(old) /\ (start + Len(old)) - start = Len(old)
      BY <1>1
    <3>3. \A k \in 1..Len(old) : original[start + k] = old[k]
      BY <2>5, <2>6
    <3> HIDE DEF old, start
    <3>4. /\ here \in Seq(Lines) /\ Len(here) = Len(old)
          /\ \A k \in 1..Len(old) : here[k] = original[start + k]
      <4> DEFINE stop == start + Len(old)
      <4>1. stop \in Nat /\ start <= stop /\ stop <= Len(original) /\ stop - start = Len(old) /\ start \in Nat
        BY <3>1, <3>2, <1>1
      <4> HIDE DEF stop
      <4>2. /\ Between(original, start, stop) \in Seq(Lines) /\ Len(Between(original, start, stop)) = Len(old)
            /\ \A k \in 1..Len(old) : Between(original, start, stop)[k] = original[start + k]
        <5>1. IsPiece(Between(original, start, stop), Lines, original, start, stop)
          BY <4>1, Piece
        <5> QED
          BY <4>1, <5>1 DEF IsPiece
      <4> QED
        BY <4>2 DEF stop
    <3> HIDE DEF here
    <3>5. old \in Seq(Lines)
      BY <1>1 DEF old
    <3>6. here = old
      BY <3>3, <3>4, <3>5, SeqEqual
    <3>7. here = Between(original, start, start + Len(old))
      BY DEF here
    <3> QED
      BY <3>1, <3>6, <3>7 DEF Fits, old, start
  <2> QED
    <3>1. start <= Len(original) /\ state.at <= start
      BY <1>1, <1>6
    <3>2. after.verdict = "ok" /\ after.at <= Len(original) => after.out = (state.out \o between) \o NewSide(hunk)
      BY <2>5
    <3> HIDE DEF between
    <3>3. after \in States /\ (after.verdict = "ok" => after.at = start + Len(OldSide(hunk)))
      BY <2>5
    <3> QED
      BY <1>6, <2>6, <3>1, <3>2, <3>3 DEF between
<1> QED
  BY <1>3, <1>4, <1>5, <1>6

\* When the last hunk of a file goes well and ends in the file, so does each hunk before it.
LEMMA HunksMean ==
    ASSUME NEW original \in Seq(Lines), NEW hunks \in Seq(Hunks), NEW h,
           h[0] = [out |-> <<>>, at |-> 0, verdict |-> "ok"],
           \A n \in 1..Len(hunks) : h[n] = AfterHunk(original, h[n - 1], hunks[n])
    PROVE  /\ \A n \in 0..Len(hunks) : h[n] \in States
           /\ h[Len(hunks)].verdict = "ok" /\ h[Len(hunks)].at <= Len(original) =>
                 \A n \in 1..Len(hunks) :
                    /\ h[n - 1].at <= Place(hunks[n]) /\ h[n].at <= Len(original)
                    /\ h[n].at = Place(hunks[n]) + Len(OldSide(hunks[n]))
                    /\ h[n].out = (h[n - 1].out \o Between(original, h[n - 1].at, Place(hunks[n])))
                                      \o NewSide(hunks[n])
                    /\ Fits(original, hunks[n])
<1> DEFINE L == Len(hunks)
<1>1. L \in Nat /\ Len(original) \in Nat
  BY LenProperties
<1>2. \A n \in 1..L : hunks[n] \in Hunks
  BY ElementOfSeq
<1>3. \A n \in 0..L : h[n] \in States
  <2> DEFINE T == {n \in Nat : n <= L => h[n] \in States}
  <2>1. 0 \in T
    <3>1. <<>> \in Seq(Lines)
      OBVIOUS
    <3>2. [out |-> <<>>, at |-> 0, verdict |-> "ok"] \in States
      BY <3>1 DEF States
    <3>3. h[0] \in States
      BY <3>2
    <3> QED
      BY <3>3
  <2>2. ASSUME NEW n \in Nat, n \in T PROVE n + 1 \in T
    <3> SUFFICES ASSUME n + 1 <= L PROVE h[n + 1] \in States
      OBVIOUS
    <3>1. n + 1 \in 1..L /\ (n + 1) - 1 = n /\ h[n] \in States
      BY <1>1, <2>2
    <3>2. h[n + 1] = AfterHunk(original, h[n], hunks[n + 1]) /\ hunks[n + 1] \in Hunks
      BY <1>2, <3>1
    <3> QED
      BY <3>1, <3>2, HunkMeans
  <2>3. Nat \subseteq T
    <3> HIDE DEF T
    <3> QED
      BY <2>1, <2>2, Counting
  <2> QED
    BY <1>1, <2>3
<1> DEFINE Means(n) == /\ h[n - 1].verdict = "ok"
                       /\ h[n - 1].at <= Place(hunks[n]) /\ Place(hunks[n]) <= Len(original)
                       /\ h[n].at = Place(hunks[n]) + Len(OldSide(hunks[n]))
                       /\ h[n].at <= Len(original) =>
                             /\ h[n].out = (h[n - 1].out \o Between(original, h[n - 1].at, Place(hunks[n])))
                                               \o NewSide(hunks[n])
                             /\ Fits(original, hunks[n])
<1>4. \A n \in 1..L : h[n].verdict = "ok" => Means(n)
  <2> TAKE n \in 1..L
  <2>1. hunks[n] \in Hunks /\ h[n - 1] \in States
    BY <1>1, <1>2, <1>3
  <2>2. PICK hunk \in Hunks, state \in States : hunk = hunks[n] /\ state = h[n - 1]
    BY <2>1
  <2>3. AfterHunk(original, state, hunk) = h[n]
    BY <2>2
  <2>4. h[n].verdict = "ok" =>
           /\ state.verdict = "ok" /\ state.at <= Place(hunk) /\ Place(hunk) <= Len(original)
           /\ h[n].at = Place(hunk) + Len(OldSide(hunk))
           /\ h[n].at <= Len(original) =>
                 /\ h[n].out = (state.out \o Between(original, state.at, Place(hunk))) \o NewSide(hunk)
                 /\ Fits(original, hunk)
    BY <2>3, HunkMeans, ZenonT(60)
  <2> QED
    BY <2>2, <2>4
<1>5. \A n \in 1..L : h[n - 1].at \in Nat /\ Place(hunks[n]) \in Nat
  <2> TAKE n \in 1..L
  <2>1. h[n - 1] \in States /\ hunks[n] \in Hunks
    BY <1>1, <1>2, <1>3
  <2> QED
    BY <2>1, Sides DEF States
<1>6. ASSUME h[L].verdict = "ok", h[L].at <= Len(original)
      PROVE  \A n \in 0..L : h[n].verdict = "ok" /\ h[n].at <= Len(original)
  <2> DEFINE Well(n) == h[n].verdict = "ok" /\ h[n].at <= Len(original)
             T == {k \in Nat : k <= L => Well(L - k)}
  <2>1. 0 \in T
    BY <1>1, <1>6
  <2>2. ASSUME NEW k \in Nat, k \in T PROVE k + 1 \in T
    <3> SUFFICES ASSUME k + 1 <= L PROVE Well(L - (k + 1))
      OBVIOUS
    <3>1. PICK m \in 1..L : m = L - k
      BY <1>1, <2>2
    <3>2. m - 1 = L - (k + 1) /\ Well(m)
      BY <1>1, <2>2, <3>1
    <3>3. h[m - 1].verdict = "ok" /\ h[m - 1].at <= Place(hunks[m]) /\ Place(hunks[m]) <= Len(original)
      BY <1>4, <3>2
    <3>4. h[m - 1].at <= Len(original)
      BY <1>1, <1>5, <3>3, SMTT(30)
    <3> QED
      BY <3>2, <3>3, <3>4
  <2>3. Nat \subseteq T
    <3> HIDE DEF T
    <3> QED
      BY <2>1, <2>2, Counting
  <2>4. \A n \in 0..L : L - n \in Nat /\ L - n <= L /\ L - (L - n) = n
    BY <1>1
  <2> QED
    BY <2>3, <2>4
<1>7. ASSUME h[L].verdict = "ok", h[L].at <= Len(original), NEW n \in 1..L
      PROVE  /\ h[n - 1].at <= Place(hunks[n]) /\ h[n].at <= Len(original)
             /\ h[n].at = Place(hunks[n]) + Len(OldSide(hunks[n]))
             /\ h[n].out = (h[n - 1].out \o Between(original, h[n - 1].at, Place(hunks[n])))
                               \o NewSide(hunks[n])
             /\ Fits(original, hunks[n])
  <2>1. h[n].verdict = "ok" /\ h[n].at <= Len(original)
    <3>1. n \in 0..L
      BY <1>1
    <3> QED
      BY <1>6, <1>7, <3>1
  <2>2. Means(n)
    BY <1>4, <2>1
  <2> QED
    BY <2>1, <2>2
<1> QED
  BY <1>3, <1>7

\* A text is replaced between two places of another: what comes before them is as it was.
Spliced(words, p, new, e) == (Between(words, 0, p) \o new) \o Between(words, e, Len(words))

IsSplice(spliced, S, words, p, new, e) ==
    /\ spliced \in Seq(S) /\ Len(spliced) = p + Len(new) + (Len(words) - e)
    /\ \A i \in 1..p : spliced[i] = words[i]
    /\ \A i \in 1..Len(new) : spliced[p + i] = new[i]
    /\ \A i \in 1..(Len(words) - e) : spliced[p + Len(new) + i] = words[e + i]

LEMMA Splice ==
    ASSUME NEW S, NEW words, NEW new, NEW p, NEW e,
           words \in Seq(S), new \in Seq(S), p \in Nat, e \in Nat, p <= e, e <= Len(words)
    PROVE  IsSplice(Spliced(words, p, new, e), S, words, p, new, e)
<1> PICK spliced : spliced = Spliced(words, p, new, e)
  OBVIOUS
<1>1. Len(words) \in Nat /\ Len(new) \in Nat
  BY LenProperties
<1>2. PICK first \in Seq(S) : /\ first = Between(words, 0, p) /\ Len(first) = p
                              /\ \A i \in 1..p : first[i] = words[i]
  <2>1. /\ Between(words, 0, p) \in Seq(S) /\ Len(Between(words, 0, p)) = p - 0
        /\ \A i \in 1..(p - 0) : Between(words, 0, p)[i] = words[0 + i]
    <3>1. IsPiece(Between(words, 0, p), S, words, 0, p)
      BY <1>1, Piece
    <3> QED
      BY <3>1 DEF IsPiece
  <2>2. p - 0 = p /\ \A i \in 1..p : 0 + i = i
    OBVIOUS
  <2>3. /\ Between(words, 0, p) \in Seq(S) /\ Len(Between(words, 0, p)) = p
        /\ \A i \in 1..p : Between(words, 0, p)[i] = words[i]
    BY <2>1, <2>2
  <2> QED
    BY <2>3
<1>3. PICK last \in Seq(S) : /\ last = Between(words, e, Len(words)) /\ Len(last) = Len(words) - e
                             /\ \A i \in 1..(Len(words) - e) : last[i] = words[e + i]
  <2>1. /\ Between(words, e, Len(words)) \in Seq(S) /\ Len(Between(words, e, Len(words))) = Len(words) - e
        /\ \A i \in 1..(Len(words) - e) : Between(words, e, Len(words))[i] = words[e + i]
    <3>1. IsPiece(Between(words, e, Len(words)), S, words, e, Len(words))
      BY <1>1, Piece
    <3> QED
      BY <3>1 DEF IsPiece
  <2> QED
    BY <2>1
<1>4. PICK start \in Seq(S) : /\ start = first \o new /\ Len(start) = p + Len(new)
                              /\ \A i \in 1..p : start[i] = first[i]
                              /\ \A i \in 1..Len(new) : start[p + i] = new[i]
  <2>6. /\ first \o new \in Seq(S) /\ Len(first \o new) = Len(first) + Len(new)
        /\ \A i \in 1..(Len(first) + Len(new)) :
              (first \o new)[i] = IF i <= Len(first) THEN first[i] ELSE new[i - Len(first)]
    BY ConcatProperties
  <2>7. Len(first) = p
    BY <1>1, <1>2
  <2>1. /\ first \o new \in Seq(S) /\ Len(first \o new) = p + Len(new)
        /\ \A i \in 1..(p + Len(new)) : (first \o new)[i] = IF i <= p THEN first[i] ELSE new[i - p]
    BY <2>6, <2>7
  <2>2. \A i \in 1..p : i \in 1..(p + Len(new)) /\ i <= p
    BY <1>1
  <2>3. \A i \in 1..Len(new) : p + i \in 1..(p + Len(new)) /\ ~(p + i <= p) /\ (p + i) - p = i
    BY <1>1
  <2>4. \A i \in 1..p : (first \o new)[i] = first[i]
    BY <2>1, <2>2
  <2>5. \A i \in 1..Len(new) : (first \o new)[p + i] = new[i]
    BY <2>1, <2>3
  <2> QED
    BY <2>1, <2>4, <2>5
<1>5. /\ spliced = start \o last /\ spliced \in Seq(S) /\ Len(spliced) = Len(start) + Len(last)
      /\ \A i \in 1..(Len(start) + Len(last)) : spliced[i] = IF i <= Len(start) THEN start[i] ELSE last[i - Len(start)]
  <2>1. spliced = start \o last
    BY <1>2, <1>3, <1>4 DEF Spliced
  <2>2. /\ start \o last \in Seq(S) /\ Len(start \o last) = Len(start) + Len(last)
        /\ \A i \in 1..(Len(start) + Len(last)) :
              (start \o last)[i] = IF i <= Len(start) THEN start[i] ELSE last[i - Len(start)]
    BY ConcatProperties
  <2> QED
    BY <2>1, <2>2
<1>6. /\ \A i \in 1..p : i \in 1..(Len(start) + Len(last)) /\ i <= Len(start)
      /\ \A i \in 1..Len(new) : p + i \in 1..(Len(start) + Len(last)) /\ p + i <= Len(start)
      /\ \A i \in 1..(Len(words) - e) : /\ p + Len(new) + i \in 1..(Len(start) + Len(last))
                                       /\ ~(p + Len(new) + i <= Len(start))
                                       /\ (p + Len(new) + i) - Len(start) = i
  <2>1. PICK a \in Nat, b \in Nat : a = Len(new) /\ b = Len(words) - e
    <3>1. Len(words) - e \in Nat
      BY <1>1
    <3> QED
      BY <1>1, <3>1
  <2>2. Len(start) = p + a /\ Len(last) = b
    BY <1>3, <1>4, <2>1
  <2>3. /\ \A i \in 1..p : i \in 1..((p + a) + b) /\ i <= p + a
        /\ \A i \in 1..a : p + i \in 1..((p + a) + b) /\ p + i <= p + a
        /\ \A i \in 1..b : /\ p + a + i \in 1..((p + a) + b)
                            /\ ~(p + a + i <= p + a)
                            /\ (p + a + i) - (p + a) = i
    BY <2>1
  <2> QED
    BY <2>1, <2>2, <2>3
<1>7. \A i \in 1..p : spliced[i] = words[i]
  BY <1>2, <1>4, <1>5, <1>6
<1>8. \A i \in 1..Len(new) : spliced[p + i] = new[i]
  BY <1>4, <1>5, <1>6
<1>9. \A i \in 1..(Len(words) - e) : spliced[p + Len(new) + i] = words[e + i]
  <2> SUFFICES ASSUME NEW i \in 1..(Len(words) - e) PROVE spliced[p + Len(new) + i] = words[e + i]
    OBVIOUS
  <2>1. PICK k : k = p + Len(new) + i
    OBVIOUS
  <2>2. k \in 1..(Len(start) + Len(last)) /\ ~(k <= Len(start)) /\ k - Len(start) = i
    BY <1>6, <2>1
  <2>3. spliced[k] = last[i]
    BY <1>5, <2>2
  <2>4. last[i] = words[e + i]
    BY <1>3
  <2> QED
    BY <2>1, <2>3, <2>4
<1> QED
  BY <1>1, <1>3, <1>4, <1>5, <1>7, <1>8, <1>9 DEF IsSplice

\* The rest of a spliced text, from a place before the splice.
RestIs(spliced, words, p, new, e, a) ==
    Between(spliced, a, Len(spliced)) = (Between(words, a, p) \o new) \o Between(words, e, Len(words))

LEMMA RestOfSplice ==
    ASSUME NEW S, NEW words, NEW new, NEW p, NEW e, NEW a,
           words \in Seq(S), new \in Seq(S), p \in Nat, e \in Nat, p <= e, e <= Len(words),
           a \in Nat, a <= p
    PROVE  RestIs(Spliced(words, p, new, e), words, p, new, e, a)
<1> PICK spliced : spliced = Spliced(words, p, new, e)
  OBVIOUS
<1>1. Len(words) \in Nat /\ Len(new) \in Nat
  BY LenProperties
<1>2. PICK b \in Nat, c \in Nat, d \in Nat : b = Len(new) /\ c = Len(words) - e /\ d = p - a
  <2>1. Len(words) - e \in Nat /\ p - a \in Nat
    BY <1>1
  <2> QED
    BY <1>1, <2>1
<1>3. /\ spliced \in Seq(S) /\ Len(spliced) = p + b + c
      /\ \A i \in 1..p : spliced[i] = words[i]
      /\ \A i \in 1..b : spliced[p + i] = new[i]
      /\ \A i \in 1..c : spliced[p + b + i] = words[e + i]
  <2>1. /\ spliced \in Seq(S) /\ Len(spliced) = p + Len(new) + (Len(words) - e)
        /\ \A i \in 1..p : spliced[i] = words[i]
        /\ \A i \in 1..Len(new) : spliced[p + i] = new[i]
        /\ \A i \in 1..(Len(words) - e) : spliced[p + Len(new) + i] = words[e + i]
    <3>1. IsSplice(spliced, S, words, p, new, e)
      BY Splice
    <3> QED
      BY <3>1 DEF IsSplice
  <2> QED
    BY <1>2, <2>1
<1>4. PICK rest \in Seq(S) : /\ rest = Between(spliced, a, Len(spliced)) /\ Len(rest) = d + b + c
                             /\ \A i \in 1..(d + b + c) : rest[i] = spliced[a + i]
  <2>1. PICK n \in Nat : n = Len(spliced) /\ a <= n /\ n <= Len(spliced) /\ n - a = d + b + c
    <3>1. p + b + c \in Nat /\ a <= p + b + c /\ (p + b + c) - a = d + b + c
      BY <1>2
    <3> QED
      BY <1>3, <3>1
  <2>2. /\ Between(spliced, a, n) \in Seq(S) /\ Len(Between(spliced, a, n)) = n - a
        /\ \A i \in 1..(n - a) : Between(spliced, a, n)[i] = spliced[a + i]
    <3>1. IsPiece(Between(spliced, a, n), S, spliced, a, n)
      BY <1>3, <2>1, Piece
    <3> QED
      BY <3>1 DEF IsPiece
  <2> QED
    BY <2>1, <2>2
<1>5. PICK first \in Seq(S) : /\ first = Between(words, a, p) /\ Len(first) = d
                              /\ \A i \in 1..d : first[i] = words[a + i]
  <2>1. p <= Len(words)
    BY <1>1
  <2>2. /\ Between(words, a, p) \in Seq(S) /\ Len(Between(words, a, p)) = p - a
        /\ \A i \in 1..(p - a) : Between(words, a, p)[i] = words[a + i]
    <3>1. IsPiece(Between(words, a, p), S, words, a, p)
      BY <2>1, Piece
    <3> QED
      BY <3>1 DEF IsPiece
  <2> QED
    BY <1>2, <2>2
<1>6. PICK last \in Seq(S) : /\ last = Between(words, e, Len(words)) /\ Len(last) = c
                             /\ \A i \in 1..c : last[i] = words[e + i]
  <2>1. /\ Between(words, e, Len(words)) \in Seq(S) /\ Len(Between(words, e, Len(words))) = Len(words) - e
        /\ \A i \in 1..(Len(words) - e) : Between(words, e, Len(words))[i] = words[e + i]
    <3>1. IsPiece(Between(words, e, Len(words)), S, words, e, Len(words))
      BY <1>1, Piece, SMTT(30)
    <3> QED
      BY <3>1 DEF IsPiece
  <2> QED
    BY <1>2, <2>1
<1>7. PICK start \in Seq(S) : /\ start = first \o new /\ Len(start) = d + b
                              /\ \A i \in 1..(d + b) : start[i] = IF i <= d THEN first[i] ELSE new[i - d]
  <2>1. /\ first \o new \in Seq(S) /\ Len(first \o new) = Len(first) + Len(new)
        /\ \A i \in 1..(Len(first) + Len(new)) :
              (first \o new)[i] = IF i <= Len(first) THEN first[i] ELSE new[i - Len(first)]
    BY ConcatProperties
  <2>2. Len(first) = d /\ Len(new) = b
    BY <1>2, <1>5
  <2>3. /\ first \o new \in Seq(S) /\ Len(first \o new) = d + b
        /\ \A i \in 1..(d + b) : (first \o new)[i] = IF i <= d THEN first[i] ELSE new[i - d]
    BY <2>1, <2>2
  <2> QED
    BY <2>3
<1>8. PICK all \in Seq(S) : /\ all = start \o last /\ Len(all) = d + b + c
                            /\ \A i \in 1..(d + b + c) : all[i] = IF i <= d + b THEN start[i] ELSE last[i - (d + b)]
  <2>1. /\ start \o last \in Seq(S) /\ Len(start \o last) = Len(start) + Len(last)
        /\ \A i \in 1..(Len(start) + Len(last)) :
              (start \o last)[i] = IF i <= Len(start) THEN start[i] ELSE last[i - Len(start)]
    BY ConcatProperties
  <2>2. Len(start) = d + b /\ Len(last) = c
    BY <1>6, <1>7
  <2>3. /\ start \o last \in Seq(S) /\ Len(start \o last) = d + b + c
        /\ \A i \in 1..(d + b + c) : (start \o last)[i] = IF i <= d + b THEN start[i] ELSE last[i - (d + b)]
    BY <2>1, <2>2
  <2> QED
    BY <2>3
<1>9. ASSUME NEW i \in 1..(d + b + c) PROVE rest[i] = all[i]
  <2>1. CASE i <= d
    <3>1. i \in 1..d /\ i <= d + b /\ a + i \in 1..p /\ i \in 1..(d + b)
      BY <1>2, <2>1
    <3>2. all[i] = words[a + i]
      BY <1>5, <1>7, <1>8, <2>1, <3>1
    <3>3. rest[i] = words[a + i]
      BY <1>3, <1>4, <3>1
    <3> QED
      BY <3>2, <3>3
  <2>2. CASE ~(i <= d) /\ i <= d + b
    <3>1. PICK k \in 1..b : k = i - d
      BY <2>2
    <3>2. i \in 1..(d + b) /\ a + i = p + k
      BY <1>2, <2>2, <3>1
    <3>3. all[i] = new[k]
      BY <1>7, <1>8, <2>2, <3>1, <3>2
    <3>4. rest[i] = new[k]
      BY <1>3, <1>4, <3>2
    <3> QED
      BY <3>3, <3>4
  <2>3. CASE ~(i <= d) /\ ~(i <= d + b)
    <3>1. PICK k \in 1..c : k = i - (d + b)
      BY <2>3
    <3>2. a + i = p + b + k
      BY <1>2, <3>1
    <3>3. all[i] = words[e + k]
      BY <1>6, <1>8, <2>3, <3>1
    <3>4. rest[i] = words[e + k]
      BY <1>3, <1>4, <3>2, ZenonT(60)
    <3> QED
      BY <3>3, <3>4
  <2> QED
    BY <2>1, <2>2, <2>3
<1>10. rest = all
  BY <1>4, <1>8, <1>9, SeqEqual, ZenonT(60)
<1> QED
  BY <1>4, <1>5, <1>6, <1>7, <1>8, <1>10, Zenon DEF RestIs

End(hunk) == Place(hunk) + Len(OldSide(hunk))

LEMMA HunkEnds ==
    ASSUME NEW hunk \in Hunks
    PROVE  Place(hunk) \in Nat /\ End(hunk) \in Nat /\ Place(hunk) <= End(hunk)
<1>1. Place(hunk) \in Nat /\ Len(OldSide(hunk)) \in Nat
  BY Sides
<1> QED
  BY <1>1 DEF End

\* Where the hunks fit and none overlaps another, a patch leaves text, and what comes before the
\* last hunk that it has not come to is as in the original.
Kept(words, original, hunks, m) ==
    /\ words \in Seq(Lines)
    /\ \A j \in 1..m : End(hunks[j]) <= Len(words) /\ \A i \in 1..End(hunks[j]) : words[i] = original[i]

LEMMA PatchedKeeps ==
    ASSUME NEW original \in Seq(Lines), NEW hunks \in Seq(Hunks), NEW g,
           g[0] = original,
           \A n \in 1..Len(hunks) : g[n] = Replaced(g[n - 1], hunks[Len(hunks) + 1 - n]),
           Separate(hunks), \A i \in DOMAIN hunks : Fits(original, hunks[i])
    PROVE  \A n \in 0..Len(hunks) : Kept(g[n], original, hunks, Len(hunks) - n)
<1> DEFINE L == Len(hunks)
           Keeps(n) == /\ g[n] \in Seq(Lines)
                       /\ \A j \in 1..(L - n) : /\ End(hunks[j]) <= Len(g[n])
                                                /\ \A i \in 1..End(hunks[j]) : g[n][i] = original[i]
           T == {n \in Nat : n <= L => Keeps(n)}
<1> HIDE DEF Keeps
<1>1. L \in Nat /\ DOMAIN hunks = 1..L
  BY LenProperties
<1>2. \A j \in 1..L : hunks[j] \in Hunks
  BY ElementOfSeq
<1>3. 0 \in T
  <2>1. \A j \in 1..L : End(hunks[j]) <= Len(original)
    BY <1>1 DEF Fits, End
  <2>2. Keeps(0)
    BY <1>1, <2>1 DEF Keeps
  <2> QED
    BY <2>2
<1>4. ASSUME NEW n \in Nat, n \in T PROVE n + 1 \in T
  <2> SUFFICES ASSUME n + 1 <= L PROVE Keeps(n + 1)
    OBVIOUS
  <2>1. PICK m \in 1..L : m = L - n
    <3>1. L - n \in 1..L
      BY <1>1
    <3> QED
      BY <3>1
  <2>2. n + 1 \in 1..L /\ (n + 1) - 1 = n /\ (L + 1) - (n + 1) = m /\ L - (n + 1) = m - 1 /\ Keeps(n)
    BY <1>1, <1>4, <2>1
  <2>3. PICK hunk \in Hunks : hunk = hunks[m]
    BY <1>2
  <2>4. g[n + 1] = Replaced(g[n], hunk)
    <3>1. PICK k \in 1..L : k = n + 1
      BY <2>2
    <3>2. g[k] = Replaced(g[k - 1], hunks[Len(hunks) + 1 - k])
      OBVIOUS
    <3>3. k - 1 = n /\ Len(hunks) + 1 - k = m
      BY <2>2, <3>1
    <3> QED
      BY <2>3, <3>1, <3>2, <3>3
  <2>5. PICK words \in Seq(Lines) : words = g[n]
    BY <2>2 DEF Keeps
  <2>6. /\ End(hunk) <= Len(words) /\ \A i \in 1..End(hunk) : words[i] = original[i]
    <3>1. m \in 1..(L - n)
      BY <1>1, <2>1
    <3> QED
      BY <2>2, <2>3, <2>5, <3>1 DEF Keeps
  <2>7. /\ Place(hunk) \in Nat /\ End(hunk) \in Nat /\ Place(hunk) <= End(hunk) /\ NewSide(hunk) \in Seq(Lines)
    BY Sides, HunkEnds
  <2>8. PICK p \in Nat, e \in Nat : p = Place(hunk) /\ e = End(hunk)
    BY <2>7
  <2>9. g[n + 1] = Spliced(words, p, NewSide(hunk), e)
    BY <2>4, <2>5, <2>8 DEF Replaced, End, Spliced
  <2>10. /\ g[n + 1] \in Seq(Lines)
         /\ Len(g[n + 1]) = p + Len(NewSide(hunk)) + (Len(words) - e)
         /\ \A i \in 1..p : g[n + 1][i] = words[i]
    <3>1. IsSplice(g[n + 1], Lines, words, p, NewSide(hunk), e)
      BY <2>6, <2>7, <2>8, <2>9, Splice
    <3> QED
      BY <3>1 DEF IsSplice
  <2>11. Len(words) \in Nat /\ Len(NewSide(hunk)) \in Nat
    BY <2>7, LenProperties
  <2>12. p <= Len(g[n + 1])
    BY <2>6, <2>8, <2>10, <2>11, SMTT(30)
  <2>13. ASSUME NEW j \in 1..(m - 1)
         PROVE  /\ End(hunks[j]) <= Len(g[n + 1])
                /\ \A i \in 1..End(hunks[j]) : g[n + 1][i] = original[i]
    <3>1. j \in 1..L /\ j < m
      BY <1>1, <2>1, SMTT(30)
    <3>2. End(hunks[j]) <= p /\ End(hunks[j]) \in Nat
      <4>1. End(hunks[j]) <= Place(hunks[m])
        BY <1>1, <3>1 DEF Separate, End
      <4>2. hunks[j] \in Hunks
        BY <1>2, <3>1
      <4>3. End(hunks[j]) \in Nat
        BY <4>2, HunkEnds
      <4> QED
        BY <2>3, <2>8, <4>1, <4>3
    <3>3. Len(g[n + 1]) \in Nat
      BY <2>10, LenProperties
    <3>4. \A i \in 1..End(hunks[j]) : i \in 1..p /\ i \in 1..e
      BY <2>7, <2>8, <3>2, SMTT(30)
    <3>5. \A i \in 1..End(hunks[j]) : g[n + 1][i] = original[i]
      BY <2>6, <2>8, <2>10, <3>4
    <3>6. End(hunks[j]) <= Len(g[n + 1])
      BY <2>12, <3>2, <3>3, SMTT(30)
    <3> QED
      BY <3>5, <3>6
  <2> QED
    BY <2>2, <2>10, <2>13 DEF Keeps
<1>5. Nat \subseteq T
  <2> HIDE DEF T
  <2> QED
    BY <1>3, <1>4, Counting
<1>6. \A n \in 0..L : n \in Nat /\ n <= L
  BY <1>1
<1> QED
  BY <1>5, <1>6 DEF Keeps, Kept


\* Of a text from its beginning to its end nothing is missing.
LEMMA WholePiece ==
    ASSUME NEW S, NEW s \in Seq(S)
    PROVE  Between(s, 0, Len(s)) = s
<1>1. Len(s) \in Nat
  BY LenProperties
<1>2. IsPiece(Between(s, 0, Len(s)), S, s, 0, Len(s))
  BY <1>1, Piece
<1>3. PICK b \in Seq(S) : /\ b = Between(s, 0, Len(s)) /\ Len(b) = Len(s) - 0
                          /\ \A i \in 1..(Len(s) - 0) : b[i] = s[0 + i]
  BY <1>2 DEF IsPiece
<1>4. Len(b) = Len(s) /\ \A i \in 1..Len(s) : b[i] = s[i]
  BY <1>1, <1>3
<1>5. b = s
  BY <1>4, SeqEqual
<1> QED
  BY <1>3, <1>5

\* Texts that agree up to a place have the same pieces up to there.
SameUpTo(s, t, n) == \A i \in 1..n : s[i] = t[i]
SamePieces(s, t, m, n) == Between(s, m, n) = Between(t, m, n)

LEMMA SamePiece ==
    ASSUME NEW S, NEW s, NEW t, NEW m, NEW n, s \in Seq(S), t \in Seq(S), m \in Nat, n \in Nat,
           m <= n, n <= Len(s), n <= Len(t), SameUpTo(s, t, n)
    PROVE  SamePieces(s, t, m, n)
<1>1. IsPiece(Between(s, m, n), S, s, m, n) /\ IsPiece(Between(t, m, n), S, t, m, n)
  BY Piece
<1>2. PICK b \in Seq(S), c \in Seq(S) :
          /\ b = Between(s, m, n) /\ Len(b) = n - m /\ \A i \in 1..(n - m) : b[i] = s[m + i]
          /\ c = Between(t, m, n) /\ Len(c) = n - m /\ \A i \in 1..(n - m) : c[i] = t[m + i]
  BY <1>1 DEF IsPiece
<1>3. \A i \in 1..(n - m) : m + i \in 1..n
  OBVIOUS
<1>4. \A i \in 1..Len(b) : b[i] = c[i]
  BY <1>2, <1>3 DEF SameUpTo
<1>5. b = c
  BY <1>2, <1>4, SeqEqual
<1> QED
  BY <1>2, <1>5 DEF SamePieces

\* Texts in a row.
InARow(a, b, c, d) == a \o ((b \o c) \o d) = ((a \o b) \o c) \o d
InThree(a, b, c) == (a \o b) \o c = a \o (b \o c)

LEMMA ThreeInARow ==
    ASSUME NEW S, NEW a \in Seq(S), NEW b \in Seq(S), NEW c \in Seq(S)
    PROVE  InThree(a, b, c)
  BY ConcatAssociative DEF InThree

LEMMA FourInARow ==
    ASSUME NEW S, NEW a \in Seq(S), NEW b \in Seq(S), NEW c \in Seq(S), NEW d \in Seq(S)
    PROVE  InARow(a, b, c, d)
<1>1. PICK bc \in Seq(S), ab \in Seq(S) : bc = b \o c /\ ab = a \o b
  BY ConcatProperties
<1>2. InThree(a, bc, d) /\ InThree(a, b, c)
  BY ThreeInARow
<1>3. (a \o bc) \o d = a \o (bc \o d) /\ (a \o b) \o c = a \o (b \o c)
  BY <1>2, Zenon DEF InThree
<1> QED
  BY <1>1, <1>3, Zenon DEF InARow

\* What the hunks of a file make of it: some text, or a refusal.
Results == [out : Seq(Lines), verdict : {"ok", "conflict", "panic"}]

LEMMA AppliedTypes ==
    ASSUME NEW original \in Seq(Lines), NEW hunks \in Seq(Hunks)
    PROVE  AppliedHunks(original, hunks) \in Results
<1>1. PICK last \in States : last = HunksApplied(original, hunks)
  <2>1. Len(hunks) \in Nat
    BY LenProperties
  <2>2. PICK h : /\ h[0] = [out |-> <<>>, at |-> 0, verdict |-> "ok"]
                 /\ \A n \in 1..Len(hunks) : h[n] = AfterHunk(original, h[n - 1], hunks[n])
                 /\ HunksApplied(original, hunks) = h[Len(hunks)]
    BY <2>1, HunksRun
  <2>3. \A n \in 0..Len(hunks) : h[n] \in States
    BY <2>2, HunksMean
  <2> QED
    BY <2>1, <2>2, <2>3
<1>2. last.out \in Seq(Lines) /\ last.at \in Nat /\ last.verdict \in {"ok", "conflict", "panic"}
  BY DEF States
<1>3. AppliedHunks(original, hunks) =
         IF hunks = <<>> THEN [out |-> original, verdict |-> "ok"]
         ELSE IF last.verdict # "ok" THEN [out |-> <<>>, verdict |-> last.verdict]
         ELSE IF last.at > Len(original) THEN [out |-> <<>>, verdict |-> "panic"]
         ELSE [out |-> last.out \o Between(original, last.at, Len(original)), verdict |-> "ok"]
  BY <1>1 DEF AppliedHunks
<1>4. <<>> \in Seq(Lines)
  OBVIOUS
<1>5. ASSUME ~(last.at > Len(original))
      PROVE  last.out \o Between(original, last.at, Len(original)) \in Seq(Lines)
  <2>1. Len(original) \in Nat
    BY LenProperties
  <2>2. IsPiece(Between(original, last.at, Len(original)), Lines, original, last.at, Len(original))
    BY <1>2, <1>5, <2>1, Piece
  <2>3. Between(original, last.at, Len(original)) \in Seq(Lines)
    BY <2>2 DEF IsPiece
  <2> QED
    BY <1>2, <2>3, ConcatProperties
<1> DEFINE final == last.out \o Between(original, last.at, Len(original))
<1> HIDE DEF final
<1>6. ~(last.at > Len(original)) => final \in Seq(Lines)
  BY <1>5 DEF final
<1>7. AppliedHunks(original, hunks) =
         IF hunks = <<>> THEN [out |-> original, verdict |-> "ok"]
         ELSE IF last.verdict # "ok" THEN [out |-> <<>>, verdict |-> last.verdict]
         ELSE IF last.at > Len(original) THEN [out |-> <<>>, verdict |-> "panic"]
         ELSE [out |-> final, verdict |-> "ok"]
  BY <1>3 DEF final
<1>8. CASE hunks = <<>>
  BY <1>7, <1>8 DEF Results
<1>9. CASE hunks # <<>> /\ last.verdict # "ok"
  BY <1>2, <1>4, <1>7, <1>9 DEF Results
<1>10. CASE hunks # <<>> /\ last.verdict = "ok" /\ last.at > Len(original)
  BY <1>4, <1>7, <1>10 DEF Results
<1>11. CASE hunks # <<>> /\ last.verdict = "ok" /\ ~(last.at > Len(original))
  BY <1>6, <1>7, <1>11 DEF Results
<1> QED
  BY <1>8, <1>9, <1>10, <1>11

\* A patch whose hunks fit leaves text.
LEMMA PatchedIsText ==
    ASSUME NEW original \in Seq(Lines), NEW hunks \in Seq(Hunks),
           Separate(hunks), \A i \in DOMAIN hunks : Fits(original, hunks[i])
    PROVE  Patched(original, hunks) \in Seq(Lines)
<1>1. Len(hunks) \in Nat
  BY LenProperties
<1>2. PICK g : /\ g[0] = original
               /\ \A n \in 1..Len(hunks) : g[n] = Replaced(g[n - 1], hunks[Len(hunks) + 1 - n])
               /\ Patched(original, hunks) = g[Len(hunks)]
  <2>1. PICK r : PatchRunning(original, hunks, r)
    BY <1>1, PatchedRuns
  <2> QED
    BY <2>1 DEF PatchRunning
<1>3. \A n \in 0..Len(hunks) : g[n] \in Seq(Lines)
  <2>1. \A n \in 0..Len(hunks) : Kept(g[n], original, hunks, Len(hunks) - n)
    BY <1>2, PatchedKeeps
  <2> QED
    BY <2>1 DEF Kept
<1> QED
  BY <1>1, <1>2, <1>3


\* What the in-process applier accepts is the patch: the hunks fit and none overlaps another, and
\* the text it builds from the first hunk to the last is what replacing them from the last to the
\* first leaves.
LEMMA HunksArePatch ==
    ASSUME NEW original \in Seq(Lines), NEW hunks \in Seq(Hunks),
           AppliedHunks(original, hunks).verdict = "ok"
    PROVE  /\ Separate(hunks) /\ \A i \in DOMAIN hunks : Fits(original, hunks[i])
           /\ AppliedHunks(original, hunks).out = Patched(original, hunks)
<1> DEFINE L == Len(hunks)
<1>1. L \in Nat /\ DOMAIN hunks = 1..L /\ Len(original) \in Nat
  BY LenProperties
<1>2. PICK g : /\ g[0] = original
               /\ \A n \in 1..Len(hunks) : g[n] = Replaced(g[n - 1], hunks[Len(hunks) + 1 - n])
               /\ Patched(original, hunks) = g[Len(hunks)]
  <2>1. PICK r : PatchRunning(original, hunks, r)
    BY <1>1, PatchedRuns
  <2> QED
    BY <2>1 DEF PatchRunning
<1>3. PICK h : /\ h[0] = [out |-> <<>>, at |-> 0, verdict |-> "ok"]
               /\ \A n \in 1..Len(hunks) : h[n] = AfterHunk(original, h[n - 1], hunks[n])
               /\ HunksApplied(original, hunks) = h[Len(hunks)]
  BY <1>1, HunksRun
<1>4. CASE hunks = <<>>
  <2>1. L = 0 /\ AppliedHunks(original, hunks).out = original
    BY <1>4 DEF AppliedHunks
  <2>2. Patched(original, hunks) = original
    BY <1>2, <2>1
  <2>3. DOMAIN hunks = {}
    BY <1>1, <2>1
  <2> QED
    BY <2>1, <2>2, <2>3 DEF Separate
<1>5. CASE hunks # <<>>
  <2>1. /\ h[L].verdict = "ok" /\ ~(h[L].at > Len(original))
        /\ AppliedHunks(original, hunks).out = h[L].out \o Between(original, h[L].at, Len(original))
    <3>1. PICK last : last = h[L]
      OBVIOUS
    <3>2. AppliedHunks(original, hunks) =
            IF last.verdict # "ok" THEN [out |-> <<>>, verdict |-> last.verdict]
            ELSE IF last.at > Len(original) THEN [out |-> <<>>, verdict |-> "panic"]
            ELSE [out |-> last.out \o Between(original, last.at, Len(original)), verdict |-> "ok"]
      BY <1>3, <1>5, <3>1 DEF AppliedHunks
    <3>3. last.verdict = "ok" /\ ~(last.at > Len(original))
      BY <3>2
    <3> DEFINE result == last.out \o Between(original, last.at, Len(original))
    <3>4. AppliedHunks(original, hunks) = [out |-> result, verdict |-> "ok"]
      BY <3>2, <3>3
    <3>5. AppliedHunks(original, hunks).out = result
      <4> HIDE DEF result
      <4> QED
        BY <3>4
    <3> QED
      BY <3>1, <3>3, <3>5, Zenon
  <2>2. \A n \in 0..L : h[n] \in States
    BY <1>3, HunksMean
  <2>3. h[L].at <= Len(original)
    <3>1. h[L].at \in Nat
      BY <1>1, <2>2 DEF States
    <3> QED
      BY <1>1, <2>1, <3>1
  <2>4. \A n \in 1..L :
           /\ h[n - 1].at <= Place(hunks[n]) /\ h[n].at <= Len(original)
           /\ h[n].at = Place(hunks[n]) + Len(OldSide(hunks[n]))
           /\ h[n].out = (h[n - 1].out \o Between(original, h[n - 1].at, Place(hunks[n])))
                             \o NewSide(hunks[n])
           /\ Fits(original, hunks[n])
    BY <1>3, <2>1, <2>3, HunksMean
  <2>5. \A n \in 1..L : hunks[n] \in Hunks
    BY ElementOfSeq
  <2>6. \A n \in 0..L : h[n].at \in Nat /\ h[n].out \in Seq(Lines)
    BY <2>2 DEF States
  <2>7. \A i \in DOMAIN hunks : Fits(original, hunks[i])
    BY <1>1, <2>4
  <2>8. \A n \in 1..L : h[n].at = End(hunks[n])
    BY <2>4 DEF End
  <2>9. Separate(hunks)
    <3> DEFINE T == {d \in Nat : \A i \in 1..L : i + d <= L => h[i].at <= h[i + d].at}
    <3>1. 0 \in T
      <4>1. \A i \in 1..L : i + 0 = i /\ h[i].at <= h[i].at
        BY <1>1, <2>6
      <4> QED
        BY <4>1
    <3>2. ASSUME NEW d \in Nat, d \in T PROVE d + 1 \in T
      <4> SUFFICES ASSUME NEW i \in 1..L, i + (d + 1) <= L PROVE h[i].at <= h[i + (d + 1)].at
        OBVIOUS
      <4>1. PICK j \in 1..L : j = i + (d + 1)
        BY <1>1
      <4>2. i + d <= L /\ j - 1 = i + d /\ j - 1 \in 0..L /\ i \in 0..L
        BY <1>1, <4>1
      <4>3. h[i].at <= h[j - 1].at
        BY <3>2, <4>2
      <4>4. h[j - 1].at <= Place(hunks[j]) /\ hunks[j] \in Hunks /\ h[j].at = End(hunks[j])
        BY <2>4, <2>5, <2>8
      <4>5. Place(hunks[j]) \in Nat /\ End(hunks[j]) \in Nat /\ Place(hunks[j]) <= End(hunks[j])
        BY <4>4, HunkEnds
      <4>6. h[i].at \in Nat /\ h[j - 1].at \in Nat
        BY <2>6, <4>2
      <4>7. h[i].at <= h[j].at
        BY <4>3, <4>4, <4>5, <4>6, SMTT(30)
      <4> QED
        BY <4>1, <4>7
    <3>3. Nat \subseteq T
      <4> HIDE DEF T
      <4> QED
        BY <3>1, <3>2, Counting
    <3>4. ASSUME NEW i \in 1..L, NEW j \in 1..L, i < j
          PROVE  Place(hunks[i]) + Len(OldSide(hunks[i])) <= Place(hunks[j])
      <4>1. PICK d \in Nat : d = (j - 1) - i
        <5>1. (j - 1) - i \in Nat
          BY <1>1, <3>4
        <5> QED
          BY <5>1
      <4>2. i + d = j - 1 /\ i + d <= L /\ i \in 0..L /\ j - 1 \in 0..L
        BY <1>1, <3>4, <4>1
      <4>3. h[i].at <= h[j - 1].at
        BY <3>3, <4>2
      <4>4. h[j - 1].at <= Place(hunks[j]) /\ hunks[j] \in Hunks /\ hunks[i] \in Hunks /\ h[i].at = End(hunks[i])
        BY <2>4, <2>5, <2>8
      <4>5. Place(hunks[j]) \in Nat
        BY <4>4, HunkEnds
      <4>6. h[i].at \in Nat /\ h[j - 1].at \in Nat
        BY <2>6, <4>2
      <4>7. End(hunks[i]) <= Place(hunks[j])
        BY <4>3, <4>4, <4>5, <4>6, SMTT(30)
      <4> QED
        BY <4>7 DEF End
    <3> QED
      BY <1>1, <3>4 DEF Separate
  <2>10. \A n \in 0..Len(hunks) : Kept(g[n], original, hunks, Len(hunks) - n)
    BY <1>2, <2>7, <2>9, PatchedKeeps
  <2> DEFINE final == h[L].out \o Between(original, h[L].at, Len(original))
             Whole(k) == h[L - k].out \o Between(g[k], h[L - k].at, Len(g[k]))
             T == {k \in Nat : k <= L => Whole(k) = final}
  <2>11. 0 \in T
    <3>1. L - 0 = L
      BY <1>1
    <3>2. Whole(0) = final
      BY <1>2, <3>1
    <3> QED
      BY <3>2
  <2>12. ASSUME NEW k \in Nat, k \in T PROVE k + 1 \in T
    <3> HIDE DEF Whole, final
    <3> SUFFICES ASSUME k + 1 <= L PROVE Whole(k + 1) = final
      OBVIOUS
    <3>1. PICK m \in 1..L : m = L - k
      <4>1. L - k \in 1..L
        BY <1>1
      <4> QED
        BY <4>1
    <3>2. k + 1 \in 1..L /\ (k + 1) - 1 = k /\ L + 1 - (k + 1) = m /\ L - (k + 1) = m - 1 /\ k \in 0..L
      <4>1. L \in Nat /\ k \in Nat /\ m = L - k /\ k + 1 <= L
        BY <1>1, <3>1
      <4> HIDE DEF L
      <4> QED
        BY <4>1
    <3>3. Whole(k) = final
      BY <2>12, <3>2
    <3>4. PICK hunk \in Hunks : hunk = hunks[m]
      BY <2>5
    <3>5. g[k + 1] = Replaced(g[k], hunk)
      <4>1. PICK n \in 1..L : n = k + 1
        BY <3>2
      <4>2. g[n] = Replaced(g[n - 1], hunks[Len(hunks) + 1 - n])
        BY <1>2
      <4>3. n - 1 = k /\ Len(hunks) + 1 - n = m
        BY <3>2, <4>1
      <4> QED
        BY <3>4, <4>1, <4>2, <4>3
    <3>6. PICK words \in Seq(Lines) : words = g[k]
      BY <2>10, <3>2 DEF Kept
    <3>7. End(hunk) <= Len(words) /\ \A i \in 1..End(hunk) : words[i] = original[i]
      <4>1. m \in 1..m
        BY <1>1
      <4>2. Kept(words, original, hunks, m)
        BY <2>10, <3>1, <3>2, <3>6
      <4> QED
        BY <3>4, <4>1, <4>2 DEF Kept
    <3>8. PICK p \in Nat, e \in Nat, a \in Nat, new \in Seq(Lines), old \in Seq(Lines), out \in Seq(Lines) :
             /\ p = Place(hunk) /\ e = End(hunk) /\ p <= e /\ new = NewSide(hunk)
             /\ a = h[m - 1].at /\ old = h[m - 1].out /\ out = h[m].out
      <4>1. m - 1 \in 0..L /\ m \in 0..L
        BY <1>1
      <4> QED
        BY <2>6, <4>1, HunkEnds, Sides
    <3>9. a <= p /\ e = h[m].at /\ e <= Len(original) /\ out = (old \o Between(original, a, p)) \o new
      BY <2>4, <2>8, <3>4, <3>8
    <3>10. Between(original, a, p) = Between(words, a, p)
      <4>1. Len(words) \in Nat
        BY LenProperties
      <4>2. p <= Len(words) /\ p <= Len(original) /\ \A i \in 1..p : i \in 1..e
        BY <1>1, <3>7, <3>8, <3>9, <4>1, SMTT(30)
      <4>3. SameUpTo(original, words, p)
        BY <3>7, <3>8, <4>2 DEF SameUpTo
      <4>4. p <= Len(words) /\ p <= Len(original) /\ a <= p
        BY <3>9, <4>2
      <4>5. SamePieces(original, words, a, p)
        BY <4>3, <4>4, SamePiece
      <4> QED
        BY <4>5 DEF SamePieces
    <3>11. PICK spliced : spliced = Spliced(words, p, new, e)
      OBVIOUS
    <3>12. g[k + 1] = spliced
      BY <3>5, <3>6, <3>8, <3>11 DEF Replaced, Spliced, End
    <3>13. Between(spliced, a, Len(spliced)) = (Between(words, a, p) \o new) \o Between(words, e, Len(words))
      <4>1. RestIs(Spliced(words, p, new, e), words, p, new, e, a)
        BY <3>7, <3>8, <3>9, RestOfSplice
      <4> QED
        BY <3>11, <4>1, Zenon DEF RestIs
    <3>14. PICK between \in Seq(Lines), rest \in Seq(Lines) :
              between = Between(words, a, p) /\ rest = Between(words, e, Len(words))
      <4>1. Len(words) \in Nat
        BY LenProperties
      <4>2. p <= Len(words)
        BY <3>7, <3>8, <4>1
      <4>3. IsPiece(Between(words, a, p), Lines, words, a, p)
        BY <3>9, <4>2, Piece
      <4>4. IsPiece(Between(words, e, Len(words)), Lines, words, e, Len(words))
        BY <3>7, <3>8, <4>1, Piece, SMTT(30)
      <4> QED
        BY <4>3, <4>4 DEF IsPiece
    <3>15. Whole(k + 1) = old \o ((between \o new) \o rest)
      BY <3>2, <3>8, <3>12, <3>13, <3>14 DEF Whole
    <3>16. Whole(k) = out \o rest
      BY <3>1, <3>6, <3>8, <3>9, <3>14, ZenonT(30) DEF Whole
    <3>17. out = (old \o between) \o new
      BY <3>9, <3>10, <3>14
    <3>18. old \o ((between \o new) \o rest) = ((old \o between) \o new) \o rest
      <4>1. InARow(old, between, new, rest)
        BY FourInARow
      <4> QED
        BY <4>1, Zenon DEF InARow
    <3> QED
      BY <3>3, <3>15, <3>16, <3>17, <3>18
  <2>13. Nat \subseteq T
    <3> HIDE DEF T
    <3> QED
      BY <2>11, <2>12, Counting
  <2>14. Whole(L) = final
    <3> HIDE DEF Whole, final
    <3>1. L \in T /\ L <= L
      BY <1>1, <2>13
    <3> QED
      BY <3>1
  <2>15. Whole(L) = Patched(original, hunks)
    <3>1. PICK words \in Seq(Lines) : words = g[L]
      BY <1>1, <2>10 DEF Kept
    <3>2. L - L = 0 /\ h[0].out = <<>> /\ h[0].at = 0
      BY <1>1, <1>3
    <3>3. Whole(L) = <<>> \o Between(words, 0, Len(words))
      BY <3>1, <3>2
    <3>4. Between(words, 0, Len(words)) = words
      BY WholePiece
    <3>5. <<>> \o words = words
      BY ConcatEmptySeq
    <3> QED
      BY <1>2, <3>1, <3>3, <3>4, <3>5
  <2> QED
    BY <2>1, <2>7, <2>9, <2>14, <2>15
<1> QED
  BY <1>4, <1>5


-----------------------------------------------------------------------------
(* The groups of a diff *)

\* Of places in a sequence there is a last one.
LEMMA LatestPlace ==
    ASSUME NEW N \in Nat, NEW places \in SUBSET (1..N), places # {}
    PROVE  Latest(places) \in places
<1> DEFINE HasLast(S) == \E k \in S : \A j \in S : j <= k
           T == {n \in Nat : \A S \in SUBSET (1..n) : S # {} => HasLast(S)}
<1>1. 0 \in T
  <2>1. 1..0 = {}
    OBVIOUS
  <2> QED
    BY <2>1
<1>2. ASSUME NEW n \in Nat, n \in T PROVE n + 1 \in T
  <2>1. ASSUME NEW S \in SUBSET (1 .. n + 1), S # {} PROVE HasLast(S)
    <3>1. CASE n + 1 \in S
      <4>1. \A j \in S : j <= n + 1
        BY <1>2, <2>1
      <4> QED
        BY <3>1, <4>1
    <3>2. CASE n + 1 \notin S
      <4>1. S \in SUBSET (1..n)
        BY <1>2, <2>1, <3>2
      <4> QED
        BY <1>2, <2>1, <4>1
    <3> QED
      BY <3>1, <3>2
  <2> QED
    BY <1>2, <2>1
<1>3. N \in T
  <2>1. \A n \in Nat : n \in T => n + 1 \in T
    BY <1>2
  <2> HIDE DEF T
  <2> QED
    BY <1>1, <2>1, Counting
<1>4. \E k \in places : \A j \in places : j <= k
  BY <1>3
<1> QED
  BY <1>4 DEF Latest

\* What a hunk is parsed to is a hunk.
LEMMA ParsedHunks ==
    ASSUME NEW hunk \in Hunks
    PROVE  ParsedHunk(hunk) \in Hunks
<1>1. hunk.lines \in Seq(HunkLines) /\ hunk.start \in Nat
  BY DEF Hunks
<1>2. ParsedLines(hunk.lines) \in Seq(HunkLines)
  BY <1>1, PickedPlaces DEF ParsedLines
<1> QED
  BY <1>1, <1>2 DEF ParsedHunk, Hunk, Hunks

\* What a group is parsed to is a group: its own, or that of the file that a line of it names.
LEMMA ParsedGroups ==
    ASSUME NEW group \in FileGroups
    PROVE  ParsedGroup(group) \in FileGroups
<1>1. group.path \in Paths /\ group.op \in {"edit", "new", "delete"} /\ group.hunks \in Seq(Hunks)
  BY DEF FileGroups
<1> DEFINE N == Len(group.hunks)
           parsed == [j \in DOMAIN group.hunks |-> ParsedHunk(group.hunks[j])]
           first == Latest(HunksNamingFiles(group))
           hunk == group.hunks[first]
           line == hunk.lines[Latest(LinesNamingFiles(hunk))]
<1>2. N \in Nat /\ DOMAIN group.hunks = 1..N /\ \A j \in 1..N : group.hunks[j] \in Hunks
  BY <1>1, LenProperties, ElementOfSeq
<1>3. parsed \in Seq(Hunks) /\ Len(parsed) = N
  <2>1. \A j \in 1..N : parsed[j] \in Hunks
    BY <1>2, ParsedHunks
  <2>2. parsed \in [1..N -> Hunks]
    BY <1>2, <2>1
  <2> HIDE DEF parsed
  <2> QED
    BY <1>2, <2>2
<1>4. ParsedGroup(group) = IF HunksNamingFiles(group) = {}
                           THEN [path |-> group.path, op |-> group.op, hunks |-> parsed]
                           ELSE [path |-> Naming[line.text], op |-> "edit", hunks |-> SubSeq(parsed, first, Len(parsed))]
  BY Zenon DEF ParsedGroup, Group
<1> HIDE DEF parsed, first
<1>5. CASE HunksNamingFiles(group) = {}
  BY <1>1, <1>3, <1>4, <1>5 DEF FileGroups
<1>6. CASE HunksNamingFiles(group) # {}
  <2>1. first \in HunksNamingFiles(group)
    <3>1. HunksNamingFiles(group) \in SUBSET (1..N)
      BY <1>2 DEF HunksNamingFiles
    <3> QED
      BY <1>2, <1>6, <3>1, LatestPlace DEF first
  <2>2. first \in 1..N /\ LinesNamingFiles(hunk) # {} /\ hunk \in Hunks
    BY <1>2, <2>1 DEF HunksNamingFiles
  <2> HIDE DEF hunk
  <2>3. Latest(LinesNamingFiles(hunk)) \in LinesNamingFiles(hunk)
    <3>1. hunk.lines \in Seq(HunkLines)
      BY <2>2 DEF Hunks
    <3>2. Len(hunk.lines) \in Nat /\ DOMAIN hunk.lines = 1 .. Len(hunk.lines)
      BY <3>1, LenProperties
    <3>3. LinesNamingFiles(hunk) \in SUBSET (1 .. Len(hunk.lines))
      BY <3>2 DEF LinesNamingFiles
    <3> QED
      BY <2>2, <3>2, <3>3, LatestPlace
  <2>4. line.text \in DOMAIN Naming
    BY <2>3 DEF LinesNamingFiles, NamesFile
  <2> HIDE DEF line
  <2>5. Naming[line.text] \in Paths
    BY <2>4, LinesAssumption
  <2>6. SubSeq(parsed, first, Len(parsed)) \in Seq(Hunks)
    BY <1>2, <1>3, <2>2
  <2> QED
    BY <1>4, <1>6, <2>5, <2>6 DEF FileGroups
<1> QED
  BY <1>5, <1>6

\* A group without a line that reads like a header is parsed as it is.
LEMMA ParsedWhole ==
    ASSUME NEW group \in FileGroups,
           \A i \in DOMAIN group.hunks : \A j \in DOMAIN group.hunks[i].lines : ParsedLine(group.hunks[i].lines[j])
    PROVE  ParsedGroup(group) = group
<1>0. HunksNamingFiles(group) = {}
  BY DEF HunksNamingFiles, LinesNamingFiles, ParsedLine
<1>1. group.path \in Paths /\ group.op \in {"edit", "new", "delete"} /\ group.hunks \in Seq(Hunks)
      /\ group = [path |-> group.path, op |-> group.op, hunks |-> group.hunks]
  BY DEF FileGroups
<1>2. Len(group.hunks) \in Nat /\ DOMAIN group.hunks = 1..Len(group.hunks)
      /\ \A i \in DOMAIN group.hunks : group.hunks[i] \in Hunks
  BY <1>1, LenProperties, ElementOfSeq
<1>3. ASSUME NEW i \in DOMAIN group.hunks PROVE ParsedHunk(group.hunks[i]) = group.hunks[i]
  <2>1. PICK hunk \in Hunks : hunk = group.hunks[i]
    BY <1>2
  <2>2. PICK lines \in Seq(HunkLines) : lines = hunk.lines
    BY DEF Hunks
  <2>3. hunk = [start |-> hunk.start, lines |-> hunk.lines]
    BY DEF Hunks
  <2>4. DOMAIN lines = 1..Len(lines) /\ \A j \in DOMAIN lines : ParsedLine(lines[j])
    BY <2>1, <2>2, LenProperties
  <2>5. 1..Len(lines) \subseteq {k \in DOMAIN lines : ParsedLine(lines[k])}
    BY <2>4
  <2>6. ParsedLines(lines) = lines
    BY <2>5, PickedAll DEF ParsedLines
  <2> QED
    BY <2>1, <2>2, <2>3, <2>6 DEF ParsedHunk, Hunk
<1>4. [j \in DOMAIN group.hunks |-> ParsedHunk(group.hunks[j])] = group.hunks
  BY <1>1, <1>3
<1>5. ParsedGroup(group) = [path |-> group.path, op |-> group.op,
                            hunks |-> [j \in DOMAIN group.hunks |-> ParsedHunk(group.hunks[j])]]
  BY <1>0, Zenon DEF ParsedGroup, Group
<1> QED
  BY <1>1, <1>4, <1>5

\* The groups that are parsed are those of the diff, in their order, but for those without a header.
LEMMA ParsedDiff ==
    ASSUME NEW d \in Diffs
    PROVE  /\ Parsed(d) \in Seq(FileGroups)
           /\ \E r :
                 /\ \A i \in DOMAIN Parsed(d) :
                       r[i] \in DOMAIN d /\ HasHeader(d[r[i]]) /\ Parsed(d)[i] = ParsedGroup(d[r[i]])
                 /\ \A i, j \in DOMAIN Parsed(d) : r[i] = r[j] => i = j
                 /\ \A n \in DOMAIN d : HasHeader(d[n]) => \E i \in DOMAIN Parsed(d) : r[i] = n
<1> DEFINE N == Len(d)
           kept == {n \in DOMAIN d : HasHeader(d[n])}
           picked == Picked(d, kept)
<1>1. /\ d \in Seq(FileGroups) /\ N \in Nat /\ DOMAIN d = 1..N /\ \A n \in 1..N : d[n] \in FileGroups
  <2>1. d \in Seq(FileGroups)
    BY DiffsAssumption
  <2> QED
    BY <2>1, LenProperties, ElementOfSeq
<1> HIDE DEF kept
<1>2. PICK r \in [1..Len(picked) -> kept \cap (1..N)] :
          /\ picked \in Seq(FileGroups)
          /\ \A i, j \in 1..Len(picked) : i < j => r[i] < r[j]
          /\ \A n \in kept \cap (1..N) : \E j \in 1..Len(picked) : r[j] = n
          /\ \A j \in 1..Len(picked) : picked[j] = d[r[j]]
  BY <1>1, PickedPlaces
<1> HIDE DEF picked
<1>3. Len(picked) \in Nat /\ DOMAIN picked = 1..Len(picked)
  BY <1>2, LenProperties
<1>4. Parsed(d) = [i \in 1..Len(picked) |-> ParsedGroup(picked[i])]
  BY <1>3, Zenon DEF Parsed, picked, kept
<1>5. \A i \in 1..Len(picked) : r[i] \in 1..N /\ HasHeader(d[r[i]]) /\ Parsed(d)[i] = ParsedGroup(d[r[i]])
  <2> TAKE i \in 1..Len(picked)
  <2>1. r[i] \in kept \cap (1..N)
    BY <1>2
  <2>2. r[i] \in 1..N /\ HasHeader(d[r[i]])
    BY <2>1 DEF kept
  <2>3. Parsed(d)[i] = ParsedGroup(picked[i]) /\ picked[i] = d[r[i]]
    BY <1>2, <1>4
  <2> QED
    BY <2>2, <2>3
<1>6. DOMAIN Parsed(d) = 1..Len(picked)
  BY <1>4
<1>7. \A i \in 1..Len(picked) : Parsed(d)[i] \in FileGroups
  BY <1>1, <1>5, ParsedGroups
<1>8. Parsed(d) \in Seq(FileGroups)
  BY <1>3, <1>4, <1>6, <1>7
<1>9. ASSUME NEW i \in 1..Len(picked), NEW j \in 1..Len(picked), r[i] = r[j]
      PROVE  i = j
  <2>1. r[i] \in 1..N /\ ~(r[i] < r[j]) /\ ~(r[j] < r[i])
    BY <1>1, <1>5, <1>9
  <2>2. ~(i < j) /\ ~(j < i)
    BY <1>2, <2>1
  <2> QED
    BY <1>3, <2>2
<1>10. \A n \in 1..N : HasHeader(d[n]) => \E i \in 1..Len(picked) : r[i] = n
  <2> SUFFICES ASSUME NEW n \in 1..N, HasHeader(d[n])
               PROVE  \E i \in 1..Len(picked) : r[i] = n
    OBVIOUS
  <2>1. n \in kept \cap (1..N)
    BY <1>1 DEF kept
  <2> QED
    BY <1>2, <2>1
<1> QED
  BY <1>1, <1>5, <1>6, <1>8, <1>9, <1>10

\* A file has one group in a diff.
LEMMA GroupsOfFiles ==
    ASSUME NEW d \in Diffs, NEW f
    PROVE  /\ \A n \in DOMAIN d : d[n].path = f => Touches(d, f) /\ GroupOf(d, f) = d[n]
           /\ Touches(d, f) => \E n \in DOMAIN d : d[n].path = f /\ GroupOf(d, f) = d[n]
           /\ Touches(d, f) => GroupOf(d, f) \in FileGroups /\ GroupOf(d, f).path = f
                                 /\ GroupOf(d, f) \in Range(d)
<1>1. /\ d \in Seq(FileGroups) /\ \A i, j \in DOMAIN d : d[i].path = d[j].path => i = j
  BY DiffsAssumption
<1>2. \A n \in DOMAIN d : d[n] \in FileGroups
  BY <1>1, LenProperties, ElementOfSeq
<1>3. ASSUME NEW n \in DOMAIN d, d[n].path = f PROVE Touches(d, f) /\ GroupOf(d, f) = d[n]
  <2>1. d[n] \in Range(d)
    BY DEF Range
  <2>2. \A g \in Range(d) : g.path = f => g = d[n]
    <3> SUFFICES ASSUME NEW m \in DOMAIN d, d[m].path = f PROVE d[m] = d[n]
      BY DEF Range
    <3> QED
      BY <1>1, <1>3
  <2> QED
    BY <1>3, <2>1, <2>2 DEF Touches, GroupOf
<1>4. Touches(d, f) => \E n \in DOMAIN d : d[n].path = f
  BY DEF Touches, Range
<1> QED
  BY <1>2, <1>3, <1>4 DEF Range


-----------------------------------------------------------------------------
(* What is staged, and what a patch makes of a file *)

Text == Seq(Lines) \cup {Missing}

\* A staged group is some text, or a refusal, and depends on its own file only.
LEMMA StagedTypes ==
    ASSUME NEW w \in [Paths -> Text], NEW group \in FileGroups
    PROVE  StagedGroup(w, group) \in Results
<1>1. group.path \in Paths /\ group.hunks \in Seq(Hunks) /\ w[group.path] \in Text
  BY DEF FileGroups
<1>2. <<>> \in Seq(Lines)
  OBVIOUS
<1>3. AppliedHunks(<<>>, group.hunks) \in Results
  BY <1>1, <1>2, AppliedTypes
<1>4. w[group.path] # Missing => AppliedHunks(w[group.path], group.hunks) \in Results
  BY <1>1, AppliedTypes DEF Text
<1>5. [out |-> <<>>, verdict |-> "conflict"] \in Results
  BY <1>2 DEF Results
<1> QED
  BY <1>3, <1>4, <1>5 DEF StagedGroup

LEMMA StagedAlike ==
    ASSUME NEW w, NEW v, NEW group, w[group.path] = v[group.path]
    PROVE  StagedGroup(w, group) = StagedGroup(v, group)
  BY DEF StagedGroup

\* A group that is staged is a patch of its file, unless a new file exists already.
LEMMA StagedIsPatch ==
    ASSUME NEW w \in [Paths -> Text], NEW group \in FileGroups,
           group.op # "delete", group.op = "new" => w[group.path] = Missing,
           StagedGroup(w, group).verdict = "ok"
    PROVE  Patchable(w, group) /\ StagedGroup(w, group).out = PatchedGroup(w, group)
<1>1. group.path \in Paths /\ group.hunks \in Seq(Hunks) /\ w[group.path] \in Text
  BY DEF FileGroups
<1>2. <<>> \in Seq(Lines)
  OBVIOUS
<1>3. CASE group.op = "new"
  <2>1. StagedGroup(w, group) = AppliedHunks(<<>>, group.hunks)
    BY <1>3 DEF StagedGroup
  <2>2. /\ Separate(group.hunks) /\ \A i \in DOMAIN group.hunks : Fits(<<>>, group.hunks[i])
        /\ AppliedHunks(<<>>, group.hunks).out = Patched(<<>>, group.hunks)
    BY <1>1, <1>2, <2>1, HunksArePatch
  <2>3. PatchedGroup(w, group) = Patched(<<>>, group.hunks)
    BY <1>3 DEF PatchedGroup
  <2> QED
    BY <1>3, <2>1, <2>2, <2>3 DEF Patchable
<1>4. CASE group.op # "new"
  <2>1. w[group.path] # Missing
    <3> SUFFICES ASSUME w[group.path] = Missing PROVE FALSE
      OBVIOUS
    <3>1. StagedGroup(w, group) = [out |-> <<>>, verdict |-> "conflict"]
      BY <1>4 DEF StagedGroup
    <3> QED
      BY <3>1
  <2>2. w[group.path] \in Seq(Lines) /\ w[group.path] \notin {Missing, Truncated}
    BY <1>1, <2>1, ContentAssumption DEF Text
  <2>3. StagedGroup(w, group) = AppliedHunks(w[group.path], group.hunks)
    BY <2>1 DEF StagedGroup
  <2>4. /\ Separate(group.hunks) /\ \A i \in DOMAIN group.hunks : Fits(w[group.path], group.hunks[i])
        /\ AppliedHunks(w[group.path], group.hunks).out = Patched(w[group.path], group.hunks)
    BY <1>1, <2>2, <2>3, HunksArePatch
  <2>5. PatchedGroup(w, group) = Patched(w[group.path], group.hunks)
    BY <1>4 DEF PatchedGroup
  <2> QED
    BY <1>4, <2>2, <2>3, <2>4, <2>5 DEF Patchable
<1> QED
  BY <1>3, <1>4

\* A file that is patched is text, or gone.
LEMMA PatchedTypes ==
    ASSUME NEW w \in [Paths -> Text], NEW group \in FileGroups, Patchable(w, group)
    PROVE  PatchedGroup(w, group) \in Text
<1>1. group.path \in Paths /\ group.hunks \in Seq(Hunks) /\ w[group.path] \in Text
      /\ group.op \in {"edit", "new", "delete"}
  BY DEF FileGroups
<1>2. <<>> \in Seq(Lines)
  OBVIOUS
<1>3. CASE group.op = "delete"
  BY <1>3 DEF PatchedGroup, Text
<1>4. CASE group.op = "new"
  <2>1. Separate(group.hunks) /\ \A i \in DOMAIN group.hunks : Fits(<<>>, group.hunks[i])
    BY <1>4 DEF Patchable
  <2>2. Patched(<<>>, group.hunks) \in Seq(Lines)
    BY <1>1, <1>2, <2>1, PatchedIsText
  <2> QED
    BY <1>4, <2>2 DEF PatchedGroup, Text
<1>5. CASE group.op = "edit"
  <2>1. w[group.path] \in Seq(Lines)
    BY <1>1, <1>5 DEF Patchable, Text
  <2>2. Separate(group.hunks) /\ \A i \in DOMAIN group.hunks : Fits(w[group.path], group.hunks[i])
    BY <1>5 DEF Patchable
  <2>3. Patched(w[group.path], group.hunks) \in Seq(Lines)
    BY <1>1, <2>1, <2>2, PatchedIsText
  <2> QED
    BY <1>5, <2>3 DEF PatchedGroup, Text
<1> QED
  BY <1>1, <1>3, <1>4, <1>5

LEMMA GitPatchedTypes ==
    ASSUME NEW w \in [Paths -> Text], NEW d \in Diffs, \A g \in Range(d) : Patchable(w, g)
    PROVE  GitPatched(w, d) \in [Paths -> Text]
<1> SUFFICES ASSUME NEW f \in Paths, Touches(d, f) PROVE PatchedGroup(w, GroupOf(d, f)) \in Text
  BY DEF GitPatched
<1>1. GroupOf(d, f) \in FileGroups /\ GroupOf(d, f) \in Range(d)
  BY GroupsOfFiles
<1> QED
  BY <1>1, PatchedTypes


\* Every variable has its type; a file is broken only by a write that failed.
ApplierTypes ==
    /\ files \in [Paths -> Text \cup {Truncated}] /\ (progress # "failed" => files \in [Paths -> Text])
    /\ theirs \in [Paths -> Text] /\ read \in [Paths -> Text]
    /\ diff \in Diffs /\ git \in BOOLEAN
    /\ progress \in Over \cup {"reading", "checking", "checked", "staging", "committing"}
    /\ staged \in Seq([path : Paths, text : Seq(Lines)])
    /\ conflicts \in Nat /\ userEdits \in 0..MaxUserEdits /\ written \in 0..Len(staged)

\* git stages nothing, and only what is committing has written.
StagesInProcess ==
    /\ git => progress \in {"reading", "nothing", "checking", "checked", "conflict", "rejected", "applied"}
    /\ ~git => progress \in {"reading", "nothing", "staging", "committing", "conflict", "panicked", "applied", "failed"}
    /\ git \/ progress \notin {"committing", "applied", "failed"} => written = 0
    /\ git => staged = <<>>
    /\ Looked <= Len(Groups)

\* Whether a group that was parsed is the only one of its file.
SoleGroup(i) == \A j \in DOMAIN Groups : Groups[j].path = Groups[i].path => j = i

\* As long as there is no conflict, the staged groups are the first of the diff's, each with the
\* text its hunks make of the file that was read, if no other is staged for that file.
StagedAsRead ==
    conflicts = 0 =>
        \A i \in DOMAIN staged :
            /\ staged[i].path = Groups[i].path
            /\ SoleGroup(i) => StagedGroup(read, Groups[i]) = [out |-> staged[i].text, verdict |-> "ok"]

\* Nothing is written before all groups are staged.
CommitsWhole ==
    ~git /\ progress \in {"committing", "applied", "failed"} =>
        /\ conflicts = 0 /\ Len(staged) = Len(Groups)
        /\ progress = "applied" => written = Len(staged)

\* A file is as the user left it unless it is written; then it has its staged text, or the user
\* has edited it since, unless another group has been staged for it.
WrittenAsStaged ==
    ~(git /\ progress = "applied") =>
    /\ \A f \in Paths \ WrittenPaths :
          files[f] = theirs[f] \/ (progress = "failed" /\ Breaking(f) /\ files[f] = Truncated)
    /\ \A i \in 1..written :
          SoleGroup(i) => \/ files[staged[i].path] = staged[i].text
                          \/ userEdits > 0 /\ files[staged[i].path] = theirs[staged[i].path]

\* What git has applied, it has read, and all of it fitted.
GitApplied ==
    git /\ progress = "applied" =>
        /\ read = theirs /\ files = GitPatched(read, diff)
        /\ \A g \in Range(diff) : Patchable(read, g)

ApplyInv == ApplierTypes /\ StagesInProcess /\ StagedAsRead /\ CommitsWhole /\ WrittenAsStaged /\ GitApplied

LEMMA ApplyStarts == ApplyInit => ApplyInv
<1> SUFFICES ASSUME ApplyInit PROVE ApplyInv
  OBVIOUS
<1>1. /\ files \in [Paths -> Text] /\ theirs = files /\ read = files /\ diff \in Diffs /\ git \in BOOLEAN
      /\ progress = "reading" /\ staged = <<>> /\ conflicts = 0 /\ written = 0 /\ userEdits = 0
  BY DiffsAssumption DEF ApplyInit, Text
<1>2. Groups \in Seq(FileGroups) /\ Len(Groups) \in Nat /\ Len(staged) = 0 /\ DOMAIN staged = {}
  BY <1>1, ParsedDiff, LenProperties DEF Groups
<1>3. ApplierTypes
  <2>1. staged \in Seq([path : Paths, text : Seq(Lines)])
    BY <1>1
  <2> QED
    BY <1>1, <1>2, <2>1, LinesAssumption DEF ApplierTypes, Over
<1>4. StagesInProcess /\ StagedAsRead /\ CommitsWhole /\ GitApplied
  BY <1>1, <1>2 DEF StagesInProcess, StagedAsRead, CommitsWhole, GitApplied, Looked
<1>5. WrittenAsStaged
  BY <1>1 DEF WrittenAsStaged
<1> QED
  BY <1>3, <1>4, <1>5 DEF ApplyInv

\* What the groups of the diff are, in a state.
LEMMA GroupsHere ==
    ASSUME ApplierTypes
    PROVE  /\ Groups \in Seq(FileGroups) /\ Len(Groups) \in Nat /\ DOMAIN Groups = 1..Len(Groups)
           /\ \A i \in 1..Len(Groups) : Groups[i] \in FileGroups /\ Groups[i].path \in Paths
           /\ Len(staged) \in Nat /\ DOMAIN staged = 1..Len(staged)
           /\ \A i \in 1..Len(staged) : staged[i].path \in Paths /\ staged[i].text \in Seq(Lines)
           /\ conflicts \in Nat /\ written \in Nat
<1>1. diff \in Diffs /\ staged \in Seq([path : Paths, text : Seq(Lines)]) /\ conflicts \in Nat
      /\ written \in 0..Len(staged)
  BY DEF ApplierTypes
<1>2. Len(staged) \in Nat /\ DOMAIN staged = 1..Len(staged)
  BY <1>1, LenProperties
<1>3. \A i \in 1..Len(staged) : staged[i] \in [path : Paths, text : Seq(Lines)]
  BY <1>1, ElementOfSeq
<1>4. Groups \in Seq(FileGroups)
  BY <1>1, ParsedDiff DEF Groups
<1>5. Len(Groups) \in Nat /\ DOMAIN Groups = 1..Len(Groups) /\ \A i \in 1..Len(Groups) : Groups[i] \in FileGroups
  BY <1>4, LenProperties, ElementOfSeq
<1>6. \A i \in 1..Len(Groups) : Groups[i].path \in Paths
  BY <1>5 DEF FileGroups
<1>7. \A i \in 1..Len(staged) : staged[i].path \in Paths /\ staged[i].text \in Seq(Lines)
  BY <1>3
<1>8. written \in Nat
  BY <1>1, <1>2
<1> QED
  BY <1>1, <1>2, <1>4, <1>5, <1>6, <1>7, <1>8, Zenon

\* A staged group that is alone has a file of its own.
LEMMA StagedApart ==
    ASSUME ApplierTypes, StagesInProcess, StagedAsRead, conflicts = 0
    PROVE  /\ Len(staged) <= Len(Groups)
           /\ \A i, j \in 1..Len(staged) : SoleGroup(i) /\ staged[i].path = staged[j].path => i = j
<1>1. Len(staged) \in Nat /\ DOMAIN staged = 1..Len(staged) /\ Len(Groups) \in Nat /\ DOMAIN Groups = 1..Len(Groups)
  BY GroupsHere
<1>2. Len(staged) <= Len(Groups)
  BY <1>1 DEF StagesInProcess, Looked
<1>3. \A i \in 1..Len(staged) : staged[i].path = Groups[i].path /\ i \in DOMAIN Groups
  <2>1. \A i \in 1..Len(staged) : i \in DOMAIN Groups
    BY <1>1, <1>2
  <2> QED
    BY <1>1, <2>1 DEF StagedAsRead
<1> QED
  BY <1>2, <1>3 DEF SoleGroup

LEMMA ReadDiffKeeps == ApplyInv /\ ReadDiff => ApplyInv'
<1> SUFFICES ASSUME ApplyInv, ReadDiff PROVE ApplyInv'
  OBVIOUS
<1>1. /\ progress = "reading" /\ progress' \in {"nothing", "checking", "staging"}
      /\ git => progress' # "staging"
      /\ ~git => progress' # "checking"
      /\ UNCHANGED <<files, diff, git, staged, conflicts, written, userEdits, theirs, read>>
  BY DEF ReadDiff
<1> USE DEF ApplyInv
<1>2. ApplierTypes'
  BY <1>1 DEF ApplierTypes, Over
<1>3. StagesInProcess'
  BY <1>1 DEF StagesInProcess, Looked, Groups, ApplierTypes
<1>4. StagedAsRead' /\ CommitsWhole' /\ GitApplied'
  BY <1>1 DEF StagedAsRead, CommitsWhole, GitApplied, Groups, SoleGroup
<1>5. WrittenAsStaged'
  BY <1>1 DEF WrittenAsStaged, WrittenPaths, Breaking, SoleGroup, Groups
<1> QED
  BY <1>2, <1>3, <1>4, <1>5

LEMMA CheckWithGitKeeps == ApplyInv /\ CheckWithGit => ApplyInv'
<1> SUFFICES ASSUME ApplyInv, CheckWithGit PROVE ApplyInv'
  OBVIOUS
<1>1. /\ progress = "checking" /\ progress' \in {"checked", "conflict"}
      /\ UNCHANGED <<files, diff, git, staged, conflicts, written, userEdits, theirs, read>>
  BY DEF CheckWithGit
<1> USE DEF ApplyInv
<1>2. ApplierTypes'
  BY <1>1 DEF ApplierTypes, Over
<1>3. git /\ written = 0
  BY <1>1 DEF StagesInProcess, ApplierTypes
<1>4. StagesInProcess'
  BY <1>1, <1>3 DEF StagesInProcess, Looked, Groups
<1>5. StagedAsRead' /\ CommitsWhole' /\ GitApplied'
  BY <1>1 DEF StagedAsRead, CommitsWhole, GitApplied, Groups, SoleGroup
<1>6. WrittenAsStaged'
  BY <1>1 DEF WrittenAsStaged, WrittenPaths, Breaking, SoleGroup, Groups
<1> QED
  BY <1>2, <1>4, <1>5, <1>6

\* Before anything is written the files are as the user left them.
LEMMA UntilWritten ==
    ASSUME ApplyInv, written = 0, ~(git /\ progress = "applied"), progress # "failed"
    PROVE  files = theirs
<1>1. files \in [Paths -> Text] /\ theirs \in [Paths -> Text]
  BY DEF ApplyInv, ApplierTypes
<1>2. WrittenPaths = {}
  BY DEF WrittenPaths
<1>3. \A f \in Paths : files[f] = theirs[f]
  BY <1>2 DEF ApplyInv, WrittenAsStaged
<1> QED
  BY <1>1, <1>3

LEMMA ApplyWithGitKeeps == ApplyInv /\ ApplyWithGit => ApplyInv'
<1> SUFFICES ASSUME ApplyInv, ApplyWithGit PROVE ApplyInv'
  OBVIOUS
<1> USE DEF ApplyInv
<1>1. /\ progress = "checked" /\ UNCHANGED <<diff, git, staged, conflicts, written, userEdits, theirs>>
  BY DEF ApplyWithGit
<1>2. git /\ written = 0
  BY <1>1 DEF StagesInProcess, ApplierTypes
<1>3. files \in [Paths -> Text] /\ theirs \in [Paths -> Text] /\ diff \in Diffs
  BY <1>1 DEF ApplierTypes
<1>4. CASE \A g \in Range(diff) : Patchable(files, g)
  <2>1. progress' = "applied" /\ files' = GitPatched(files, diff) /\ read' = files
    BY <1>4 DEF ApplyWithGit
  <2>2. files' \in [Paths -> Text] /\ read' \in [Paths -> Text]
    BY <1>3, <1>4, <2>1, GitPatchedTypes
  <2>3. ApplierTypes'
    BY <1>1, <2>1, <2>2 DEF ApplierTypes, Over
  <2>4. StagesInProcess'
    BY <1>1, <1>2, <2>1 DEF StagesInProcess, Looked, Groups
  <2>6. StagedAsRead'
    <3>1. DOMAIN staged = {} /\ staged' = staged
      BY <1>1, <1>2 DEF StagesInProcess
    <3> QED
      BY <3>1 DEF StagedAsRead
  <2>7. CommitsWhole' /\ WrittenAsStaged'
    BY <1>1, <1>2, <2>1 DEF CommitsWhole, WrittenAsStaged
  <2>8. files = theirs
    BY <1>1, <1>2, UntilWritten
  <2>9. GitApplied'
    BY <1>1, <1>4, <2>1, <2>8 DEF GitApplied
  <2> QED
    BY <2>3, <2>4, <2>6, <2>7, <2>9
<1>5. CASE ~(\A g \in Range(diff) : Patchable(files, g))
  <2>1. progress' = "rejected" /\ UNCHANGED <<files, read>>
    BY <1>5 DEF ApplyWithGit
  <2>2. ApplierTypes'
    BY <1>1, <2>1 DEF ApplierTypes, Over
  <2>3. StagesInProcess'
    BY <1>1, <1>2, <2>1 DEF StagesInProcess, Looked, Groups
  <2>4. StagedAsRead' /\ CommitsWhole' /\ GitApplied'
    BY <1>1, <2>1 DEF StagedAsRead, CommitsWhole, GitApplied, Groups, SoleGroup
  <2>5. WrittenAsStaged'
    BY <1>1, <2>1 DEF WrittenAsStaged, WrittenPaths, Breaking, SoleGroup, Groups
  <2> QED
    BY <2>2, <2>3, <2>4, <2>5
<1> QED
  BY <1>4, <1>5


LEMMA StageGroupKeeps == ApplyInv /\ StageGroup => ApplyInv'
<1> SUFFICES ASSUME ApplyInv, StageGroup PROVE ApplyInv'
  OBVIOUS
<1> USE DEF ApplyInv
<1>1. PICK group, new :
         /\ group = Groups[Looked + 1] /\ new = StagedGroup(files, group)
         /\ progress = "staging" /\ Looked < Len(Groups)
         /\ read' = [read EXCEPT ![group.path] = files[group.path]]
         /\ \/ new.verdict = "ok" /\ staged' = Append(staged, [path |-> group.path, text |-> new.out])
               /\ UNCHANGED <<progress, conflicts>>
            \/ new.verdict = "conflict" /\ conflicts' = conflicts + 1 /\ UNCHANGED <<progress, staged>>
            \/ new.verdict = "panic" /\ progress' = "panicked" /\ UNCHANGED <<staged, conflicts>>
         /\ UNCHANGED <<files, diff, git, written, userEdits, theirs>>
  BY DEF StageGroup
<1>2. ~git /\ written = 0 /\ files \in [Paths -> Text] /\ read \in [Paths -> Text]
  BY <1>1 DEF StagesInProcess, ApplierTypes
<1>3. /\ Len(Groups) \in Nat /\ DOMAIN Groups = 1..Len(Groups)
      /\ \A i \in 1..Len(Groups) : Groups[i] \in FileGroups /\ Groups[i].path \in Paths
      /\ Len(staged) \in Nat /\ DOMAIN staged = 1..Len(staged) /\ conflicts \in Nat
  BY GroupsHere
<1>4. Looked = Len(staged) + conflicts /\ Looked + 1 \in 1..Len(Groups)
  BY <1>1, <1>3 DEF Looked
<1>5. group \in FileGroups /\ group.path \in Paths
  BY <1>1, <1>3, <1>4
<1>6. new \in Results
  BY <1>1, <1>2, <1>5, StagedTypes
<1>7. new.out \in Seq(Lines) /\ new = [out |-> new.out, verdict |-> new.verdict]
  BY <1>6 DEF Results
<1>8. Groups' = Groups /\ read' \in [Paths -> Text] /\ read'[group.path] = files[group.path]
      /\ \A f \in Paths : f # group.path => read'[f] = read[f]
  BY <1>1, <1>2, <1>5 DEF Groups
\* What was staged is staged still.
<1>9. ASSUME conflicts = 0, NEW i \in 1..Len(staged)
      PROVE  /\ staged[i].path = Groups[i].path
             /\ SoleGroup(i) => StagedGroup(read', Groups[i]) = [out |-> staged[i].text, verdict |-> "ok"]
  <2>1. i \in 1..Len(Groups) /\ i # Looked + 1
    BY <1>3, <1>4, <1>9
  <2>2. SoleGroup(i) => Groups[i].path # group.path /\ Groups[i].path \in Paths
    BY <1>1, <1>3, <1>4, <2>1 DEF SoleGroup
  <2>3. SoleGroup(i) => StagedGroup(read', Groups[i]) = StagedGroup(read, Groups[i])
    BY <1>8, <2>2, StagedAlike
  <2> QED
    BY <1>3, <1>9, <2>3 DEF StagedAsRead
<1>10. CASE new.verdict = "ok" /\ staged' = Append(staged, [path |-> group.path, text |-> new.out])
            /\ UNCHANGED <<progress, conflicts>>
  <2> DEFINE r == [path |-> group.path, text |-> new.out]
  <2>1. r \in [path : Paths, text : Seq(Lines)] /\ r.path = group.path /\ r.text = new.out
    BY <1>5, <1>7
  <2>2. staged \in Seq([path : Paths, text : Seq(Lines)])
    BY DEF ApplierTypes
  <2> HIDE DEF r
  <2>3. staged' = Append(staged, r)
    BY <1>10 DEF r
  <2>4. /\ staged' \in Seq([path : Paths, text : Seq(Lines)]) /\ Len(staged') = Len(staged) + 1
        /\ \A i \in 1..Len(staged) : staged'[i] = staged[i]
        /\ staged'[Len(staged) + 1] = r
    BY <2>1, <2>2, <2>3, AppendProperties
  <2>5. ApplierTypes'
    <3>1. written' \in 0..Len(staged')
      BY <1>1, <1>2, <1>3, <2>4
    <3> QED
      BY <1>1, <1>8, <1>10, <2>4, <3>1 DEF ApplierTypes
  <2>6. StagesInProcess'
    <3>1. Looked' = Looked + 1 /\ Looked' <= Len(Groups)
      <4>1. Len(staged') = Len(staged) + 1 /\ conflicts' = conflicts
        BY <1>10, <2>4
      <4> QED
        BY <1>3, <1>4, <4>1 DEF Looked
    <3> QED
      BY <1>1, <1>2, <1>8, <1>10, <3>1 DEF StagesInProcess
  <2>7. StagedAsRead'
    <3> SUFFICES ASSUME conflicts = 0, NEW i \in DOMAIN staged'
                 PROVE  /\ staged'[i].path = Groups[i].path
                        /\ SoleGroup(i) => StagedGroup(read', Groups[i]) = [out |-> staged'[i].text, verdict |-> "ok"]
      BY <1>8, <1>10 DEF StagedAsRead, SoleGroup
    <3>1. i \in 1..Len(staged) \/ i = Len(staged) + 1
      <4>1. DOMAIN staged' = 1..Len(staged')
        BY <2>4, LenProperties
      <4> QED
        BY <1>3, <2>4, <4>1
    <3>2. CASE i \in 1..Len(staged)
      BY <1>9, <2>4, <3>2
    <3>3. CASE i = Len(staged) + 1
      <4>1. Groups[i] = group /\ staged'[i] = r
        BY <1>1, <1>3, <1>4, <2>4, <3>3
      <4>2. StagedGroup(read', group) = StagedGroup(files, group)
        BY <1>8, StagedAlike
      <4>3. StagedGroup(files, group) = [out |-> r.text, verdict |-> "ok"]
        BY <1>1, <1>7, <1>10, <2>1
      <4> QED
        BY <2>1, <4>1, <4>2, <4>3
    <3> QED
      BY <3>1, <3>2, <3>3
  <2>8. CommitsWhole' /\ GitApplied'
    BY <1>1, <1>2, <1>10 DEF CommitsWhole, GitApplied
  <2>9. WrittenAsStaged'
    <3>1. WrittenPaths' = {} /\ WrittenPaths = {} /\ 1..written' = {}
      BY <1>1, <1>2 DEF WrittenPaths
    <3>2. \A f \in Paths : files[f] = theirs[f]
      BY <1>1, <3>1 DEF WrittenAsStaged
    <3> QED
      BY <1>1, <3>1, <3>2 DEF WrittenAsStaged
  <2> QED
    BY <2>5, <2>6, <2>7, <2>8, <2>9
<1>11. CASE new.verdict = "conflict" /\ conflicts' = conflicts + 1 /\ UNCHANGED <<progress, staged>>
  <2>1. ApplierTypes'
    BY <1>1, <1>8, <1>11 DEF ApplierTypes
  <2>2. StagesInProcess'
    <3>1. Looked' = Looked + 1 /\ Looked' <= Len(Groups)
      BY <1>3, <1>4, <1>11 DEF Looked
    <3> QED
      BY <1>1, <1>2, <1>8, <1>11, <3>1 DEF StagesInProcess
  <2>3. StagedAsRead'
    BY <1>3, <1>11 DEF StagedAsRead
  <2>4. CommitsWhole' /\ GitApplied'
    BY <1>1, <1>2, <1>11 DEF CommitsWhole, GitApplied
  <2>5. WrittenAsStaged'
    BY <1>1, <1>11 DEF WrittenAsStaged, WrittenPaths, Breaking, SoleGroup, Groups
  <2> QED
    BY <2>1, <2>2, <2>3, <2>4, <2>5
<1>12. CASE new.verdict = "panic" /\ progress' = "panicked" /\ UNCHANGED <<staged, conflicts>>
  <2>1. ApplierTypes'
    BY <1>1, <1>2, <1>8, <1>12 DEF ApplierTypes, Over
  <2>2. StagesInProcess'
    <3>1. Looked' = Looked
      BY <1>12 DEF Looked
    <3> QED
      BY <1>1, <1>2, <1>8, <1>12, <3>1 DEF StagesInProcess
  <2>3. StagedAsRead'
    BY <1>3, <1>8, <1>9, <1>12 DEF StagedAsRead, SoleGroup
  <2>4. CommitsWhole' /\ GitApplied'
    BY <1>1, <1>2, <1>12 DEF CommitsWhole, GitApplied
  <2>5. WrittenAsStaged'
    BY <1>1, <1>12 DEF WrittenAsStaged, WrittenPaths, Breaking, SoleGroup, Groups
  <2> QED
    BY <2>1, <2>2, <2>3, <2>4, <2>5
<1> QED
  BY <1>1, <1>10, <1>11, <1>12

LEMMA DecideKeeps == ApplyInv /\ Decide => ApplyInv'
<1> SUFFICES ASSUME ApplyInv, Decide PROVE ApplyInv'
  OBVIOUS
<1> USE DEF ApplyInv
<1>1. /\ progress = "staging" /\ Looked = Len(Groups)
      /\ progress' = IF conflicts > 0 THEN "conflict" ELSE "committing"
      /\ UNCHANGED <<files, diff, git, staged, conflicts, written, userEdits, theirs, read>>
  BY DEF Decide
<1>2. ~git /\ written = 0
  BY <1>1 DEF StagesInProcess, ApplierTypes
<1>3. Len(staged) \in Nat /\ conflicts \in Nat
  BY GroupsHere
<1>4. progress' \in {"conflict", "committing"}
  BY <1>1
<1>5. ApplierTypes'
  BY <1>1, <1>4 DEF ApplierTypes, Over
<1>6. StagesInProcess'
  BY <1>1, <1>2, <1>4 DEF StagesInProcess, Looked, Groups
<1>7. StagedAsRead' /\ GitApplied'
  BY <1>1, <1>2 DEF StagedAsRead, GitApplied, Groups, SoleGroup
<1>8. CommitsWhole'
  BY <1>1, <1>3, <1>4 DEF CommitsWhole, Looked, Groups
<1>9. WrittenAsStaged'
  BY <1>1, <1>4 DEF WrittenAsStaged, WrittenPaths, Breaking, SoleGroup, Groups
<1> QED
  BY <1>5, <1>6, <1>7, <1>8, <1>9

\* The next file to be written, in a state that is committing.
LEMMA NextWrite ==
    ASSUME ApplyInv, progress = "committing", written < Len(staged)
    PROVE  /\ ~git /\ conflicts = 0 /\ Len(staged) = Len(Groups) /\ written + 1 \in 1..Len(staged)
           /\ staged[written + 1].path \in Paths /\ staged[written + 1].text \in Seq(Lines)
           /\ \A i \in 1..written :
                 staged[i].path \in Paths /\ (SoleGroup(i) => staged[i].path # staged[written + 1].path)
           /\ Len(staged) \in Nat /\ written \in Nat
<1> USE DEF ApplyInv
<1>1. ~git
  BY DEF StagesInProcess, ApplierTypes
<1>2. conflicts = 0 /\ Len(staged) = Len(Groups)
  BY <1>1 DEF CommitsWhole
<1>3. /\ Len(staged) \in Nat /\ written \in Nat
      /\ \A i \in 1..Len(staged) : staged[i].path \in Paths /\ staged[i].text \in Seq(Lines)
  BY GroupsHere
<1>4. \A i, j \in 1..Len(staged) : SoleGroup(i) /\ staged[i].path = staged[j].path => i = j
  BY <1>2, StagedApart
<1>5. written + 1 \in 1..Len(staged) /\ \A i \in 1..written : i \in 1..Len(staged) /\ i # written + 1
  BY <1>3
<1> QED
  BY <1>1, <1>2, <1>3, <1>4, <1>5

LEMMA WriteStagedKeeps == ApplyInv /\ WriteStaged => ApplyInv'
<1> SUFFICES ASSUME ApplyInv, WriteStaged PROVE ApplyInv'
  OBVIOUS
<1> USE DEF ApplyInv
<1>1. PICK p, words :
         /\ p = staged[written + 1].path /\ words = staged[written + 1].text
         /\ progress = "committing" /\ written < Len(staged)
         /\ files' = [files EXCEPT ![p] = words]
         /\ written' = written + 1
         /\ UNCHANGED <<diff, git, progress, staged, conflicts, userEdits, theirs, read>>
  BY DEF WriteStaged
<1>2. /\ ~git /\ conflicts = 0 /\ Len(staged) = Len(Groups) /\ written + 1 \in 1..Len(staged)
      /\ p \in Paths /\ words \in Seq(Lines)
      /\ \A i \in 1..written : staged[i].path \in Paths /\ (SoleGroup(i) => staged[i].path # p)
      /\ Len(staged) \in Nat /\ written \in Nat
  BY <1>1, NextWrite
<1>3. files \in [Paths -> Text]
  BY <1>1 DEF ApplierTypes
<1>4. files' \in [Paths -> Text] /\ files'[p] = words /\ \A f \in Paths : f # p => files'[f] = files[f]
  BY <1>1, <1>2, <1>3 DEF Text
<1>5. ApplierTypes'
  <2>1. written' \in 0..Len(staged')
    BY <1>1, <1>2
  <2> QED
    BY <1>1, <1>4, <2>1 DEF ApplierTypes
<1>6. StagesInProcess'
  BY <1>1, <1>2 DEF StagesInProcess, Looked, Groups
<1>7. StagedAsRead' /\ GitApplied' /\ CommitsWhole'
  BY <1>1, <1>2 DEF StagedAsRead, GitApplied, CommitsWhole, Groups, SoleGroup
<1>8. WrittenAsStaged'
  <2>1. \A i \in 1..written' : i \in 1..written \/ i = written + 1
    BY <1>1, <1>2
  <2>2. p \in WrittenPaths' /\ \A f \in WrittenPaths : f \in WrittenPaths'
    <3>1. \A i \in 1..written : i \in 1..written'
      BY <1>1, <1>2
    <3>2. written + 1 \in 1..written'
      BY <1>1, <1>2
    <3> QED
      BY <1>1, <3>1, <3>2 DEF WrittenPaths
  <2>3. \A f \in Paths \ WrittenPaths' : files'[f] = theirs'[f]
    <3> SUFFICES ASSUME NEW f \in Paths \ WrittenPaths' PROVE files'[f] = theirs'[f]
      OBVIOUS
    <3>1. f # p /\ f \in Paths \ WrittenPaths
      BY <2>2
    <3>2. files[f] = theirs[f]
      BY <1>1, <3>1 DEF WrittenAsStaged
    <3> QED
      BY <1>1, <1>4, <3>1, <3>2
  <2>4. ASSUME NEW i \in 1..written', SoleGroup(i)
        PROVE  \/ files'[staged[i].path] = staged[i].text
               \/ userEdits > 0 /\ files'[staged[i].path] = theirs[staged[i].path]
    <3>1. CASE i = written + 1
      BY <1>1, <1>4, <3>1
    <3>2. CASE i \in 1..written
      <4>1. files'[staged[i].path] = files[staged[i].path]
        BY <1>2, <1>4, <2>4, <3>2
      <4>2. \/ files[staged[i].path] = staged[i].text
            \/ userEdits > 0 /\ files[staged[i].path] = theirs[staged[i].path]
        BY <1>2, <2>4, <3>2 DEF WrittenAsStaged
      <4> QED
        BY <4>1, <4>2
    <3> QED
      BY <2>1, <3>1, <3>2
  <2>5. staged' = staged /\ theirs' = theirs /\ userEdits' = userEdits /\ \A i : SoleGroup(i)' <=> SoleGroup(i)
    BY <1>1 DEF SoleGroup, Groups
  <2> QED
    BY <2>3, <2>4, <2>5 DEF WrittenAsStaged
<1> QED
  BY <1>5, <1>6, <1>7, <1>8

LEMMA WriteFailedKeeps == ApplyInv /\ WriteFailed => ApplyInv'
<1> SUFFICES ASSUME ApplyInv, WriteFailed PROVE ApplyInv'
  OBVIOUS
<1> USE DEF ApplyInv
<1>1. PICK p :
         /\ p = staged[written + 1].path
         /\ progress = "committing" /\ written < Len(staged) /\ progress' = "failed"
         /\ files' = files \/ files' = [files EXCEPT ![p] = Truncated]
         /\ UNCHANGED <<diff, git, staged, conflicts, written, userEdits, theirs, read>>
  BY DEF WriteFailed
<1>2. /\ ~git /\ conflicts = 0 /\ Len(staged) = Len(Groups) /\ p \in Paths
      /\ \A i \in 1..written : staged[i].path \in Paths /\ (SoleGroup(i) => staged[i].path # p)
      /\ Len(staged) \in Nat /\ written \in Nat
  BY <1>1, NextWrite
<1>3. files \in [Paths -> Text]
  BY <1>1 DEF ApplierTypes
<1>4. /\ files' \in [Paths -> Text \cup {Truncated}]
      /\ files'[p] = files[p] \/ files'[p] = Truncated
      /\ \A f \in Paths : f # p => files'[f] = files[f]
  BY <1>1, <1>2, <1>3
<1>5. ApplierTypes'
  BY <1>1, <1>4 DEF ApplierTypes, Over
<1>6. StagesInProcess'
  BY <1>1, <1>2 DEF StagesInProcess, Looked, Groups
<1>7. StagedAsRead' /\ GitApplied' /\ CommitsWhole'
  BY <1>1, <1>2 DEF StagedAsRead, GitApplied, CommitsWhole, Groups, SoleGroup
<1>8. WrittenAsStaged'
  <2>1. WrittenPaths' = WrittenPaths /\ staged' = staged /\ theirs' = theirs /\ userEdits' = userEdits
        /\ written' = written /\ progress' = "failed" /\ git' = git
    BY <1>1 DEF WrittenPaths
  <2>2. Breaking(p)'
    BY <1>1 DEF Breaking
  <2>3. ASSUME NEW f \in Paths \ WrittenPaths
        PROVE  files'[f] = theirs[f] \/ (f = p /\ files'[f] = Truncated)
    <3>1. files[f] = theirs[f]
      BY <1>1, <2>3 DEF WrittenAsStaged
    <3> QED
      BY <1>4, <2>3, <3>1
  <2>4. ASSUME NEW i \in 1..written, SoleGroup(i)
        PROVE  \/ files'[staged[i].path] = staged[i].text
               \/ userEdits > 0 /\ files'[staged[i].path] = theirs[staged[i].path]
    <3>1. files'[staged[i].path] = files[staged[i].path]
      BY <1>2, <1>4, <2>4
    <3>2. \/ files[staged[i].path] = staged[i].text
          \/ userEdits > 0 /\ files[staged[i].path] = theirs[staged[i].path]
      BY <1>2, <2>4 DEF WrittenAsStaged
    <3> QED
      BY <3>1, <3>2
  <2>5. \A i : SoleGroup(i)' <=> SoleGroup(i)
    BY <1>1 DEF SoleGroup, Groups
  <2> QED
    BY <2>1, <2>2, <2>3, <2>4, <2>5 DEF WrittenAsStaged
<1> QED
  BY <1>5, <1>6, <1>7, <1>8

LEMMA CommittedKeeps == ApplyInv /\ Committed => ApplyInv'
<1> SUFFICES ASSUME ApplyInv, Committed PROVE ApplyInv'
  OBVIOUS
<1> USE DEF ApplyInv
<1>1. /\ progress = "committing" /\ written = Len(staged) /\ progress' = "applied"
      /\ UNCHANGED <<files, diff, git, staged, conflicts, written, userEdits, theirs, read>>
  BY DEF Committed
<1>2. ~git
  BY <1>1 DEF StagesInProcess, ApplierTypes
<1>3. ApplierTypes'
  BY <1>1 DEF ApplierTypes, Over
<1>4. StagesInProcess'
  BY <1>1, <1>2 DEF StagesInProcess, Looked, Groups
<1>5. StagedAsRead' /\ GitApplied' /\ CommitsWhole'
  BY <1>1, <1>2 DEF StagedAsRead, GitApplied, CommitsWhole, Groups, SoleGroup
<1>6. WrittenAsStaged'
  BY <1>1 DEF WrittenAsStaged, WrittenPaths, Breaking, SoleGroup, Groups
<1> QED
  BY <1>3, <1>4, <1>5, <1>6

LEMMA UserEditsKeeps ==
    ASSUME ApplyInv, NEW f \in Paths, NEW words \in {Missing, <<Blank>>}, UserEdits(f, words)
    PROVE  ApplyInv'
<1> USE DEF ApplyInv
<1>1. /\ progress \in {"checked", "staging", "committing"} /\ userEdits < MaxUserEdits
      /\ userEdits' = userEdits + 1
      /\ files' = [files EXCEPT ![f] = words] /\ theirs' = [theirs EXCEPT ![f] = words]
      /\ UNCHANGED <<diff, git, progress, staged, conflicts, written, read>>
  BY DEF UserEdits
<1>2. /\ files \in [Paths -> Text] /\ theirs \in [Paths -> Text]
      /\ userEdits \in Nat /\ userEdits' \in 0..MaxUserEdits /\ userEdits' > 0
  <2>1. userEdits \in 0..MaxUserEdits /\ MaxUserEdits \in Nat
    BY LinesAssumption DEF ApplierTypes
  <2> QED
    BY <1>1, <2>1 DEF ApplierTypes
<1>3. words \in Text
  <2>1. <<Blank>> \in Seq(Lines)
    BY LinesAssumption
  <2> QED
    BY <2>1 DEF Text
<1>4. /\ files' \in [Paths -> Text] /\ theirs' \in [Paths -> Text]
      /\ files'[f] = theirs'[f]
      /\ \A g \in Paths : g # f => files'[g] = files[g] /\ theirs'[g] = theirs[g]
  BY <1>1, <1>2, <1>3
<1>5. ApplierTypes'
  BY <1>1, <1>2, <1>4 DEF ApplierTypes, Over
<1>6. StagesInProcess'
  BY <1>1 DEF StagesInProcess, Looked, Groups
<1>7. StagedAsRead' /\ GitApplied' /\ CommitsWhole'
  BY <1>1 DEF StagedAsRead, GitApplied, CommitsWhole, Groups, SoleGroup
<1>8. WrittenAsStaged'
  <2>1. WrittenPaths' = WrittenPaths /\ staged' = staged /\ written' = written /\ progress' = progress
    BY <1>1 DEF WrittenPaths
  <2>2. ASSUME NEW g \in Paths \ WrittenPaths PROVE files'[g] = theirs'[g]
    <3>1. files[g] = theirs[g]
      BY <1>1, <2>2 DEF WrittenAsStaged
    <3> QED
      BY <1>4, <2>2, <3>1
  <2>3. ASSUME NEW i \in 1..written, SoleGroup(i)
        PROVE  \/ files'[staged[i].path] = staged[i].text
               \/ files'[staged[i].path] = theirs'[staged[i].path]
    <3>1. staged[i].path \in Paths
      <4>1. i \in 1..Len(staged)
        BY <2>3 DEF ApplierTypes
      <4> QED
        BY <4>1, GroupsHere
    <3>2. \/ files[staged[i].path] = staged[i].text
          \/ files[staged[i].path] = theirs[staged[i].path]
      BY <1>1, <2>3 DEF WrittenAsStaged
    <3> QED
      BY <1>4, <3>1, <3>2
  <2>4. \A i : SoleGroup(i)' <=> SoleGroup(i)
    BY <1>1 DEF SoleGroup, Groups
  <2> QED
    BY <1>2, <2>1, <2>2, <2>3, <2>4 DEF WrittenAsStaged
<1> QED
  BY <1>5, <1>6, <1>7, <1>8

LEMMA ApplyInvStep == ApplyInv /\ [ApplyNext]_applyVars => ApplyInv'
<1> SUFFICES ASSUME ApplyInv, [ApplyNext]_applyVars PROVE ApplyInv'
  OBVIOUS
<1>1. CASE ReadDiff \/ CheckWithGit \/ ApplyWithGit \/ StageGroup \/ Decide
  BY <1>1, ReadDiffKeeps, CheckWithGitKeeps, ApplyWithGitKeeps, StageGroupKeeps, DecideKeeps
<1>2. CASE WriteStaged \/ WriteFailed \/ Committed
  BY <1>2, WriteStagedKeeps, WriteFailedKeeps, CommittedKeeps
<1>3. CASE \E f \in Paths, words \in {Missing, <<Blank>>} : UserEdits(f, words)
  BY <1>3, UserEditsKeeps
<1>4. CASE UNCHANGED applyVars
  BY <1>4 DEF applyVars, ApplyInv, ApplierTypes, StagesInProcess, StagedAsRead, CommitsWhole,
              WrittenAsStaged, GitApplied, WrittenPaths, Breaking, Looked, Groups, SoleGroup
<1> QED
  BY <1>1, <1>2, <1>3, <1>4 DEF ApplyNext

LEMMA ApplierTyped == ApplyInv => ApplyTypeOK
<1> SUFFICES ASSUME ApplyInv PROVE ApplyTypeOK
  OBVIOUS
<1>1. /\ files \in [Paths -> Text \cup {Truncated}] /\ theirs \in [Paths -> Text] /\ read \in [Paths -> Text]
      /\ git \in BOOLEAN
      /\ progress \in Over \cup {"reading", "checking", "checked", "staging", "committing"}
      /\ conflicts \in Nat /\ userEdits \in 0..MaxUserEdits /\ written \in 0..Len(staged)
  BY DEF ApplyInv, ApplierTypes
<1>2. ASSUME NEW f \in Paths, files[f] \notin {Missing, Truncated}
      PROVE  \A i \in DOMAIN files[f] : files[f][i] \in Lines
  <2>1. PICK words \in Seq(Lines) : words = files[f]
    BY <1>1, <1>2 DEF Text
  <2>2. \A i \in DOMAIN words : words[i] \in Lines
    BY LenProperties, ElementOfSeq
  <2> QED
    BY <2>1, <2>2
<1> QED
  BY <1>1, <1>2 DEF ApplyTypeOK

LEMMA RefusalsClean == ApplyInv => RefusalChangesNothing
<1> SUFFICES ASSUME ApplyInv PROVE RefusalChangesNothing
  OBVIOUS
<1>1. ASSUME progress \in {"conflict", "rejected", "panicked", "nothing"} PROVE files = theirs
  <2>1. git \/ progress \notin {"committing", "applied", "failed"} => written = 0
    BY DEF ApplyInv, StagesInProcess
  <2>2. written = 0 /\ progress # "applied" /\ progress # "failed"
    BY <1>1, <2>1
  <2> QED
    BY <2>2, UntilWritten
<1>2. ASSUME progress = "failed", NEW f \in Paths \ WrittenPaths
      PROVE  files[f] = theirs[f] \/ (Breaking(f) /\ files[f] = Truncated)
  BY <1>2 DEF ApplyInv, WrittenAsStaged
<1> QED
  BY <1>1, <1>2 DEF RefusalChangesNothing

LEMMA AppliedWhole == ApplyInv => AppliedIsTheDiff
<1> SUFFICES ASSUME ApplyInv, progress = "applied", NEW f \in Paths
             PROVE  /\ ~Writes(f) => files[f] = theirs[f]
                    /\ Touches(diff, f) /\ (git \/ (Seen(GroupOf(diff, f)) /\ ~Misread(f))) =>
                          /\ Patchable(read, GroupOf(diff, f))
                          /\ \/ files[f] = PatchedGroup(read, GroupOf(diff, f))
                             \/ userEdits > 0 /\ files[f] = theirs[f]
  BY DEF AppliedIsTheDiff
<1>1. ApplierTypes /\ diff \in Diffs /\ read \in [Paths -> Text] /\ git \in BOOLEAN
  BY DEF ApplyInv, ApplierTypes
<1>2. CASE git
  <2>1. /\ read = theirs /\ files = GitPatched(read, diff)
        /\ \A g \in Range(diff) : Patchable(read, g)
    BY <1>2 DEF ApplyInv, GitApplied
  <2>2. files[f] = IF Touches(diff, f) THEN PatchedGroup(read, GroupOf(diff, f)) ELSE read[f]
    BY <2>1 DEF GitPatched
  <2>3. Touches(diff, f) => GroupOf(diff, f) \in Range(diff)
    BY <1>1, GroupsOfFiles
  <2>4. Writes(f) <=> Touches(diff, f)
    BY <1>2 DEF Writes
  <2> QED
    BY <1>2, <2>1, <2>2, <2>3, <2>4
<1>3. CASE ~git
  <2>1. conflicts = 0 /\ Len(staged) = Len(Groups) /\ written = Len(staged)
    BY <1>3 DEF ApplyInv, CommitsWhole
  <2>2. /\ DOMAIN Groups = 1..Len(Groups) /\ DOMAIN staged = 1..Len(staged)
        /\ \A i \in 1..Len(Groups) : Groups[i] \in FileGroups
    BY <1>1, GroupsHere
  <2>3. \A i \in 1..Len(Groups) :
           /\ staged[i].path = Groups[i].path
           /\ SoleGroup(i) => StagedGroup(read, Groups[i]) = [out |-> staged[i].text, verdict |-> "ok"]
    BY <2>1, <2>2 DEF ApplyInv, StagedAsRead
  <2>4. ASSUME ~Writes(f) PROVE files[f] = theirs[f]
    <3>1. \A i \in 1..Len(Groups) : Groups[i].path # f
      BY <1>3, <2>2, <2>4 DEF Writes, Range
    <3>2. f \in Paths \ WrittenPaths
      <4>1. \A i \in 1..written : staged[i].path # f
        BY <2>1, <2>3, <3>1
      <4> QED
        BY <4>1 DEF WrittenPaths
    <3> QED
      BY <1>3, <3>2 DEF ApplyInv, WrittenAsStaged
  <2>5. ASSUME Touches(diff, f), Seen(GroupOf(diff, f)), ~Misread(f)
        PROVE  /\ Patchable(read, GroupOf(diff, f))
               /\ \/ files[f] = PatchedGroup(read, GroupOf(diff, f))
                  \/ userEdits > 0 /\ files[f] = theirs[f]
    <3>1. PICK group \in FileGroups : group = GroupOf(diff, f) /\ group.path = f
      BY <1>1, <2>5, GroupsOfFiles
    <3>2. PICK n \in DOMAIN diff : group = diff[n]
      BY <1>1, <2>5, <3>1, GroupsOfFiles
    <3>3. HasHeader(group) /\ group.op # "delete" /\ (group.op = "new" => read[group.path] = Missing)
      BY <2>5, <3>1 DEF Seen, HasHeader
    <3>4. ParsedGroup(group) = group
      BY <2>5, <3>1, ParsedWhole DEF Seen
    <3>5. PICK r :
              /\ \A i \in 1..Len(Groups) : r[i] \in DOMAIN diff /\ HasHeader(diff[r[i]]) /\ Groups[i] = ParsedGroup(diff[r[i]])
              /\ \A i, j \in 1..Len(Groups) : r[i] = r[j] => i = j
              /\ \A m \in DOMAIN diff : HasHeader(diff[m]) => \E i \in 1..Len(Groups) : r[i] = m
      <4>1. \E r :
              /\ \A i \in DOMAIN Groups : r[i] \in DOMAIN diff /\ HasHeader(diff[r[i]]) /\ Groups[i] = ParsedGroup(diff[r[i]])
              /\ \A i, j \in DOMAIN Groups : r[i] = r[j] => i = j
              /\ \A m \in DOMAIN diff : HasHeader(diff[m]) => \E i \in DOMAIN Groups : r[i] = m
        BY <1>1, ParsedDiff, Zenon DEF Groups
      <4> QED
        BY <2>2, <4>1
    <3>6. PICK i \in 1..Len(Groups) : r[i] = n /\ Groups[i] = group
      BY <3>2, <3>3, <3>4, <3>5
    <3>7. SoleGroup(i)
      <4> SUFFICES ASSUME NEW j \in 1..Len(Groups), Groups[j].path = f PROVE j = i
        BY <2>2, <3>1, <3>6 DEF SoleGroup
      <4>1. diff[r[j]] \in Range(diff) /\ HasHeader(diff[r[j]]) /\ ParsedGroup(diff[r[j]]).path = f
        BY <3>5 DEF Range
      <4>2. diff[r[j]].path = f
        BY <2>5, <4>1 DEF Misread
      <4>3. r[j] = n
        <5>1. \A a, b \in DOMAIN diff : diff[a].path = diff[b].path => a = b
          BY <1>1, DiffsAssumption
        <5> QED
          BY <3>1, <3>2, <3>5, <4>2, <5>1
      <4> QED
        BY <3>5, <3>6, <4>3
    <3>8. staged[i].path = f /\ StagedGroup(read, group) = [out |-> staged[i].text, verdict |-> "ok"]
      BY <2>3, <3>1, <3>6, <3>7
    <3>9. StagedGroup(read, group).verdict = "ok" /\ StagedGroup(read, group).out = staged[i].text
      BY <3>8
    <3>10. Patchable(read, group) /\ staged[i].text = PatchedGroup(read, group)
      BY <1>1, <3>3, <3>9, StagedIsPatch
    <3>11. \/ files[staged[i].path] = staged[i].text
           \/ userEdits > 0 /\ files[staged[i].path] = theirs[staged[i].path]
      BY <1>3, <2>1, <3>7 DEF ApplyInv, WrittenAsStaged
    <3> QED
      BY <3>1, <3>8, <3>10, <3>11
  <2> QED
    BY <1>3, <2>4, <2>5
<1> QED
  BY <1>1, <1>2, <1>3

\* apply_run_diff, for every workspace and every diff with one group for a file: what it reports
\* as applied is the diff, and what it refuses has changed nothing.  The walk over the hunks
\* from the first to the last, line by line, makes the text that replacing them from the last
\* to the first makes, or refuses.
THEOREM AppliesTheDiff == ApplySpec => [](ApplyTypeOK /\ RefusalChangesNothing /\ AppliedIsTheDiff)
<1>1. ApplyInit => ApplyInv
  BY ApplyStarts
<1>2. ApplyInv /\ [ApplyNext]_applyVars => ApplyInv'
  BY ApplyInvStep
<1>3. ApplyInv => ApplyTypeOK /\ RefusalChangesNothing /\ AppliedIsTheDiff
  BY ApplierTyped, RefusalsClean, AppliedWhole
<1> QED
  BY <1>1, <1>2, <1>3, PTL DEF ApplySpec
=============================================================================
