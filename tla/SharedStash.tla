----------------------------- MODULE SharedStash ----------------------------
(***************************************************************************)
(* The runs of the desktop that work in one worktree.  Every headless run  *)
(* has session id 0, so all of them share one entry of SHADOW_WORKTREE:    *)
(* whichever run's validation ends first clears the stash of all, or rolls *)
(* all of them back.  And a patch is made of several reads of its file,    *)
(* between which the file may be changed by another run or by the user.    *)
(*                                                                         *)
(* Workspace is one such run step by step; here a patch updates one file,  *)
(* and a content is the set of the edits it has.                           *)
(***************************************************************************)
EXTENDS Integers

CONSTANTS Writers,       \* the runs
          SharedFiles,
          User,
          NoEdit,        \* of a run that has none in flight
          MaxPatches,    \* bound: MaxPatches[w]: the edits of w, a run or the user
          MaxEnds        \* bound: the validations of all runs

Edits == UNION {{w} \X (1..MaxPatches[w]) : w \in Writers \cup {User}}

ASSUME SharedAssumption ==
    /\ User \notin Writers /\ NoEdit \notin SharedFiles
    /\ MaxPatches \in [Writers \cup {User} -> Nat]
    /\ MaxEnds \in Nat

VARIABLES
    held,     \* held[f]: the edits that file f has
    shadow,   \* the stash: what it has of the files it knows
    patching, \* patching[r]: how far the patch of r is
    editing,  \* editing[r]: its file, or NoEdit
    form,     \* form[r]: "diff", or "blocks" to search and replace
    text,     \* text[r]: what it is going to write
    hash,     \* hash[r]: the content it expects to find
    preimage, \* preimage[r]: the content it is going to stash
    made,     \* made[w]: edits that w has begun
    ended,    \* validations that have ended
    entered,  \* history: runs whose file has changed where they do not notice
    exposed,  \* history: runs whose stash is gone before they have written
    delayed,  \* history: runs that stash what they read before a validation ended
    outdated, \* history: files of the stash with such a content
    fate,     \* history: fate[e]: what became of edit e
    excused   \* history: edits brought back or lost by a run in entered, or by outdated

patchVars == <<patching, editing, form, text, hash, preimage>>
history == <<entered, exposed, delayed, outdated, fate, excused>>
sharedVars == <<held, shadow, patchVars, made, ended, history>>

SharedInit ==
    /\ held = [f \in SharedFiles |-> {}]
    /\ shadow = <<>>
    /\ patching = [r \in Writers |-> "idle"]
    /\ editing = [r \in Writers |-> NoEdit]
    /\ form = [r \in Writers |-> "diff"]
    /\ text = [r \in Writers |-> {}]
    /\ hash = [r \in Writers |-> {}]
    /\ preimage = [r \in Writers |-> {}]
    /\ made = [w \in Writers \cup {User} |-> 0]
    /\ ended = 0
    /\ entered = {} /\ exposed = {} /\ delayed = {} /\ outdated = {}
    /\ fate = [e \in Edits |-> "none"]
    /\ excused = {}

Moves(r, from, to) == patching[r] = from /\ patching' = [patching EXCEPT ![r] = to]

EditOf(r) == <<r, made[r]>>

\* Between its last check and its write nobody notices a change of the file; nor does a diff
\* notice one that is there when it takes the hash, after it has read the text.
Unnoticed(r) ==
    \/ patching[r] = "checked"
    \/ patching[r] \in {"read", "stashing", "stashed"} /\ form[r] = "diff"

\* A file changes by the hand of w.
Entering(w) ==
    entered \cup {r \in Writers \ {w} : /\ editing[r] # NoEdit /\ Unnoticed(r)
                                        /\ held'[editing[r]] # held[editing[r]]}

Differ(a, b) == (a \ b) \cup (b \ a)

-----------------------------------------------------------------------------
(* A patch *)

\* The text comes from the first read, and with search and replace the hash as well.
ReadText(r) ==
    /\ Moves(r, "idle", "read")
    /\ made[r] < MaxPatches[r]
    /\ made' = [made EXCEPT ![r] = @ + 1]
    /\ \E f \in SharedFiles, k \in {"diff", "blocks"} :
        /\ editing' = [editing EXCEPT ![r] = f]
        /\ form' = [form EXCEPT ![r] = k]
        /\ text' = [text EXCEPT ![r] = held[f] \cup {<<r, made'[r]>>}]
        /\ hash' = [hash EXCEPT ![r] = IF k = "blocks" THEN held[f] ELSE {}]
    /\ UNCHANGED <<held, shadow, preimage, ended, history>>

\* stash_file_for_rollback reads the file before it takes the lock.
ReadForStash(r) ==
    /\ Moves(r, "read", "stashing")
    /\ preimage' = [preimage EXCEPT ![r] = held[editing[r]]]
    /\ UNCHANGED <<held, shadow, editing, form, text, hash, made, ended, history>>

\* A diff reads its file again, for the hash, and has a preview of its own.
Stashing(r, kept) ==
    /\ Moves(r, "stashing", IF form[r] = "diff" THEN "stashed" ELSE "previewed")
    /\ IF kept
       THEN UNCHANGED <<shadow, outdated>>
       ELSE /\ shadow' = [f \in DOMAIN shadow \cup {editing[r]} |->
                             IF f = editing[r] THEN preimage[r] ELSE shadow[f]]
            /\ outdated' = IF r \in delayed THEN outdated \cup {editing[r]}
                           ELSE outdated \ {editing[r]}
    /\ preimage' = [preimage EXCEPT ![r] = {}]
    /\ delayed' = delayed \ {r}
    /\ UNCHANGED <<held, editing, form, text, hash, made, ended, entered, exposed, fate, excused>>

\* Fault for Stash: the newest content is kept.
StashAnew(r) == Stashing(r, FALSE)

\* The first content is kept, of whichever run.
Stash(r) == Stashing(r, editing[r] \in DOMAIN shadow)

ReadHash(r) ==
    /\ Moves(r, "stashed", "hashed")
    /\ hash' = [hash EXCEPT ![r] = held[editing[r]]]
    /\ UNCHANGED <<held, shadow, editing, form, text, preimage, made, ended, history>>

Compared(r) == patching[r] = "hashed" \/ patching[r] = "previewed"

Advances(r) ==
    /\ patching' = [patching EXCEPT ![r] = IF @ = "hashed" THEN "previewed" ELSE "checked"]
    /\ UNCHANGED <<held, shadow, editing, form, text, hash, preimage, made, ended, history>>

\* Fault for CompareHash: the patch VM only looks whether the file is there.
CompareHashOnce(r) ==
    /\ Compared(r)
    /\ held[editing[r]] = hash[r] \/ patching[r] = "previewed"
    /\ Advances(r)

\* Each preview compares the hash with the file as it is by then.
CompareHash(r) == Compared(r) /\ held[editing[r]] = hash[r] /\ Advances(r)

\* The patch of r is over, and what was noted of it.
PatchOver(r) ==
    /\ editing' = [editing EXCEPT ![r] = NoEdit]
    /\ form' = [form EXCEPT ![r] = "diff"]
    /\ text' = [text EXCEPT ![r] = {}]
    /\ hash' = [hash EXCEPT ![r] = {}]
    /\ exposed' = exposed \ {r}
    /\ UNCHANGED <<shadow, preimage, made, ended, delayed, outdated>>

RefusePatch(r) ==
    /\ Compared(r)
    /\ held[editing[r]] # hash[r]
    /\ patching' = [patching EXCEPT ![r] = "idle"]
    /\ entered' = entered \ {r}
    /\ PatchOver(r)
    /\ UNCHANGED <<held, fate, excused>>

WriteText(r) ==
    /\ Moves(r, "checked", "idle")
    /\ held' = [held EXCEPT ![editing[r]] = text[r]]
    /\ entered' = Entering(r) \ {r}
    /\ fate' = [fate EXCEPT ![EditOf(r)] = IF r \in exposed THEN "loose" ELSE "open"]
    /\ excused' = IF r \in entered
                  THEN excused \cup Differ(text[r], held[editing[r]] \cup {EditOf(r)})
                  ELSE excused
    /\ PatchOver(r)

\* The user, or any other program, edits a file.
UserSaves ==
    /\ made[User] < MaxPatches[User]
    /\ made' = [made EXCEPT ![User] = @ + 1]
    /\ \E f \in SharedFiles : held' = [held EXCEPT ![f] = @ \cup {<<User, made'[User]>>}]
    /\ fate' = [fate EXCEPT ![<<User, made'[User]>>] = "loose"]
    /\ entered' = Entering(User)
    /\ UNCHANGED <<shadow, patchVars, ended, exposed, delayed, outdated, excused>>

-----------------------------------------------------------------------------
(* The end of a validation *)

OnDisk == UNION {held[f] : f \in SharedFiles}

ValidationEnds(r) ==
    /\ patching[r] = "idle"
    /\ ended < MaxEnds
    /\ ended' = ended + 1
    /\ exposed' = exposed \cup {w \in Writers : patching[w] \notin {"idle", "read", "stashing"}}
    /\ delayed' = delayed \cup {w \in Writers : patching[w] = "stashing"}
    /\ UNCHANGED <<patchVars, made>>

Passing(r) ==
    /\ ValidationEnds(r)
    /\ fate' = [e \in Edits |-> IF e \in OnDisk THEN "kept" ELSE fate[e]]
    /\ UNCHANGED <<held, entered, excused>>

\* Fault for Passes: the stash is left as it is.
PassesOver(r) == Passing(r) /\ UNCHANGED <<shadow, outdated>>

\* clear_session_worktree: of session 0, of whichever run.
Passes(r) == Passing(r) /\ shadow' = <<>> /\ outdated' = {}

\* rollback_session_worktree.
RollsBackAll(r) ==
    /\ ValidationEnds(r)
    /\ held' = [f \in SharedFiles |-> IF f \in DOMAIN shadow THEN shadow[f] ELSE held[f]]
    /\ shadow' = <<>>
    /\ outdated' = {}
    /\ fate' = [e \in Edits |-> IF /\ e \in OnDisk \ UNION {held'[f] : f \in SharedFiles}
                                   /\ fate[e] # "kept"
                                THEN "undone" ELSE fate[e]]
    /\ excused' = excused \cup UNION {Differ(held[f], shadow[f]) : f \in outdated}
    /\ entered' = Entering(r)

SharedNext ==
    \/ \E r \in Writers :
          \/ ReadText(r) \/ ReadForStash(r) \/ Stash(r) \/ ReadHash(r) \/ CompareHash(r)
          \/ RefusePatch(r) \/ WriteText(r) \/ Passes(r) \/ RollsBackAll(r)
    \/ UserSaves

-----------------------------------------------------------------------------
(* Properties *)

\* Every variable keeps its type.
SharedTypeOK ==
    /\ held \in [SharedFiles -> SUBSET Edits]
    /\ DOMAIN shadow \subseteq SharedFiles /\ \A f \in DOMAIN shadow : shadow[f] \subseteq Edits
    /\ patching \in
          [Writers -> {"idle", "read", "stashing", "stashed", "hashed", "previewed", "checked"}]
    /\ editing \in [Writers -> SharedFiles \cup {NoEdit}]
    /\ form \in [Writers -> {"diff", "blocks"}]
    /\ {text, hash, preimage} \subseteq [Writers -> SUBSET Edits]
    /\ made \in [Writers \cup {User} -> Nat]
    /\ ended \in 0..MaxEnds
    /\ entered \subseteq Writers /\ exposed \subseteq Writers /\ delayed \subseteq Writers
    /\ outdated \subseteq DOMAIN shadow
    /\ fate \in [Edits -> {"none", "open", "loose", "kept", "undone"}]
    /\ excused \subseteq Edits

\* The checked patch of a run adds its edit to the file and changes nothing else, however many
\* other runs and the user edit the same file, unless the file changed between the read of the
\* text and that of the hash, or after the last comparison.
PatchAddsItsEdit ==
    \A r \in Writers :
        patching[r] = "checked" /\ r \notin entered => text[r] = held[editing[r]] \cup {EditOf(r)}

\* An edit that no validation has judged can be undone: the stash has its file, without it,
\* unless somebody's validation ended between the stashing and the writing, or the edit was
\* already lost as VerdictsLast says.
UnjudgedIsStashed ==
    \A f \in SharedFiles : \A e \in held[f] \ excused :
        fate[e] = "open" => f \in DOMAIN shadow /\ e \notin shadow[f]

\* A verdict lasts: what was there when a validation passed is there, what a rollback undid is
\* not, unless a patch wrote a text from before a change it did not notice, or a stash read
\* before the verdict was entered after it.
VerdictsLast ==
    \A e \in Edits \ excused :
        /\ fate[e] = "kept" => e \in OnDisk
        /\ fate[e] = "undone" => e \notin OnDisk
=============================================================================
