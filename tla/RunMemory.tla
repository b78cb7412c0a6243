----------------------------- MODULE RunMemory -----------------------------
(***************************************************************************)
(* The memory of a workspace: one database with a snapshot of all tiers    *)
(* and an index that queries read, and the handles that are open on it.    *)
(* A handle is opened in two transactions, load the snapshot and rebuild   *)
(* the index from it, and from then on works on its own copy: a write      *)
(* replaces the snapshot by the writer's copy.                             *)
(*                                                                         *)
(* The durable consumers memory_writer and rule_forge_observer of a run    *)
(* are given the same handle and the same rule forge, so each takes every  *)
(* effect of every event.  Every run opens a recording handle and a forge  *)
(* of its own: one run is modelled with its consumers, and other runs of   *)
(* the workspace by the records that they make at any time.  The recall    *)
(* tool opens a handle per call, the desktop keeps one and may prune.      *)
(* RunLedger has these effects as one step.  Facts are failed attempts,    *)
(* which are merged by counting; the other tiers only append.  Nobody      *)
(* records to the working tier, so that decay_tick only writes the         *)
(* snapshot.                                                               *)
(***************************************************************************)
EXTENDS RuleForge, Sequences, FiniteSets

CONSTANTS Consumers, \* memory_writer and rule_forge_observer
          Run,       \* the handle of the run
          OtherRuns, \* the handles of other runs of the workspace
          Others,    \* handles of the recall tool and of the desktop
          Events,    \* bound: the failures of the run's ledger, in order, as clusters
          MaxFaults, \* bound: writes that fail
          MaxOpens,  \* bound: times a handle is opened
          MaxElsewhere \* bound: records of other runs

ASSUME MemoryAssumption ==
    /\ IsFiniteSet(Consumers)
    /\ Run \notin Others \cup OtherRuns
    /\ Events \in Seq(Clusters)
    /\ {MaxFaults, MaxOpens, MaxElsewhere} \subseteq Nat

Handles == Others \cup OtherRuns \cup {Run}
None == [k \in Clusters |-> 0]

VARIABLES
    snapshot, \* the state row: snapshot[k]: seen_count of the attempt k
    index,    \* index[k]: seen_count in the table that queries read
    handle,   \* handle[h]: "closed", "loaded" or "open"
    own,      \* own[h]: the copy of h
    at,       \* at[c]: events the consumer has processed
    doing,    \* doing[c]: "start", "recorded" or "observed", within the next event
    faults, opens,
    elsewhere, \* records of other runs so far
    total,    \* history: successful records of an attempt
    fresh,    \* history: open handles whose copy was loaded, or written, last
    overwrote, \* history: whether a copy that was not fresh has been persisted
    raced     \* history: whether a handle was being opened during a record

storeVars == <<snapshot, index>>
handleVars == <<handle, own, opens, fresh>>
consumerVars == <<at, doing>>
historyVars == <<total, overwrote, raced>>
memoryVars == <<storeVars, handleVars, consumerVars, faults, elsewhere, historyVars, forgeVars>>

MemoryInit ==
    /\ snapshot = None /\ index = None
    /\ handle = [h \in Handles |-> "closed"]
    /\ own = [h \in Handles |-> None]
    /\ at = [c \in Consumers |-> 0]
    /\ doing = [c \in Consumers |-> "start"]
    /\ faults = 0 /\ opens = 0 /\ elsewhere = 0
    /\ total = None
    /\ fresh = {} /\ overwrote = FALSE /\ raced = FALSE
    /\ ForgeInit

-----------------------------------------------------------------------------
(* Handles *)

LoadSnapshot(h) ==
    /\ handle[h] = "closed" /\ opens < MaxOpens
    /\ handle' = [handle EXCEPT ![h] = "loaded"]
    /\ own' = [own EXCEPT ![h] = snapshot]
    /\ opens' = opens + 1
    /\ fresh' = fresh \cup {h}
    /\ UNCHANGED <<storeVars, consumerVars, faults, elsewhere, historyVars, forgeVars>>

\* Fault for RebuildIndexes: what was loaded is stored again.
RebuildIndexesAndSave(h) ==
    /\ handle[h] = "loaded"
    /\ handle' = [handle EXCEPT ![h] = "open"]
    /\ index' = own[h] /\ snapshot' = own[h]
    /\ UNCHANGED <<own, opens, fresh, consumerVars, faults, elsewhere, historyVars, forgeVars>>

\* Everything in the index is deleted first, what was recorded since the load included.
RebuildIndexes(h) ==
    /\ handle[h] = "loaded"
    /\ handle' = [handle EXCEPT ![h] = "open"]
    /\ index' = own[h]
    /\ UNCHANGED <<snapshot, own, opens, fresh, consumerVars, faults, elsewhere, historyVars, forgeVars>>

\* decay_tick of the desktop's handle.
Prune(h) ==
    /\ h \in Others /\ handle[h] = "open"
    /\ snapshot' = own[h]
    /\ overwrote' = (overwrote \/ h \notin fresh)
    /\ UNCHANGED <<index, handleVars, consumerVars, faults, elsewhere, total, raced, forgeVars>>

Forget(h) ==
    /\ h # Run /\ handle[h] = "open"
    /\ handle' = [handle EXCEPT ![h] = "closed"]
    /\ fresh' = fresh \ {h}
    /\ UNCHANGED <<storeVars, own, opens, consumerVars, faults, elsewhere, historyVars, forgeVars>>

\* The process of the run ends or is killed: the forge is gone, the cursors are not.
RunEnds ==
    /\ handle[Run] = "open"
    /\ handle' = [handle EXCEPT ![Run] = "closed"]
    /\ fresh' = fresh \ {Run}
    /\ doing' = [c \in Consumers |-> "start"]
    /\ clusters' = None /\ emitted' = None
    /\ UNCHANGED <<storeVars, own, opens, at, faults, elsewhere, historyVars, lifeVars>>

-----------------------------------------------------------------------------
(* Consumers *)

Processing(c, stage) == handle[Run] = "open" /\ at[c] < Len(Events) /\ doing[c] = stage
Failure(c) == Events[at[c] + 1]

\* Under the lock of the handle: copy, merge, one transaction, and the copy becomes the state.
\* The transaction replaces the snapshot by the copy without reading it.
RecordAttempt(h, k) ==
    LET merged == [own[h] EXCEPT ![k] = @ + 1] IN
    /\ own' = [own EXCEPT ![h] = merged]
    /\ snapshot' = merged
    /\ index' = [index EXCEPT ![k] = merged[k]]
    /\ total' = [total EXCEPT ![k] = @ + 1]
    /\ fresh' = {h}
    /\ overwrote' = (overwrote \/ h \notin fresh)
    /\ raced' = (raced \/ \E g \in Handles : handle[g] = "loaded")

Record(c) ==
    /\ Processing(c, "start")
    /\ RecordAttempt(Run, Failure(c))
    /\ doing' = [doing EXCEPT ![c] = "recorded"]
    /\ UNCHANGED <<handle, opens, at, faults, elsewhere, forgeVars>>

\* A consumer of another run records, through the handle of its run.
RecordElsewhere(h) ==
    /\ h \in OtherRuns /\ handle[h] = "open" /\ elsewhere < MaxElsewhere
    /\ elsewhere' = elsewhere + 1
    /\ \E k \in Clusters : RecordAttempt(h, k)
    /\ UNCHANGED <<handle, opens, consumerVars, faults, forgeVars>>

ObserveFailure(c) ==
    /\ Processing(c, "recorded")
    /\ Observe(Failure(c))
    /\ doing' = [doing EXCEPT ![c] = "observed"]
    /\ UNCHANGED <<storeVars, handleVars, at, faults, elsewhere, historyVars>>

EmitCandidate(c) ==
    /\ Processing(c, "observed")
    /\ MaybeEmitCandidate(Failure(c))
    /\ doing' = [doing EXCEPT ![c] = "start"]
    /\ at' = [at EXCEPT ![c] = @ + 1]
    /\ UNCHANGED <<storeVars, handleVars, faults, elsewhere, historyVars>>

\* The journal, the database or the candidate's line cannot be written: the pass is tried
\* again from the cursor, and takes the effects of the event once more.
PassFails(c) ==
    /\ faults < MaxFaults
    /\ \/ Processing(c, "start") /\ UNCHANGED forgeVars
       \/ Processing(c, "observed") /\ Emits(Failure(c)) /\ MaybeEmitCandidate(Failure(c))
    /\ doing' = [doing EXCEPT ![c] = "start"]
    /\ faults' = faults + 1
    /\ UNCHANGED <<storeVars, handleVars, at, elsewhere, historyVars>>

-----------------------------------------------------------------------------
Consume(c) == Record(c) \/ ObserveFailure(c) \/ EmitCandidate(c) \/ PassFails(c)
Handling(h) == LoadSnapshot(h) \/ RebuildIndexes(h) \/ Prune(h) \/ Forget(h) \/ RecordElsewhere(h)

MemoryNext ==
    \/ \E c \in Consumers : Consume(c)
    \/ \E h \in Handles : Handling(h)
    \/ RunEnds

MemorySpec == MemoryInit /\ [][MemoryNext]_memoryVars

-----------------------------------------------------------------------------
(* Properties *)

\* Every variable keeps its type.
MemoryTypeOK ==
    /\ snapshot \in [Clusters -> Nat] /\ index \in [Clusters -> Nat] /\ total \in [Clusters -> Nat]
    /\ handle \in [Handles -> {"closed", "loaded", "open"}]
    /\ own \in [Handles -> [Clusters -> Nat]]
    /\ at \in [Consumers -> 0..Len(Events)]
    /\ doing \in [Consumers -> {"start", "recorded", "observed"}]
    /\ faults \in 0..MaxFaults /\ opens \in 0..MaxOpens /\ elsewhere \in 0..MaxElsewhere
    /\ fresh \subseteq Handles /\ overwrote \in BOOLEAN /\ raced \in BOOLEAN
    /\ ForgeTypeOK

\* Every failure that was recorded is in the snapshot, over crashes, retries, other runs and other
\* handles that are opened meanwhile, unless a handle has written (a record or a prune) that did not
\* have the latest copy: two runs that record by turns drop what the other has recorded since.
\* Queries find it too, unless a handle was being opened when it was recorded.  However the
\* handles overlap, no failure is counted that was not recorded.
RecordsKept ==
    /\ ~overwrote => snapshot = total
    /\ ~overwrote /\ ~raced => index = total
    /\ \A k \in Clusters : snapshot[k] <= total[k] /\ index[k] <= total[k]

\* The consumers that have observed k and not yet asked for a candidate.
Undecided(k) == {c \in Consumers : Processing(c, "observed") /\ Failure(c) = k}

\* A cluster is worth a rule from its second observation on, and every failure is observed by
\* each consumer, so one failure suffices: of the observations of a cluster that have been
\* decided on, at most one, decided on before there was a second, has not emitted a candidate.
CandidatesFollowFailures ==
    handle[Run] = "open" =>
        \A k \in Clusters :
            LET decided == clusters[k] - Cardinality(Undecided(k)) IN
            emitted[k] <= decided /\ decided <= emitted[k] + 1
=============================================================================
