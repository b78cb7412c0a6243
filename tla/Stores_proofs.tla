---------------------------- MODULE Stores_proofs ----------------------------
(***************************************************************************)
(* Proofs about whoever keeps something in files: BenchmarkLock, for any   *)
(* number of processes; RunMemory with RuleForge, for any consumers, any   *)
(* events and any faults; ContextIndex, for any builders, files and edits; *)
(* BenchmarkBatch, for any cases and kills; LogFile, for any processes;    *)
(* and what follows for MCStores, where all twelve parts are put together, *)
(* from the invariants of the parts.                                       *)
(***************************************************************************)
EXTENDS MCStores, Verdicts_proofs, RetriedRun_proofs, FiniteSetTheorems

(* Nobody comes back from the end of a process: a written lock that was read as stale still is. *)
StaleStaysStale ==
    \A w \in Processes :
        status[w] = "removing" /\ seen[w] # NoLock /\ seen[w].written => ~Alive(seen[w].owner)

(* The file is of the one that writes or holds it. *)
FileIsOwned ==
    \A w \in Processes : /\ status[w] = "writing" => lock = [owner |-> w, written |-> FALSE]
                         /\ status[w] = "holding" => lock = [owner |-> w, written |-> TRUE]

LockInv == LockTypeOK /\ StaleStaysStale /\ (~stolen => FileIsOwned)

\* A lock is its owner and whether it is written.
LEMMA SameFile ==
    ASSUME NEW k \in Locks, NEW l \in Locks, k.owner = l.owner, k.written = l.written
    PROVE  k = l
  BY DEF Locks

\* The invariant holds from the start on.
LEMMA LockInvInit == LockInit => LockInv
  BY DEF LockInit, LockInv, LockTypeOK, Steps, StaleStaysStale, FileIsOwned

LEMMA LockInvNext == LockInv /\ [LockNext]_lockVars => LockInv'
<1> SUFFICES ASSUME LockInv, [LockNext]_lockVars PROVE LockInv'
  OBVIOUS
<1>0. \A w \in Processes, b \in BOOLEAN : [owner |-> w, written |-> b] # NoLock
  BY LockAssumption
<1>00. \A w \in Processes : seen[w] # NoLock => seen[w].owner \in Processes
  BY DEF LockInv, LockTypeOK, Locks
<1> USE DEF LockInv, LockTypeOK, Steps, Alive, Acquiring
<1>s. ASSUME NEW w \in Processes, SkipLock(w) PROVE LockInv'
  BY <1>s DEF SkipLock, StaleStaysStale, FileIsOwned
<1>1. ASSUME NEW w \in Processes, CreateLock(w) PROVE LockInv'
  <2>1. LockTypeOK'
    BY <1>1 DEF CreateLock, Locks
  <2>2. StaleStaysStale'
    BY <1>00, <1>1 DEF CreateLock, StaleStaysStale
  <2>3. ~stolen => \A v \in Processes : status[v] \notin {"writing", "holding"}
    BY <1>0, <1>1 DEF CreateLock, FileIsOwned
  <2>4. ~stolen => FileIsOwned'
    BY <1>1, <2>3 DEF CreateLock, FileIsOwned
  <2> QED
    BY <1>1, <2>1, <2>2, <2>4 DEF CreateLock
<1>2. ASSUME NEW w \in Processes, WriteLock(w) PROVE LockInv'
  <2>1. LockTypeOK'
    <3>1. [owner |-> w, written |-> TRUE] \in Locks
      BY DEF Locks
    <3>2. lock' = lock \/ lock' = [owner |-> w, written |-> TRUE]
      <4>1. CASE lock = [owner |-> w, written |-> FALSE]
        <5>1. lock' \in Locks /\ lock'.owner = w /\ lock'.written = TRUE
          BY <1>2, <4>1 DEF WriteLock, Locks
        <5> QED
          BY <3>1, <5>1, SameFile
      <4>2. CASE lock # [owner |-> w, written |-> FALSE]
        BY <1>2, <4>2 DEF WriteLock
      <4> QED
        BY <4>1, <4>2
    <3> QED
      BY <1>2, <3>1, <3>2 DEF WriteLock
  <2>2. StaleStaysStale'
    BY <1>00, <1>2 DEF WriteLock, StaleStaysStale
  <2>3. ASSUME ~stolen PROVE FileIsOwned'
    <3>1. /\ lock = [owner |-> w, written |-> FALSE]
          /\ \A v \in Processes \ {w} : status[v] \notin {"writing", "holding"}
      BY <1>2, <2>3 DEF WriteLock, FileIsOwned
    <3>2. [owner |-> w, written |-> TRUE] \in Locks
      BY DEF Locks
    <3>3. lock' \in Locks /\ lock'.owner = w /\ lock'.written = TRUE
      BY <1>2, <3>1 DEF WriteLock, Locks
    <3>4. lock' = [owner |-> w, written |-> TRUE]
      BY <3>2, <3>3, SameFile
    <3> QED
      BY <1>2, <3>1, <3>4 DEF WriteLock, FileIsOwned
  <2> QED
    BY <1>2, <2>1, <2>2, <2>3 DEF WriteLock
<1>3. ASSUME NEW w \in Processes, MeetLock(w) PROVE LockInv'
  BY <1>3 DEF MeetLock, StaleStaysStale, FileIsOwned
<1>4. ASSUME NEW w \in Processes, ReadLock(w) PROVE LockInv'
  <2>1. LockTypeOK'
    BY <1>4 DEF ReadLock
  <2>2. StaleStaysStale'
    BY <1>4 DEF ReadLock, Stale, StaleStaysStale, Locks
  <2>3. ~stolen => FileIsOwned'
    BY <1>4 DEF ReadLock, FileIsOwned
  <2> QED
    BY <1>4, <2>1, <2>2, <2>3 DEF ReadLock
<1>5. ASSUME NEW w \in Processes, RemoveLock(w) PROVE LockInv'
  <2>1. LockTypeOK'
    BY <1>5 DEF RemoveLock
  <2>2. StaleStaysStale'
    BY <1>5 DEF RemoveLock, StaleStaysStale
  <2>3. ASSUME ~stolen' PROVE FileIsOwned'
    <3>1. /\ ~stolen
          /\ \/ lock = NoLock
             \/ lock = seen[w] /\ (lock.written \/ ~Alive(lock.owner))
      BY <1>5, <2>3 DEF RemoveLock
    <3>2. lock = NoLock \/ ~Alive(lock.owner)
      BY <1>5, <3>1 DEF RemoveLock, StaleStaysStale
    <3>3. \A v \in Processes : status[v] \notin {"writing", "holding"}
      <4> SUFFICES ASSUME NEW v \in Processes, NEW b \in BOOLEAN,
                          lock = [owner |-> v, written |-> b], Alive(v)
                   PROVE  FALSE
        BY <3>1 DEF FileIsOwned
      <4> QED
        BY <1>0, <3>2
    <3> QED
      BY <1>5, <3>3 DEF RemoveLock, FileIsOwned
  <2> QED
    BY <2>1, <2>2, <2>3
<1>6. ASSUME NEW w \in Processes, ReleaseLock(w) PROVE LockInv'
  <2>1. LockTypeOK' /\ StaleStaysStale'
    BY <1>6 DEF ReleaseLock, StaleStaysStale
  <2>2. ASSUME ~stolen PROVE FileIsOwned'
    <3>1. CASE status[w] = "holding"
      BY <1>6, <2>2, <3>1 DEF ReleaseLock, FileIsOwned
    <3>2. CASE status[w] = "unlocked"
      BY <1>6, <2>2, <3>2 DEF ReleaseLock, FileIsOwned
    <3> QED
      BY <1>6, <3>1, <3>2 DEF ReleaseLock
  <2> QED
    BY <1>6, <2>1, <2>2 DEF ReleaseLock
<1>7. ASSUME NEW w \in Processes, Die(w) PROVE LockInv'
  BY <1>7 DEF Die, StaleStaysStale, FileIsOwned
<1>8. CASE UNCHANGED lockVars
  BY <1>8 DEF lockVars, StaleStaysStale, FileIsOwned
<1> QED
  BY <1>s, <1>1, <1>2, <1>3, <1>4, <1>5, <1>6, <1>7, <1>8 DEF LockNext

LEMMA LockInvariance == LockSpec => []LockInv
  BY LockInvInit, LockInvNext, PTL DEF LockSpec

\* Of any number of benchmarks those that take the lock run one at a time, and the lock of the one
\* that runs is there, whichever cases of batches run and end beside it, for as long as no starter
\* has removed a lock that was still being written, or another than it had read.
THEOREM Exclusive == LockSpec => []LockExclusive
<1>1. LockInv => LockExclusive
  BY DEF LockInv, FileIsOwned, LockExclusive
<1> QED
  BY <1>1, LockInvariance, PTL

-----------------------------------------------------------------------------
(* RunMemory and RuleForge *)

\* Unless a stale handle has written, the snapshot has every record, and what is fresh has what the
\* snapshot has.
FreshIsSnapshot == ~overwrote => snapshot = total /\ \A h \in fresh : own[h] = total

\* What is being opened will rebuild the index from all that was recorded, unless it was raced.
LoadedIsTotal ==
    ~overwrote /\ ~raced => /\ index = total
                            /\ \A h \in Handles : handle[h] = "loaded" => own[h] = total

\* No copy counts more than was recorded.
NoneInvented ==
    \A k \in Clusters : /\ snapshot[k] <= total[k] /\ index[k] <= total[k]
                        /\ \A h \in Handles : own[h][k] <= total[k]

StoreInv == FreshIsSnapshot /\ LoadedIsTotal /\ NoneInvented

\* Nothing of the forge outlives the run.
ForgeOfRun ==
    handle[Run] # "open" => /\ clusters = None /\ emitted = None
                            /\ \A c \in Consumers : doing[c] = "start"

\* The inductive invariant of the memory of a workspace.
MemoryInv ==
    /\ MemoryTypeOK /\ StoreInv /\ ForgeOfRun /\ CandidatesFollowFailures

\* The life of a rule, which no run drives.
RuleLives == Life /\ UNCHANGED <<storeVars, handleVars, consumerVars, faults, elsewhere, historyVars>>

\* An event that is being processed is one of the ledger's failures.
LEMMA FailureIsCluster ==
    ASSUME MemoryTypeOK, NEW c \in Consumers, at[c] < Len(Events)
    PROVE  Failure(c) \in Clusters /\ at[c] + 1 \in 0..Len(Events)
<1>1. Events \in Seq(Clusters) /\ at[c] + 1 \in 1..Len(Events)
  BY MemoryAssumption DEF MemoryTypeOK
<1>2. Events[at[c] + 1] \in Clusters
  BY <1>1
<1> QED
  BY <1>1, <1>2 DEF Failure

\* The number of the undecided, when one more is, or one is not any more.
LEMMA UndecidedFacts ==
    ASSUME NEW k \in Clusters
    PROVE  /\ Cardinality(Undecided(k)) \in Nat
           /\ \A c \in Consumers :
                 /\ Cardinality(Undecided(k) \cup {c}) =
                       IF c \in Undecided(k) THEN Cardinality(Undecided(k)) ELSE Cardinality(Undecided(k)) + 1
                 /\ Cardinality(Undecided(k) \ {c}) =
                       IF c \in Undecided(k) THEN Cardinality(Undecided(k)) - 1 ELSE Cardinality(Undecided(k))
<1>1. Undecided(k) \in SUBSET Consumers /\ IsFiniteSet(Consumers)
  BY MemoryAssumption DEF Undecided
<1>2. IsFiniteSet(Undecided(k))
  BY <1>1, FS_Subset
<1> QED
  BY <1>2, FS_CardinalityType, FS_AddElement, FS_RemoveElement

\* A step that leaves the forge and the consumers alone leaves what is undecided.
LEMMA UndecidedKept ==
    ASSUME UNCHANGED <<at, doing>>, handle'[Run] = handle[Run], NEW k \in Clusters
    PROVE  Undecided(k)' = Undecided(k)
BY DEF Undecided, Processing, Failure

\* Before a run has opened it.
LEMMA MemoryInitInv == MemoryInit => MemoryInv
<1> SUFFICES ASSUME MemoryInit PROVE MemoryInv
  OBVIOUS
<1>1. MemoryTypeOK
  <2>1. Len(Events) \in Nat /\ MaxFaults \in Nat /\ MaxOpens \in Nat /\ MaxElsewhere \in Nat /\ MaxVerdicts \in Nat
    BY MemoryAssumption, MaxVerdictsAssumption
  <2>2. ForgeTypeOK
    <3>1. NewRule \in [state : RuleStates, confidence : 0..10, verified : Nat, falsePositives : Nat]
      BY DEF NewRule, RuleStates
    <3>2. ForgeInit
      BY DEF MemoryInit
    <3>3. clusters \in [Clusters -> Nat] /\ emitted \in [Clusters -> Nat]
      BY <3>2 DEF ForgeInit
    <3>4. verdicts \in 0..MaxVerdicts
      BY <2>1, <3>2 DEF ForgeInit
    <3>5. promoted \in BOOLEAN
      BY <3>2 DEF ForgeInit
    <3> QED
      BY <3>1, <3>2, <3>3, <3>4, <3>5 DEF ForgeInit, ForgeTypeOK
  <2>3. None \in [Clusters -> Nat] /\ 0 \in 0..Len(Events)
    BY <2>1 DEF None
  <2> QED
    <3>1. snapshot \in [Clusters -> Nat] /\ index \in [Clusters -> Nat] /\ total \in [Clusters -> Nat]
      BY <2>3 DEF MemoryInit
    <3>2. /\ handle \in [Handles -> {"closed", "loaded", "open"}] /\ own \in [Handles -> [Clusters -> Nat]]
          /\ fresh \subseteq Handles /\ overwrote \in BOOLEAN /\ raced \in BOOLEAN
      BY <2>3 DEF MemoryInit
    <3>3. /\ at \in [Consumers -> 0..Len(Events)] /\ doing \in [Consumers -> {"start", "recorded", "observed"}]
          /\ faults \in 0..MaxFaults /\ opens \in 0..MaxOpens /\ elsewhere \in 0..MaxElsewhere
      BY <2>1, <2>3 DEF MemoryInit
    <3> QED
      BY <2>2, <3>1, <3>2, <3>3 DEF MemoryTypeOK
<1>2. StoreInv /\ CandidatesFollowFailures
  BY DEF MemoryInit, StoreInv, FreshIsSnapshot, LoadedIsTotal, NoneInvented, None, CandidatesFollowFailures, Handles
<1>3. ForgeOfRun
  BY DEF MemoryInit, ForgeOfRun, ForgeInit, None
<1> QED
  BY <1>1, <1>2, <1>3 DEF MemoryInv

\* The part of the types that a record changes.
StoreTypes ==
    /\ snapshot \in [Clusters -> Nat] /\ index \in [Clusters -> Nat] /\ total \in [Clusters -> Nat]
    /\ own \in [Handles -> [Clusters -> Nat]]
    /\ fresh \subseteq Handles /\ overwrote \in BOOLEAN /\ raced \in BOOLEAN

\* A record makes the copy of its handle the only fresh one.
LEMMA RecordAttemptInv ==
    ASSUME MemoryTypeOK, StoreInv, NEW h \in Handles, NEW k \in Clusters, RecordAttempt(h, k), handle' = handle
    PROVE  StoreTypes' /\ StoreInv'
<1> DEFINE merged == [own[h] EXCEPT ![k] = @ + 1]
<1>2. own[h] \in [Clusters -> Nat] /\ merged \in [Clusters -> Nat]
  BY DEF MemoryTypeOK
<1>3. /\ own' = [own EXCEPT ![h] = merged] /\ snapshot' = merged
      /\ index' = [index EXCEPT ![k] = merged[k]] /\ total' = [total EXCEPT ![k] = @ + 1]
      /\ fresh' = {h} /\ overwrote' = (overwrote \/ h \notin fresh)
      /\ raced' = (raced \/ \E g \in Handles : handle[g] = "loaded")
  BY DEF RecordAttempt
<1> HIDE DEF merged
<1>4. StoreTypes'
  <2>1. own' \in [Handles -> [Clusters -> Nat]] /\ snapshot' \in [Clusters -> Nat]
    BY <1>2, <1>3 DEF MemoryTypeOK
  <2>2. index' \in [Clusters -> Nat] /\ total' \in [Clusters -> Nat]
    <3>1. merged[k] \in Nat
      BY <1>2
    <3> QED
      BY <1>3, <3>1 DEF MemoryTypeOK
  <2>3. fresh' \subseteq Handles /\ overwrote' \in BOOLEAN /\ raced' \in BOOLEAN
    BY <1>3 DEF MemoryTypeOK
  <2> QED
    BY <2>1, <2>2, <2>3 DEF StoreTypes
<1>5. FreshIsSnapshot'
  <2> SUFFICES ASSUME ~overwrote, h \in fresh PROVE snapshot' = total' /\ own'[h] = total'
    BY <1>3 DEF FreshIsSnapshot
  <2>1. own[h] = total
    BY DEF StoreInv, FreshIsSnapshot
  <2>2. own'[h] = merged
    BY <1>3 DEF MemoryTypeOK
  <2>3. merged = total'
    BY <1>3, <2>1 DEF merged
  <2> QED
    BY <1>3, <2>2, <2>3
<1>6. LoadedIsTotal'
  <2> SUFFICES ASSUME ~overwrote, h \in fresh, ~raced, \A g \in Handles : handle[g] # "loaded"
               PROVE  index' = total'
    BY <1>3 DEF LoadedIsTotal
  <2>1. index = total /\ own[h] = total
    BY DEF StoreInv, LoadedIsTotal, FreshIsSnapshot
  <2>2. merged[k] = total[k] + 1
    BY <1>2, <2>1 DEF merged
  <2> QED
    BY <1>3, <2>1, <2>2
<1>7. NoneInvented'
  <2> SUFFICES ASSUME NEW l \in Clusters
               PROVE  /\ snapshot'[l] <= total'[l] /\ index'[l] <= total'[l]
                      /\ \A g \in Handles : own'[g][l] <= total'[l]
    BY DEF NoneInvented
  <2>1. /\ own[h][l] <= total[l] /\ index[l] <= total[l] /\ own[h][k] <= total[k]
        /\ \A g \in Handles : own[g][l] <= total[l]
    BY DEF StoreInv, NoneInvented
  <2>2. /\ own[h][l] \in Nat /\ total[l] \in Nat /\ index[l] \in Nat
        /\ \A g \in Handles : own[g][l] \in Nat
    BY DEF MemoryTypeOK
  <2>3. total'[l] = IF l = k THEN total[l] + 1 ELSE total[l]
    BY <1>3 DEF MemoryTypeOK
  <2>4. merged[l] = IF l = k THEN own[h][l] + 1 ELSE own[h][l]
    BY <1>2 DEF merged
  <2>5. merged[l] <= total'[l]
    BY <2>1, <2>2, <2>3, <2>4
  <2>6. snapshot'[l] <= total'[l]
    BY <1>3, <2>5
  <2>7. index'[l] <= total'[l]
    <3>1. index'[l] = IF l = k THEN merged[l] ELSE index[l]
      BY <1>3 DEF MemoryTypeOK
    <3> QED
      BY <2>1, <2>2, <2>3, <2>5, <3>1
  <2>8. ASSUME NEW g \in Handles PROVE own'[g][l] <= total'[l]
    <3>1. own'[g] = IF g = h THEN merged ELSE own[g]
      BY <1>3 DEF MemoryTypeOK
    <3>2. CASE g = h
      BY <2>5, <3>1, <3>2
    <3>3. CASE g # h
      BY <2>1, <2>2, <2>3, <3>1, <3>3
    <3> QED
      BY <3>2, <3>3
  <2> QED
    BY <2>6, <2>7, <2>8
<1> QED
  BY <1>4, <1>5, <1>6, <1>7 DEF StoreInv

\* A record leaves the forge alone: it is not decided on what has not been observed.
LEMMA RecordElsewhereInv == ASSUME MemoryInv, NEW h \in Handles, RecordElsewhere(h) PROVE MemoryInv'
<1>1. PICK k \in Clusters : RecordAttempt(h, k)
  BY DEF RecordElsewhere
<1>2. /\ elsewhere' \in 0..MaxElsewhere
      /\ UNCHANGED <<handle, opens, at, doing, faults, clusters, emitted, rule, verdicts, promoted>>
  BY MemoryAssumption DEF RecordElsewhere, MemoryInv, MemoryTypeOK, consumerVars, forgeVars, lifeVars
<1>3. StoreTypes' /\ StoreInv'
  BY <1>1, <1>2, RecordAttemptInv DEF MemoryInv
<1>4. MemoryTypeOK'
  BY <1>2, <1>3 DEF StoreTypes, MemoryInv, MemoryTypeOK, ForgeTypeOK
<1>5. ForgeOfRun' /\ CandidatesFollowFailures'
  BY <1>2, UndecidedKept DEF MemoryInv, ForgeOfRun, CandidatesFollowFailures
<1> QED
  BY <1>3, <1>4, <1>5 DEF MemoryInv

\* A handle that loads the snapshot is fresh; one that rebuilds the index rebuilds it from its copy.
LEMMA HandlingInv ==
    ASSUME MemoryInv, NEW h \in Handles, Handling(h)
    PROVE  MemoryInv'
<1> USE DEF storeVars, consumerVars, handleVars, forgeVars, lifeVars, historyVars
<1>0. Run \in Handles /\ MemoryTypeOK
  BY DEF Handles, MemoryInv
<1>e. CASE RecordElsewhere(h)
  BY <1>e, RecordElsewhereInv
<1> SUFFICES ASSUME LoadSnapshot(h) \/ RebuildIndexes(h) \/ Prune(h) \/ Forget(h) PROVE MemoryInv'
  BY <1>e DEF Handling
<1>1. UNCHANGED <<at, doing, clusters, emitted, rule, verdicts, promoted, total, faults, elsewhere, raced>>
  BY DEF LoadSnapshot, RebuildIndexes, Prune, Forget, historyVars
<1>2. MemoryTypeOK'
  <2>1. ForgeTypeOK'
    BY <1>0, <1>1 DEF ForgeTypeOK, MemoryTypeOK
  <2> QED
    <3>1. CASE LoadSnapshot(h)
      <4>1. own' \in [Handles -> [Clusters -> Nat]] /\ handle' \in [Handles -> {"closed", "loaded", "open"}]
        BY <1>0, <3>1 DEF LoadSnapshot, MemoryTypeOK
      <4>2. opens' \in 0..MaxOpens /\ fresh' \subseteq Handles
        BY <1>0, <3>1, MemoryAssumption DEF LoadSnapshot, MemoryTypeOK
      <4> QED
        BY <1>0, <1>1, <2>1, <3>1, <4>1, <4>2 DEF LoadSnapshot, MemoryTypeOK
    <3>2. CASE RebuildIndexes(h)
      BY <1>0, <1>1, <2>1, <3>2 DEF RebuildIndexes, MemoryTypeOK
    <3>3. CASE Prune(h)
      BY <1>0, <1>1, <2>1, <3>3 DEF Prune, MemoryTypeOK
    <3>4. CASE Forget(h)
      BY <1>0, <1>1, <2>1, <3>4 DEF Forget, MemoryTypeOK
    <3> QED
      BY <3>1, <3>2, <3>3, <3>4
<1>3. StoreInv'
  <2>1. FreshIsSnapshot'
    BY <1>0, <1>1 DEF LoadSnapshot, RebuildIndexes, Prune, Forget, MemoryInv, MemoryTypeOK, StoreInv, FreshIsSnapshot
  <2>2. LoadedIsTotal'
    BY <1>0, <1>1 DEF LoadSnapshot, RebuildIndexes, Prune, Forget, MemoryInv, MemoryTypeOK, StoreInv, FreshIsSnapshot,
       LoadedIsTotal
  <2>3. NoneInvented'
    <3>1. NoneInvented
      BY DEF MemoryInv, StoreInv
    <3>2. CASE LoadSnapshot(h)
      BY <1>0, <1>1, <3>1, <3>2 DEF LoadSnapshot, NoneInvented, MemoryTypeOK
    <3>3. CASE RebuildIndexes(h)
      BY <1>0, <1>1, <3>1, <3>3 DEF RebuildIndexes, NoneInvented
    <3>4. CASE Prune(h)
      BY <1>0, <1>1, <3>1, <3>4 DEF Prune, NoneInvented
    <3>5. CASE Forget(h)
      BY <1>0, <1>1, <3>1, <3>5 DEF Forget, NoneInvented
    <3> QED
      BY <3>2, <3>3, <3>4, <3>5
  <2> QED
    BY <2>1, <2>2, <2>3 DEF StoreInv
<1>5. CASE handle[Run] = "open" \/ handle'[Run] # "open"
  <2>1. handle'[Run] = handle[Run] \/ (handle[Run] # "open" /\ handle'[Run] # "open")
    BY <1>0, <1>5 DEF LoadSnapshot, RebuildIndexes, Prune, Forget, MemoryTypeOK
  <2>2. CandidatesFollowFailures' /\ ForgeOfRun'
    BY <1>1, <2>1, UndecidedKept DEF MemoryInv, CandidatesFollowFailures, ForgeOfRun
  <2> QED
    BY <1>2, <1>3, <2>2 DEF MemoryInv
<1>6. CASE handle[Run] # "open" /\ handle'[Run] = "open"
  <2>1. clusters = None /\ emitted = None /\ \A c \in Consumers : doing[c] = "start"
    BY <1>6 DEF MemoryInv, ForgeOfRun
  <2>2. \A k \in Clusters : Undecided(k)' = {}
    BY <1>1, <2>1 DEF Undecided, Processing
  <2>3. CandidatesFollowFailures'
    BY <1>1, <2>1, <2>2, FS_EmptySet DEF CandidatesFollowFailures, None
  <2> QED
    BY <1>2, <1>3, <1>6, <2>3 DEF MemoryInv, ForgeOfRun
<1> QED
  BY <1>5, <1>6

\* The forge is gone with the run; the snapshot stays.
LEMMA RunEndsInv == ASSUME MemoryInv, RunEnds PROVE MemoryInv'
<1> USE DEF MemoryInv, RunEnds, storeVars, historyVars
<1>0. Run \in Handles
  BY DEF Handles
<1>1. MemoryTypeOK'
  BY <1>0 DEF MemoryTypeOK, ForgeTypeOK, None, lifeVars
<1>2. StoreInv'
  BY <1>0 DEF MemoryTypeOK, StoreInv, FreshIsSnapshot, LoadedIsTotal, NoneInvented
<1>3. ForgeOfRun' /\ CandidatesFollowFailures'
  BY <1>0 DEF MemoryTypeOK, ForgeOfRun, CandidatesFollowFailures
<1> QED
  BY <1>1, <1>2, <1>3

\* A consumer records through the handle of its run.
LEMMA RecordInv == ASSUME MemoryInv, NEW c \in Consumers, Record(c) PROVE MemoryInv'
<1> USE DEF MemoryInv
<1>1. Failure(c) \in Clusters /\ handle[Run] = "open" /\ doing[c] = "start" /\ Run \in Handles
  BY FailureIsCluster DEF Record, Processing, Handles
<1>3. /\ doing' = [doing EXCEPT ![c] = "recorded"]
      /\ UNCHANGED <<handle, opens, at, faults, elsewhere, clusters, emitted, rule, verdicts, promoted>>
  BY DEF Record, forgeVars, lifeVars
<1>2. StoreTypes' /\ StoreInv'
  BY <1>1, <1>3, RecordAttemptInv DEF Record
<1>4. MemoryTypeOK'
  <2>1. doing' \in [Consumers -> {"start", "recorded", "observed"}]
    BY <1>3 DEF MemoryTypeOK
  <2>2. ForgeTypeOK'
    BY <1>3 DEF MemoryTypeOK, ForgeTypeOK
  <2> QED
    BY <1>2, <1>3, <2>1, <2>2 DEF StoreTypes, MemoryTypeOK
<1>7. \A l \in Clusters : Undecided(l)' = Undecided(l)
  <2>1. \A d \in Consumers : (doing'[d] = "observed") = (doing[d] = "observed")
    BY <1>1, <1>3 DEF MemoryTypeOK
  <2> HIDE DEF MemoryInv
  <2> QED
    BY <1>3, <2>1 DEF Undecided, Processing, Failure
<1>8. ForgeOfRun' /\ CandidatesFollowFailures'
  BY <1>1, <1>3, <1>7 DEF ForgeOfRun, CandidatesFollowFailures
<1> QED
  BY <1>2, <1>4, <1>8

\* What a step of a consumer leaves alone in the store.
LEMMA StoreUntouched ==
    ASSUME StoreInv, UNCHANGED <<storeVars, handleVars, historyVars>>
    PROVE  StoreInv'
BY DEF storeVars, handleVars, historyVars, StoreInv, FreshIsSnapshot, LoadedIsTotal, NoneInvented

\* One more observation is one more that is undecided.
LEMMA ObserveInv == ASSUME MemoryInv, NEW c \in Consumers, ObserveFailure(c) PROVE MemoryInv'
<1> USE DEF MemoryInv
<1> DEFINE f == Failure(c)
<1>1. /\ f \in Clusters /\ handle[Run] = "open" /\ doing[c] = "recorded" /\ at[c] < Len(Events)
  BY FailureIsCluster DEF ObserveFailure, Processing
<1>2. /\ clusters' = [clusters EXCEPT ![f] = @ + 1] /\ doing' = [doing EXCEPT ![c] = "observed"]
      /\ UNCHANGED <<snapshot, index, handle, own, opens, fresh, at, faults, elsewhere, total, overwrote, raced,
                     emitted, rule, verdicts, promoted>>
  BY DEF ObserveFailure, Observe, storeVars, handleVars, historyVars, lifeVars
<1>3. MemoryTypeOK'
  <2> HIDE DEF f
  <2>1. ForgeTypeOK'
    <3>1. clusters' \in [Clusters -> Nat]
      BY <1>1, <1>2 DEF MemoryTypeOK, ForgeTypeOK
    <3> QED
      BY <1>2, <3>1 DEF MemoryTypeOK, ForgeTypeOK
  <2>2. doing' \in [Consumers -> {"start", "recorded", "observed"}]
    BY <1>2 DEF MemoryTypeOK
  <2> QED
    BY <1>2, <2>1, <2>2 DEF MemoryTypeOK
<1>4. StoreInv'
  BY <1>2, StoreUntouched DEF storeVars, handleVars, historyVars
<1>5. ASSUME NEW k \in Clusters
      PROVE  Undecided(k)' = IF k = f THEN Undecided(k) \cup {c} ELSE Undecided(k)
  BY <1>1, <1>2 DEF Undecided, Processing, Failure, MemoryTypeOK
<1>6. c \notin Undecided(f)
  BY <1>1 DEF Undecided, Processing
<1> HIDE DEF f
<1>7. ASSUME NEW k \in Clusters
      PROVE  LET decided == clusters'[k] - Cardinality(Undecided(k)')
             IN  emitted'[k] <= decided /\ decided <= emitted'[k] + 1
  <2>1. /\ clusters[k] \in Nat /\ emitted[k] \in Nat /\ Cardinality(Undecided(k)) \in Nat
        /\ emitted[k] <= clusters[k] - Cardinality(Undecided(k))
        /\ clusters[k] - Cardinality(Undecided(k)) <= emitted[k] + 1
    BY <1>1, UndecidedFacts DEF MemoryTypeOK, ForgeTypeOK, CandidatesFollowFailures
  <2>2. CASE k = f
    <3>1. clusters'[k] = clusters[k] + 1 /\ emitted'[k] = emitted[k]
      BY <1>1, <1>2, <2>2 DEF MemoryTypeOK, ForgeTypeOK
    <3>2. Cardinality(Undecided(k)') = Cardinality(Undecided(k)) + 1
      BY <1>5, <1>6, <2>2, UndecidedFacts
    <3> QED
      BY <2>1, <3>1, <3>2
  <2>3. CASE k # f
    <3>1. clusters'[k] = clusters[k] /\ emitted'[k] = emitted[k] /\ Undecided(k)' = Undecided(k)
      BY <1>1, <1>2, <1>5, <2>3 DEF MemoryTypeOK, ForgeTypeOK
    <3> QED
      BY <2>1, <3>1
  <2> QED
    BY <2>2, <2>3
<1>8. CandidatesFollowFailures' /\ ForgeOfRun'
  BY <1>1, <1>2, <1>7 DEF CandidatesFollowFailures, ForgeOfRun
<1> QED
  BY <1>3, <1>4, <1>8

\* An observation is decided on when a candidate has been asked for, also when its line could not
\* be written: from the second observation of a cluster on, one is emitted.
LEMMA DecisionInv ==
    ASSUME MemoryInv, NEW c \in Consumers, Processing(c, "observed"), MaybeEmitCandidate(Failure(c)),
           doing' = [doing EXCEPT ![c] = "start"], at' \in {at, [at EXCEPT ![c] = @ + 1]},
           faults' \in 0..MaxFaults, UNCHANGED <<storeVars, handleVars, elsewhere, historyVars>>
    PROVE  MemoryInv'
<1> USE DEF MemoryInv
<1> DEFINE f == Failure(c)
<1>1. /\ f \in Clusters /\ handle[Run] = "open" /\ doing[c] = "observed" /\ at[c] < Len(Events)
      /\ at[c] + 1 \in 0..Len(Events)
  BY FailureIsCluster DEF Processing
<1>2. /\ emitted' = IF clusters[f] >= 2 THEN [emitted EXCEPT ![f] = @ + 1] ELSE emitted
      /\ UNCHANGED <<snapshot, index, handle, own, opens, fresh, elsewhere, total, overwrote, raced,
                     clusters, rule, verdicts, promoted>>
  BY DEF MaybeEmitCandidate, Emits, MinClusterCount, storeVars, handleVars, historyVars, lifeVars
<1>3. MemoryTypeOK'
  <2>1. at' \in [Consumers -> 0..Len(Events)]
    BY <1>1 DEF MemoryTypeOK
  <2>2. ForgeTypeOK'
    <3>1. emitted' \in [Clusters -> Nat]
      <4>1. emitted \in [Clusters -> Nat] /\ f \in Clusters
        BY <1>1 DEF MemoryTypeOK, ForgeTypeOK
      <4> HIDE DEF f
      <4>2. [emitted EXCEPT ![f] = @ + 1] \in [Clusters -> Nat]
        BY <4>1
      <4> QED
        BY <1>2, <4>1, <4>2
    <3> QED
      BY <1>2, <3>1 DEF MemoryTypeOK, ForgeTypeOK
  <2> QED
    BY <1>2, <2>1, <2>2 DEF MemoryTypeOK
<1>4. StoreInv'
  BY <1>2, StoreUntouched DEF storeVars, handleVars, historyVars
<1>5. \A d \in Consumers : d # c => at'[d] = at[d] /\ doing'[d] = doing[d]
  BY DEF MemoryTypeOK
<1>6. doing'[c] = "start"
  BY DEF MemoryTypeOK
<1>7. ASSUME NEW k \in Clusters
      PROVE  Undecided(k)' = Undecided(k) \ {c} /\ (c \in Undecided(k) <=> k = f)
  <2>1. \A d \in Consumers : d # c => (Processing(d, "observed")' <=> Processing(d, "observed"))
                                      /\ Failure(d)' = Failure(d)
    BY <1>2, <1>5 DEF Processing, Failure
  <2>2. ~Processing(c, "observed")'
    BY <1>6 DEF Processing
  <2> QED
    BY <1>1, <2>1, <2>2 DEF Undecided
<1> HIDE DEF f
<1>8. ASSUME NEW k \in Clusters
      PROVE  LET decided == clusters'[k] - Cardinality(Undecided(k)')
             IN  emitted'[k] <= decided /\ decided <= emitted'[k] + 1
  <2>1. /\ clusters[k] \in Nat /\ emitted[k] \in Nat /\ Cardinality(Undecided(k)) \in Nat
        /\ emitted[k] <= clusters[k] - Cardinality(Undecided(k))
        /\ clusters[k] - Cardinality(Undecided(k)) <= emitted[k] + 1
        /\ clusters'[k] = clusters[k]
    BY <1>1, <1>2, UndecidedFacts DEF MemoryTypeOK, ForgeTypeOK, CandidatesFollowFailures
  <2>2. CASE k = f
    <3>1. emitted'[k] = IF clusters[k] >= 2 THEN emitted[k] + 1 ELSE emitted[k]
      BY <1>1, <1>2, <2>2 DEF MemoryTypeOK, ForgeTypeOK
    <3>2. Cardinality(Undecided(k)') = Cardinality(Undecided(k)) - 1
      BY <1>7, <2>2, UndecidedFacts
    <3>3. Cardinality(Undecided(k)') \in Nat
      <4>1. Undecided(k)' \in SUBSET Consumers
        BY <1>7 DEF Undecided
      <4> QED
        BY <4>1, MemoryAssumption, FS_Subset, FS_CardinalityType
    <3> QED
      BY <2>1, <3>1, <3>2, <3>3
  <2>3. CASE k # f
    <3>1. emitted'[k] = emitted[k]
      BY <1>1, <1>2, <2>3 DEF MemoryTypeOK, ForgeTypeOK
    <3>2. Cardinality(Undecided(k)') = Cardinality(Undecided(k))
      BY <1>7, <2>3, UndecidedFacts
    <3> QED
      BY <2>1, <3>1, <3>2
  <2> QED
    BY <2>2, <2>3
<1>9. CandidatesFollowFailures' /\ ForgeOfRun'
  BY <1>1, <1>2, <1>8 DEF CandidatesFollowFailures, ForgeOfRun
<1> QED
  BY <1>3, <1>4, <1>9

\* What the two consumers do with a failure.
LEMMA ConsumeInv == ASSUME MemoryInv, NEW c \in Consumers, Consume(c) PROVE MemoryInv'
<1>1. CASE EmitCandidate(c)
  <2>1. faults' \in 0..MaxFaults
    BY <1>1 DEF EmitCandidate, MemoryInv, MemoryTypeOK
  <2> QED
    BY <1>1, <2>1, DecisionInv DEF EmitCandidate
<1>2. CASE PassFails(c)
  <2>1. faults' \in 0..MaxFaults
    BY <1>2, MemoryAssumption DEF PassFails, MemoryInv, MemoryTypeOK
  <2>2. CASE Processing(c, "observed") /\ MaybeEmitCandidate(Failure(c))
    BY <1>2, <2>1, <2>2, DecisionInv DEF PassFails
  <2>3. CASE Processing(c, "start") /\ UNCHANGED forgeVars
    <3>1. doing' = doing
      BY <1>2, <2>3 DEF PassFails, Processing, MemoryInv, MemoryTypeOK
    <3>2. MemoryTypeOK'
      BY <1>2, <2>1, <2>3, <3>1 DEF PassFails, MemoryInv, MemoryTypeOK, ForgeTypeOK, forgeVars, storeVars, handleVars, historyVars
    <3>3. StoreInv'
      BY <1>2, StoreUntouched DEF PassFails, MemoryInv
    <3>4. CandidatesFollowFailures' /\ ForgeOfRun'
      BY <1>2, <2>3, <3>1, UndecidedKept
         DEF PassFails, MemoryInv, CandidatesFollowFailures, ForgeOfRun, forgeVars, handleVars
    <3> QED
      BY <3>2, <3>3, <3>4 DEF MemoryInv
  <2> QED
    BY <1>2, <2>2, <2>3 DEF PassFails
<1> QED
  BY <1>1, <1>2, RecordInv, ObserveInv DEF Consume

\* A rule earns its place: the state of a rule follows its false positives, and without a promotion
\* by hand it is active, or verified, only while it has none.
RuleInv ==
    /\ RulesEarned
    /\ ~promoted => /\ rule.state # "Challenged" /\ rule.state # "Rejected" => rule.falsePositives = 0
                    /\ rule.state = "Active" => rule.verified >= 3

\* A verdict or a promotion changes the rule as its life allows.
LEMMA LifeInv ==
    ASSUME ForgeTypeOK, RuleInv, Life
    PROVE  ForgeTypeOK' /\ RuleInv'
<1>1. /\ rule \in [state : RuleStates, confidence : 0..10, verified : Nat, falsePositives : Nat]
      /\ verdicts' \in 0..MaxVerdicts /\ UNCHANGED <<clusters, emitted>>
  BY MaxVerdictsAssumption DEF ForgeTypeOK, Life, RecordShadowResult, Promote, Judged
<1>2. CASE RecordShadowResult(TRUE)
  <2> DEFINE better == [rule EXCEPT !.verified = @ + 1, !.confidence = Least(@ + 1, 10)]
             earned == /\ rule.state \in {"Draft", "Candidate"}
                       /\ better.verified >= 2 /\ better.confidence >= MinConfidence
             state == IF earned THEN "Verified" ELSE rule.state
  <2>1. /\ rule' = [better EXCEPT !.state = IF state = "Verified" /\ better.verified >= 3 THEN "Active" ELSE state]
        /\ promoted' = promoted
    BY <1>2 DEF RecordShadowResult, Judged, AfterPrevented
  <2>2. /\ better \in [state : RuleStates, confidence : 0..10, verified : Nat, falsePositives : Nat]
        /\ better.verified = rule.verified + 1 /\ better.falsePositives = rule.falsePositives
    <3>1. rule.verified + 1 \in Nat /\ Least(rule.confidence + 1, 10) \in 0..10
      BY <1>1 DEF Least
    <3> QED
      BY <1>1, <3>1
  <2>3. state \in RuleStates
    BY <1>1 DEF RuleStates
  <2>4. state # rule.state => state = "Verified" /\ rule.state \in {"Draft", "Candidate"}
    OBVIOUS
  <2> HIDE DEF better, state
  <2>5. /\ rule' \in [state : RuleStates, confidence : 0..10, verified : Nat, falsePositives : Nat]
        /\ rule'.verified = rule.verified + 1 /\ rule'.falsePositives = rule.falsePositives
        /\ rule'.state = IF state = "Verified" /\ better.verified >= 3 THEN "Active" ELSE state
    BY <2>1, <2>2, <2>3 DEF RuleStates
  <2>6. ForgeTypeOK'
    BY <1>1, <2>1, <2>5 DEF ForgeTypeOK
  <2>7. RuleInv'
    BY <1>1, <2>1, <2>2, <2>4, <2>5 DEF RuleInv, RulesEarned
  <2> QED
    BY <2>6, <2>7
<1>3. CASE RecordShadowResult(FALSE)
  <2>1. /\ rule' = [rule EXCEPT !.falsePositives = @ + 1, !.confidence = Most(@ - 2, 0),
                                !.state = IF rule.falsePositives >= 1 THEN "Rejected" ELSE "Challenged"]
        /\ promoted' = promoted
    BY <1>3 DEF RecordShadowResult, Judged, AfterFalsePositive
  <2>2. /\ rule' \in [state : RuleStates, confidence : 0..10, verified : Nat, falsePositives : Nat]
        /\ rule'.falsePositives = rule.falsePositives + 1
        /\ rule'.state = IF rule.falsePositives >= 1 THEN "Rejected" ELSE "Challenged"
    <3>1. rule.falsePositives + 1 \in Nat /\ Most(rule.confidence - 2, 0) \in 0..10
      BY <1>1 DEF Most
    <3>2. (IF rule.falsePositives >= 1 THEN "Rejected" ELSE "Challenged") \in RuleStates
      BY DEF RuleStates
    <3> QED
      BY <1>1, <2>1, <3>1, <3>2
  <2>3. ForgeTypeOK'
    BY <1>1, <2>1, <2>2 DEF ForgeTypeOK
  <2> QED
    BY <1>1, <2>1, <2>2, <2>3 DEF RuleInv, RulesEarned
<1>4. CASE Promote
  <2>1. /\ rule' = [rule EXCEPT !.state = NextState[@]] /\ promoted' = TRUE
    BY <1>4 DEF Promote, Judged
  <2>2. NextState[rule.state] =
           CASE rule.state = "Candidate" -> "Draft" [] rule.state = "Draft" -> "Verified"
             [] rule.state \in {"Verified", "Challenged", "Active"} -> "Active"
             [] rule.state = "Rejected" -> "Rejected"
    BY <1>1 DEF NextState, RuleStates
  <2>3. /\ rule' \in [state : RuleStates, confidence : 0..10, verified : Nat, falsePositives : Nat]
        /\ rule'.falsePositives = rule.falsePositives /\ rule'.state = NextState[rule.state]
    BY <1>1, <2>1, <2>2 DEF RuleStates
  <2>4. ForgeTypeOK'
    BY <1>1, <2>1, <2>3 DEF ForgeTypeOK
  <2>5. RulesEarned'
    BY <1>1, <2>1, <2>2, <2>3 DEF RuleInv, RulesEarned, RuleStates
  <2> QED
    BY <2>1, <2>4, <2>5 DEF RuleInv
<1> QED
  BY <1>2, <1>3, <1>4 DEF Life

\* The life of a rule touches neither the store nor the clusters.
LEMMA RuleLivesInv == ASSUME MemoryInv, RuleInv, RuleLives PROVE MemoryInv' /\ RuleInv'
<1>1. ForgeTypeOK' /\ RuleInv' /\ UNCHANGED <<clusters, emitted>>
  BY LifeInv DEF RuleLives, MemoryInv, MemoryTypeOK, Life, RecordShadowResult, Promote, Judged
<1>2. UNCHANGED <<snapshot, index, handle, own, opens, fresh, at, doing, faults, elsewhere, total, overwrote, raced>>
  BY DEF RuleLives, storeVars, handleVars, consumerVars, historyVars
<1>3. MemoryTypeOK' /\ ForgeOfRun'
  BY <1>1, <1>2 DEF MemoryInv, MemoryTypeOK, ForgeOfRun
<1>4. StoreInv'
  BY <1>2, StoreUntouched DEF MemoryInv, storeVars, handleVars, historyVars
<1>5. CandidatesFollowFailures'
  BY <1>1, <1>2, UndecidedKept DEF MemoryInv, CandidatesFollowFailures
<1> QED
  BY <1>1, <1>3, <1>4, <1>5 DEF MemoryInv

\* Every step of the memory or of a rule keeps the invariant.
LEMMA MemoryStep ==
    MemoryInv /\ RuleInv /\ [MemoryNext \/ RuleLives]_memoryVars => MemoryInv' /\ RuleInv'
<1> SUFFICES ASSUME MemoryInv, RuleInv, [MemoryNext \/ RuleLives]_memoryVars PROVE MemoryInv' /\ RuleInv'
  OBVIOUS
<1>1. CASE UNCHANGED memoryVars
  BY <1>1, UndecidedKept, StoreUntouched
     DEF memoryVars, MemoryInv, MemoryTypeOK, ForgeTypeOK, ForgeOfRun, CandidatesFollowFailures,
         storeVars, handleVars, consumerVars, forgeVars, historyVars, RuleInv, RulesEarned
<1>2. CASE RuleLives
  BY <1>2, RuleLivesInv
<1>3. CASE MemoryNext
  <2>1. UNCHANGED lifeVars
    BY <1>3 DEF MemoryNext, Handling, LoadSnapshot, RebuildIndexes, Prune, Forget, RecordElsewhere, RunEnds, Consume, Record,
       ObserveFailure, Observe, EmitCandidate, MaybeEmitCandidate, PassFails, forgeVars, lifeVars
  <2>2. RuleInv'
    BY <2>1 DEF lifeVars, RuleInv, RulesEarned
  <2> QED
    BY <1>3, <2>2, HandlingInv, RunEndsInv, ConsumeInv DEF MemoryNext
<1> QED
  BY <1>1, <1>2, <1>3

\* The inductive invariant of the memory of a workspace and of the rule forge of a run.
THEOREM MemoryInvariant == MemorySpec => [](MemoryInv /\ RuleInv)
<1>1. MemoryInit => MemoryInv /\ RuleInv
  BY MemoryInitInv DEF MemoryInit, ForgeInit, NewRule, RuleInv, RulesEarned
<1>2. MemoryInv /\ RuleInv /\ [MemoryNext]_memoryVars => (MemoryInv /\ RuleInv)'
  BY MemoryStep
<1> QED
  BY <1>1, <1>2, PTL DEF MemorySpec

\* What was recorded stays, whichever runs record: in the snapshot unless a handle writes that does
\* not have the latest copy, and in the index that is queried unless it was being rebuilt meanwhile;
\* and nothing is counted that was not recorded.
THEOREM RecordsAreKept == MemorySpec => []RecordsKept
<1>1. MemoryInv => RecordsKept
  BY DEF MemoryInv, StoreInv, FreshIsSnapshot, LoadedIsTotal, NoneInvented, RecordsKept
<1> QED
  BY MemoryInvariant, <1>1, PTL

\* Of the observations of a cluster, all but the first have asked for a candidate.
THEOREM CandidatesFollow == MemorySpec => []CandidatesFollowFailures
BY MemoryInvariant, PTL DEF MemoryInv

-----------------------------------------------------------------------------
(* ContextIndex *)

\* The types of what builders and the reader hold.
SourceEntries == [file : SourceFiles, text : 0..MaxTexts, modified : 0..MaxMillis]
IndexTypes ==
    /\ IndexTypeOK
    /\ existing \in [Builders -> [SourceFiles -> Records \cup {NoRecord}]]
    /\ listed \in [Builders -> SUBSET SourceFiles] /\ todo \in [Builders -> SUBSET SourceFiles]
    /\ DOMAIN entry = Builders
    /\ \A b \in Builders : build[b] \in {"dating", "storing"} => entry[b] \in SourceEntries
    /\ DOMAIN changes = Builders
    /\ \A b \in Builders : /\ DOMAIN changes[b] \subseteq SourceFiles
                           /\ \A f \in DOMAIN changes[b] : changes[b][f] \in Records
    /\ loaded \in [SourceFiles -> Records \cup {NoRecord}]
    /\ quoted \in [SourceFiles -> Records \cup {NoRecord}]

\* A record of f that is around is of the past, and of the text that f has if it has the time that f
\* has; it is of this very moment only if the text is.
Dated(f, record) ==
    record # NoRecord =>
        /\ record.modified <= millis
        /\ disk[f] # NoRecord /\ disk[f].modified = record.modified => disk[f].text = record.text
        /\ record.modified = millis => disk[f] # NoRecord /\ disk[f].modified = millis

\* What builder b makes of the file it is at.
EntryOf(b) == [text |-> entry[b].text, modified |-> entry[b].modified]

\* Of the files none of whose texts has the time of another.
RecordsDated ==
    /\ \A f \in SourceFiles : disk[f] # NoRecord => disk[f].modified <= millis
    /\ \A f \in SourceFiles \ misdated :
          /\ Dated(f, rows[f]) /\ Dated(f, quoted[f])
          /\ \A b \in Builders : /\ f \in DOMAIN changes[b] => Dated(f, changes[b][f])
                                 /\ build[b] = "storing" /\ entry[b].file = f => Dated(f, EntryOf(b))

\* Whoever compiles a context, with nothing edited or committed since it began, has what there is.
ReaderKnows ==
    quiet => /\ reader = "checking" => loaded = rows
             /\ reader = "fresh" => StaleFiles(rows) = {}
             /\ reader = "quoted" => StaleFiles(quoted) = {}

\* A builder that nobody disturbed knows the index, and of every file it has dealt with the record.
Building(b) == build[b] \in {"reading", "dating", "storing"}
BuilderKnows(b) ==
    /\ build[b] = "loaded" => existing[b] = rows /\ DOMAIN changes[b] = {}
    /\ Building(b) =>
          /\ existing[b] = rows /\ listed[b] = Present(disk)
          /\ DOMAIN changes[b] \subseteq listed[b]
          /\ \A f \in listed[b] :
                IF f \in DOMAIN changes[b] THEN changes[b][f] = disk[f]
                ELSE f \in todo[b] \/ rows[f] = disk[f] \/ (build[b] = "storing" /\ entry[b].file = f)
    /\ build[b] = "dating" => entry[b].file \in listed[b] /\ entry[b].text = disk[entry[b].file].text
    /\ build[b] = "storing" => entry[b].file \in listed[b] /\ EntryOf(b) = disk[entry[b].file]
    /\ build[b] = "done" => rows = disk

IdleHasNothing == \A b \in Builders : build[b] = "idle" => DOMAIN changes[b] = {} /\ b \notin alone

IndexInv == IndexTypes /\ RecordsDated /\ ReaderKnows /\ IdleHasNothing /\ \A b \in alone : BuilderKnows(b)

\* The invariant holds from the start on.
LEMMA IndexInitInv == IndexInit => IndexInv
<1> SUFFICES ASSUME IndexInit PROVE IndexInv
  OBVIOUS
<1>1. IndexTypes
  <2>1. 0 \in 0..MaxTexts /\ 0 \in 0..MaxMillis
    BY IndexAssumption
  <2>2. IndexTypeOK
    BY <2>1 DEF IndexInit, IndexTypeOK, Records, Nothing
  <2> QED
    BY <2>1, <2>2 DEF IndexInit, IndexTypes, Nothing
<1>2. RecordsDated
  BY DEF IndexInit, RecordsDated, Dated, Nothing
<1>3. ReaderKnows /\ IdleHasNothing /\ \A b \in alone : BuilderKnows(b)
  BY DEF IndexInit, ReaderKnows, IdleHasNothing
<1> QED
  BY <1>1, <1>2, <1>3 DEF IndexInv

\* What the types say of a number of milliseconds, of texts and of a file.
LEMMA IndexSorts ==
    ASSUME IndexTypes
    PROVE  /\ millis \in Nat /\ texts \in Nat /\ MaxMillis \in Nat /\ MaxTexts \in Nat
           /\ \A f \in SourceFiles : disk[f] # NoRecord =>
                 disk[f] \in Records /\ disk[f].modified \in Nat /\ disk[f].text \in 0..MaxTexts
BY IndexAssumption DEF IndexTypes, IndexTypeOK, Records

-----------------------------------------------------------------------------
(* The user *)

\* A file changes: what is around of another text is of another time, or the file is misdated.
LEMMA UserStep ==
    ASSUME IndexInv, NEW f \in SourceFiles, NEW content \in Records \cup {NoRecord},
           texts' \in 0..MaxTexts, disk' = [disk EXCEPT ![f] = content],
           content # NoRecord => content.modified = millis,
           misdated' \in {misdated, misdated \cup {f}},
           disk[f] # NoRecord /\ disk[f].modified = millis => f \in misdated',
           Disturb, UNCHANGED <<millis, rows, writer, buildVars, readerVars>>
    PROVE  IndexInv'
<1> USE DEF IndexInv, Disturb, buildVars, readerVars
<1>1. IndexTypes'
  BY DEF IndexTypes, IndexTypeOK
<1>2. ASSUME NEW g \in SourceFiles \ misdated', NEW r, Dated(g, r), r # NoRecord => r.modified \in Nat
      PROVE  Dated(g, r)'
  <2>1. CASE g # f
    <3>1. disk'[g] = disk[g]
      BY <2>1 DEF IndexTypes, IndexTypeOK
    <3> QED
      BY <1>2, <3>1 DEF Dated
  <2>2. CASE g = f
    <3>1. r # NoRecord => r.modified # millis
      BY <1>2, <2>2 DEF Dated
    <3>2. disk'[f] = content
      BY DEF IndexTypes, IndexTypeOK
    <3> QED
      BY <1>2, <2>2, <3>1, <3>2 DEF Dated
  <2> QED
    BY <2>1, <2>2
<1>3. RecordsDated'
  <2>1. \A g \in SourceFiles : disk'[g] # NoRecord => disk'[g].modified <= millis
    BY IndexSorts DEF RecordsDated, IndexTypes, IndexTypeOK
  <2>2. ASSUME NEW g \in SourceFiles \ misdated' PROVE Dated(g, rows[g])' /\ Dated(g, quoted[g])'
    <3>1. Dated(g, rows[g]) /\ Dated(g, quoted[g])
      BY DEF RecordsDated
    <3>2. /\ rows[g] # NoRecord => rows[g].modified \in Nat
          /\ quoted[g] # NoRecord => quoted[g].modified \in Nat
      BY DEF IndexTypes, IndexTypeOK, Records
    <3> QED
      BY <1>2, <3>1, <3>2
  <2>3. ASSUME NEW g \in SourceFiles \ misdated', NEW b \in Builders
        PROVE  /\ g \in DOMAIN changes[b] => Dated(g, changes[b][g])'
               /\ build[b] = "storing" /\ entry[b].file = g => Dated(g, EntryOf(b))'
    <3>1. g \in DOMAIN changes[b] => Dated(g, changes[b][g]) /\ changes[b][g].modified \in Nat
      BY DEF RecordsDated, IndexTypes, Records
    <3>2. build[b] = "storing" /\ entry[b].file = g => Dated(g, EntryOf(b)) /\ EntryOf(b).modified \in Nat
      BY DEF RecordsDated, IndexTypes, SourceEntries, EntryOf
    <3>3. EntryOf(b)' = EntryOf(b)
      BY DEF EntryOf
    <3> QED
      BY <1>2, <3>1, <3>2, <3>3
  <2> QED
    BY <2>1, <2>2, <2>3 DEF RecordsDated
<1>4. ReaderKnows' /\ IdleHasNothing' /\ \A b \in alone' : BuilderKnows(b)'
  BY DEF ReaderKnows, IdleHasNothing
<1> QED
  BY <1>1, <1>3, <1>4

\* Whoever edits a file gives it a text and a time that no record has yet.
LEMMA EditSourceInv == ASSUME IndexInv, NEW f \in SourceFiles, EditSource(f) PROVE IndexInv'
<1> DEFINE content == [text |-> texts', modified |-> millis]
<1>1. texts' \in 0..MaxTexts /\ content \in Records
  BY IndexSorts DEF IndexInv, IndexTypes, IndexTypeOK, EditSource, Records
<1> QED
  BY <1>1, UserStep DEF EditSource

\* Whoever removes a file leaves only records of the past.
LEMMA RemoveSourceInv == ASSUME IndexInv, NEW f \in SourceFiles, RemoveSource(f) PROVE IndexInv'
<1>1. texts' \in 0..MaxTexts
  BY IndexSorts DEF IndexInv, IndexTypes, IndexTypeOK, RemoveSource
<1> QED
  BY <1>1, UserStep DEF RemoveSource

\* Time passes: no record is of this very moment any more, unless its file is.
LEMMA MilliPassesInv == ASSUME IndexInv, MilliPasses PROVE IndexInv'
<1> USE DEF IndexInv, MilliPasses, buildVars, readerVars
<1>1. IndexTypes'
  BY IndexSorts DEF IndexTypes, IndexTypeOK
<1>2. ASSUME NEW g \in SourceFiles, NEW r, Dated(g, r), r # NoRecord => r.modified \in Nat
      PROVE  Dated(g, r)'
  BY <1>2, IndexSorts DEF Dated
<1>3. RecordsDated'
  <2>1. \A g \in SourceFiles : disk'[g] # NoRecord => disk'[g].modified <= millis'
    BY IndexSorts DEF RecordsDated
  <2>2. ASSUME NEW g \in SourceFiles \ misdated' PROVE Dated(g, rows[g])' /\ Dated(g, quoted[g])'
    <3>1. Dated(g, rows[g]) /\ Dated(g, quoted[g])
      BY DEF RecordsDated
    <3>2. /\ rows[g] # NoRecord => rows[g].modified \in Nat
          /\ quoted[g] # NoRecord => quoted[g].modified \in Nat
      BY DEF IndexTypes, IndexTypeOK, Records
    <3> QED
      BY <1>2, <3>1, <3>2
  <2>3. ASSUME NEW g \in SourceFiles \ misdated', NEW b \in Builders
        PROVE  /\ g \in DOMAIN changes[b] => Dated(g, changes[b][g])'
               /\ build[b] = "storing" /\ entry[b].file = g => Dated(g, EntryOf(b))'
    <3>1. g \in DOMAIN changes[b] => Dated(g, changes[b][g]) /\ changes[b][g].modified \in Nat
      BY DEF RecordsDated, IndexTypes, Records
    <3>2. build[b] = "storing" /\ entry[b].file = g => Dated(g, EntryOf(b)) /\ EntryOf(b).modified \in Nat
      BY DEF RecordsDated, IndexTypes, SourceEntries, EntryOf
    <3>3. EntryOf(b)' = EntryOf(b)
      BY DEF EntryOf
    <3> QED
      BY <1>2, <3>1, <3>2, <3>3
  <2> QED
    BY <2>1, <2>2, <2>3 DEF RecordsDated
<1>4. ReaderKnows' /\ IdleHasNothing'
  BY DEF ReaderKnows, IdleHasNothing, StaleFiles, Present
<1>5. \A b \in alone' : BuilderKnows(b)'
  BY DEF BuilderKnows, Building, EntryOf, Present
<1> QED
  BY <1>1, <1>3, <1>4, <1>5

-----------------------------------------------------------------------------
(* The builders *)

\* A builder steps, short of a commit: the others are as they were, and so is the reader.
LEMMA BuilderStep ==
    ASSUME IndexInv, NEW b \in Builders, UNCHANGED <<rows, Undisturbed>>, IndexTypes',
           misdated \subseteq misdated', alone' \subseteq alone \cup {b},
           \A c \in Builders \ {b} : /\ build'[c] = build[c] /\ existing'[c] = existing[c]
                                     /\ listed'[c] = listed[c] /\ todo'[c] = todo[c]
                                     /\ entry'[c] = entry[c] /\ changes'[c] = changes[c],
           \A f \in SourceFiles \ misdated' :
              /\ f \in DOMAIN changes'[b] => Dated(f, changes'[b][f])
              /\ build'[b] = "storing" /\ entry'[b].file = f => Dated(f, EntryOf(b)'),
           build'[b] # "idle", b \in alone' => BuilderKnows(b)'
    PROVE  IndexInv'
<1> USE DEF IndexInv, Undisturbed, readerVars
<1>1. \A f, r : Dated(f, r)' = Dated(f, r)
  BY DEF Dated
<1>2. RecordsDated'
  <2>1. ASSUME NEW f \in SourceFiles \ misdated', NEW c \in Builders
        PROVE  /\ f \in DOMAIN changes'[c] => Dated(f, changes'[c][f])
               /\ build'[c] = "storing" /\ entry'[c].file = f => Dated(f, EntryOf(c)')
    <3>1. CASE c = b
      BY <3>1
    <3>2. CASE c # b
      BY <3>2 DEF RecordsDated, EntryOf
    <3> QED
      BY <3>1, <3>2
  <2>2. \A f \in SourceFiles \ misdated' : Dated(f, rows[f]) /\ Dated(f, quoted[f])
    BY DEF RecordsDated
  <2>3. \A f \in SourceFiles : disk[f] # NoRecord => disk[f].modified <= millis
    BY DEF RecordsDated
  <2>4. ASSUME NEW f \in SourceFiles \ misdated', NEW c \in Builders
        PROVE  /\ f \in DOMAIN changes'[c] => Dated(f, changes[c][f])'
               /\ build'[c] = "storing" /\ entry'[c].file = f => Dated(f, EntryOf(c))'
    BY <1>1, <2>1 DEF Dated
  <2>5. ASSUME NEW f \in SourceFiles \ misdated' PROVE Dated(f, rows[f])' /\ Dated(f, quoted[f])'
    BY <2>2 DEF Dated
  <2> QED
    BY <2>3, <2>4, <2>5 DEF RecordsDated
<1>3. ReaderKnows'
  BY DEF ReaderKnows, StaleFiles, Present
<1>4. IdleHasNothing'
  BY DEF IdleHasNothing
<1>5. ASSUME NEW c \in alone', c # b PROVE BuilderKnows(c)'
  <2>1. c \in Builders /\ c \in alone
    BY <1>5 DEF IndexTypes, IndexTypeOK
  <2> QED
    BY <1>5, <2>1 DEF BuilderKnows, Building, EntryOf, Present
<1> QED
  BY <1>2, <1>3, <1>4, <1>5

\* What is known of one's own changes and entry.
LEMMA OwnDated ==
    ASSUME IndexInv, NEW b \in Builders, NEW f \in SourceFiles \ misdated
    PROVE  /\ f \in DOMAIN changes[b] => Dated(f, changes[b][f])
           /\ build[b] = "storing" /\ entry[b].file = f => Dated(f, EntryOf(b))
BY DEF IndexInv, RecordsDated

\* A builder begins with the rows as they are.
LEMMA LoadRecordsInv == ASSUME IndexInv, NEW b \in Builders, LoadRecords(b) PROVE IndexInv'
<1> USE DEF IndexInv, LoadRecords, BuildGoes, Undisturbed, readerVars
<1>1. IndexTypes'
  BY DEF IndexTypes, IndexTypeOK
<1>2. BuilderKnows(b)'
  BY DEF BuilderKnows, Building, IndexTypes, IndexTypeOK, IdleHasNothing
<1> QED
  BY <1>1, <1>2, BuilderStep, OwnDated DEF IndexTypes, IndexTypeOK

\* It lists the files that there are.
LEMMA ScanFilesInv == ASSUME IndexInv, NEW b \in Builders, ScanFiles(b) PROVE IndexInv'
<1> USE DEF IndexInv, ScanFiles, BuildGoes, Undisturbed, readerVars
<1>1. IndexTypes'
  BY DEF IndexTypes, IndexTypeOK, Present
<1>2. b \in alone => BuilderKnows(b)'
  BY DEF BuilderKnows, Building, IndexTypes, IndexTypeOK, Present
<1> QED
  BY <1>1, <1>2, BuilderStep, OwnDated DEF IndexTypes, IndexTypeOK

\* It fails, and what it has not committed is gone.
LEMMA BuildFailsInv == ASSUME IndexInv, NEW b \in Builders, BuildFails(b) PROVE IndexInv'
<1> USE DEF IndexInv, BuildFails, BuildOver, Undisturbed, readerVars
<1>1. IndexTypes'
  BY DEF IndexTypes, IndexTypeOK, Nothing
<1>2. b \in alone => BuilderKnows(b)'
  BY DEF BuilderKnows, Building, IndexTypes, IndexTypeOK
<1>3. DOMAIN changes'[b] = {} /\ build'[b] = "failed"
  BY DEF IndexTypes, IndexTypeOK
<1> QED
  BY <1>1, <1>2, <1>3, BuilderStep DEF IndexTypes, IndexTypeOK

\* It reads a text.
LEMMA ReadSourceInv ==
    ASSUME IndexInv, NEW b \in Builders, NEW f \in SourceFiles, ReadSource(b, f) PROVE IndexInv'
<1> USE DEF IndexInv, ReadSource, BuildGoes, Undisturbed, readerVars
<1> DEFINE e == [file |-> f, text |-> disk[f].text, modified |-> 0]
<1>0. e \in SourceEntries
  BY IndexSorts DEF SourceEntries
<1>00. entry'[b] = e /\ build'[b] = "dating" /\ e.file = f /\ e.text = disk[f].text
  BY DEF IndexTypes, IndexTypeOK
<1> HIDE DEF e
<1>1. IndexTypes'
  BY <1>0, <1>00 DEF IndexTypes, IndexTypeOK
<1>2. b \in alone => BuilderKnows(b)'
  BY <1>00 DEF BuilderKnows, Building, IndexTypes, IndexTypeOK, Present
<1> QED
  BY <1>1, <1>2, BuilderStep, OwnDated DEF IndexTypes, IndexTypeOK

\* It asks for the time: of another text only if the file was edited since, and is misdated then.
LEMMA DateSourceInv == ASSUME IndexInv, NEW b \in Builders, DateSource(b) PROVE IndexInv'
<1> USE DEF IndexInv, Undisturbed, readerVars
<1> DEFINE f == entry[b].file
           e == [entry[b] EXCEPT !.modified = disk[f].modified]
<1>1. /\ build[b] = "dating" /\ f \in SourceFiles /\ entry[b] \in SourceEntries /\ disk[f] # NoRecord
      /\ disk[f] \in Records
  BY IndexSorts DEF DateSource, IndexTypes, SourceEntries
<1>2. /\ misdated' = IF disk[f].text # entry[b].text THEN misdated \cup {f} ELSE misdated
      /\ todo' = [todo EXCEPT ![b] = @ \ {f}]
      /\ build' = [build EXCEPT ![b] = IF SameRecord(existing[b][f], entry[b].text, disk[f].modified)
                                       THEN "reading" ELSE "storing"]
      /\ UNCHANGED <<rows, writer, existing, listed, changes, alone, Undisturbed>>
      /\ entry' = [entry EXCEPT ![b] = e]
  BY DEF DateSource, BuildGoes
<1>3. e \in SourceEntries /\ e.file = f /\ e.text = entry[b].text /\ e.modified = disk[f].modified
  BY <1>1 DEF SourceEntries, Records
<1>4. entry'[b] = e
  BY <1>2 DEF IndexTypes
<1> HIDE DEF e
<1>5. IndexTypes'
  BY <1>1, <1>2, <1>3, <1>4 DEF IndexTypes, IndexTypeOK
<1>6. EntryOf(b)' = [text |-> entry[b].text, modified |-> disk[f].modified]
  BY <1>3, <1>4 DEF EntryOf
<1>7. entry[b].text = disk[f].text => EntryOf(b)' = disk[f]
  BY <1>1, <1>6 DEF Records
<1>8. \A g \in SourceFiles \ misdated' : build'[b] = "storing" /\ entry'[b].file = g => Dated(g, EntryOf(b)')
  <2> SUFFICES ASSUME f \in SourceFiles \ misdated' PROVE Dated(f, EntryOf(b)')
    BY <1>3, <1>4
  <2>1. EntryOf(b)' = disk[f] /\ disk[f].modified <= millis
    BY <1>1, <1>2, <1>7 DEF RecordsDated
  <2> QED
    BY <1>1, <2>1 DEF Dated
<1>9. ASSUME b \in alone PROVE BuilderKnows(b)'
  <2>1. /\ existing[b] = rows /\ listed[b] = Present(disk) /\ DOMAIN changes[b] \subseteq listed[b]
        /\ f \in listed[b] /\ entry[b].text = disk[f].text
        /\ \A g \in listed[b] : IF g \in DOMAIN changes[b] THEN changes[b][g] = disk[g]
                                ELSE g \in todo[b] \/ rows[g] = disk[g]
    BY <1>1, <1>9 DEF BuilderKnows, Building
  <2>2. EntryOf(b)' = disk[f]
    BY <1>7, <2>1
  <2>3. build'[b] = "storing" \/ (build'[b] = "reading" /\ rows[f] = disk[f])
    BY <1>1, <1>2, <1>6, <2>1, <2>2 DEF SameRecord, IndexTypes, IndexTypeOK
  <2>4. todo'[b] = todo[b] \ {f}
    BY <1>2 DEF IndexTypes
  <2> QED
    BY <1>2, <1>3, <1>4, <2>1, <2>2, <2>3, <2>4 DEF BuilderKnows, Building, Present
<1>10. build'[b] # "idle"
  BY <1>2 DEF IndexTypes, IndexTypeOK
<1>11. \A g \in SourceFiles \ misdated' : g \in DOMAIN changes'[b] => Dated(g, changes'[b][g])
  BY <1>2, OwnDated
<1>12. \A c \in Builders \ {b} : /\ build'[c] = build[c] /\ existing'[c] = existing[c]
                                 /\ listed'[c] = listed[c] /\ todo'[c] = todo[c]
                                 /\ entry'[c] = entry[c] /\ changes'[c] = changes[c]
  BY <1>2 DEF IndexTypes, IndexTypeOK
<1>13. misdated \subseteq misdated' /\ alone' \subseteq alone \cup {b}
  BY <1>2
<1>14. UNCHANGED <<rows, Undisturbed>>
  BY <1>2
<1> QED
  BY <1>2, <1>5, <1>8, <1>9, <1>10, <1>11, <1>12, <1>13, <1>14, BuilderStep

\* It writes a record into its transaction.
LEMMA StoreRecordInv == ASSUME IndexInv, NEW b \in Builders, StoreRecord(b) PROVE IndexInv'
<1> USE DEF IndexInv, Undisturbed, readerVars
<1> DEFINE f == entry[b].file
           new == [g \in DOMAIN changes[b] \cup {f} |-> IF g = f THEN EntryOf(b) ELSE changes[b][g]]
<1>1. /\ build[b] = "storing" /\ f \in SourceFiles /\ entry[b] \in SourceEntries /\ EntryOf(b) \in Records
      /\ writer' = b /\ build' = [build EXCEPT ![b] = "reading"]
      /\ UNCHANGED <<rows, existing, listed, todo, entry, alone, misdated, Undisturbed>>
  BY DEF StoreRecord, BuildGoes, IndexTypes, SourceEntries, EntryOf, Records
<1>2. changes'[b] = new
  BY DEF StoreRecord, EntryOf, IndexTypes
<1>3. \A c \in Builders \ {b} : changes'[c] = changes[c]
  BY DEF StoreRecord, IndexTypes
<1>4. /\ DOMAIN new = {f} \cup DOMAIN changes[b]
      /\ new[f] = EntryOf(b) /\ \A g \in DOMAIN changes[b] \ {f} : new[g] = changes[b][g]
  OBVIOUS
<1>5. DOMAIN changes' = Builders
  BY DEF StoreRecord, IndexTypes
<1> HIDE DEF new
<1>6. IndexTypes'
  <2>1. \A c \in Builders : /\ DOMAIN changes'[c] \subseteq SourceFiles
                            /\ \A g \in DOMAIN changes'[c] : changes'[c][g] \in Records
    BY <1>1, <1>2, <1>3, <1>4 DEF IndexTypes
  <2> QED
    BY <1>1, <1>5, <2>1 DEF IndexTypes, IndexTypeOK
<1>7. \A g \in SourceFiles \ misdated' : /\ g \in DOMAIN changes'[b] => Dated(g, changes'[b][g])
                                         /\ build'[b] # "storing"
  BY <1>1, <1>2, <1>4, OwnDated DEF IndexTypes, IndexTypeOK
<1>8. ASSUME b \in alone PROVE BuilderKnows(b)'
  <2>1. /\ existing[b] = rows /\ listed[b] = Present(disk) /\ DOMAIN changes[b] \subseteq listed[b]
        /\ f \in listed[b] /\ EntryOf(b) = disk[f]
        /\ \A g \in listed[b] : IF g \in DOMAIN changes[b] THEN changes[b][g] = disk[g]
                                ELSE g \in todo[b] \/ rows[g] = disk[g] \/ f = g
    BY <1>1, <1>8 DEF BuilderKnows, Building
  <2>2. build'[b] = "reading"
    BY <1>1 DEF IndexTypes, IndexTypeOK
  <2>3. \A g \in listed[b] : IF g \in DOMAIN new THEN new[g] = disk[g] ELSE g \in todo[b] \/ rows[g] = disk[g]
    BY <1>4, <2>1
  <2> QED
    BY <1>1, <1>2, <1>4, <2>1, <2>2, <2>3 DEF BuilderKnows, Building, Present
<1>9. \A c \in Builders \ {b} : /\ build'[c] = build[c] /\ existing'[c] = existing[c]
                                /\ listed'[c] = listed[c] /\ todo'[c] = todo[c]
                                /\ entry'[c] = entry[c] /\ changes'[c] = changes[c]
  BY <1>1, <1>3 DEF IndexTypes, IndexTypeOK
<1>10. build'[b] # "idle"
  BY <1>1 DEF IndexTypes, IndexTypeOK
<1> QED
  BY <1>1, <1>6, <1>7, <1>8, <1>9, <1>10, BuilderStep

\* It commits: the rows are the records of its files then.
LEMMA CommitBuildInv == ASSUME IndexInv, NEW b \in Builders, CommitBuild(b) PROVE IndexInv'
<1> USE DEF IndexInv
<1>1. /\ build[b] = "reading" /\ todo[b] = {}
      /\ rows' = [f \in SourceFiles |->
                    IF f \in DOMAIN changes[b] THEN changes[b][f]
                      ELSE IF f \in Present(existing[b]) \ listed[b] THEN NoRecord
                      ELSE rows[f]]
      /\ writer' = NoRecord /\ BuildOver(b, "done") /\ alone' = alone \cap {b} /\ quiet' = FALSE
      /\ UNCHANGED <<disk, millis, texts, reader, loaded, quoted, misdated>>
  BY DEF CommitBuild, readerVars
<1>2. /\ \A f \in SourceFiles : \/ f \in DOMAIN changes[b] /\ rows'[f] = changes[b][f]
                                \/ f \notin DOMAIN changes[b] /\ f \in Present(existing[b]) \ listed[b]
                                   /\ rows'[f] = NoRecord
                                \/ f \notin DOMAIN changes[b] /\ f \notin Present(existing[b]) \ listed[b]
                                   /\ rows'[f] = rows[f]
      /\ DOMAIN rows' = SourceFiles
  <2>1. ASSUME NEW f \in SourceFiles
        PROVE  rows'[f] = IF f \in DOMAIN changes[b] THEN changes[b][f]
                            ELSE IF f \in Present(existing[b]) \ listed[b] THEN NoRecord
                            ELSE rows[f]
    BY <1>1
  <2> HIDE DEF IndexInv
  <2> QED
    BY <1>1, <2>1
<1>3. rows' \in [SourceFiles -> Records \cup {NoRecord}]
  <2>1. \A f \in SourceFiles : rows'[f] \in Records \cup {NoRecord}
    BY <1>2 DEF IndexTypes, IndexTypeOK
  <2> DEFINE S == Records \cup {NoRecord}
  <2>2. rows' = [f \in SourceFiles |-> rows'[f]]
    BY <1>1
  <2> HIDE DEF S
  <2> QED
    BY <2>1, <2>2 DEF S
<1>4. IndexTypes'
  <2>1. /\ build' = [build EXCEPT ![b] = "done"] /\ existing' = [existing EXCEPT ![b] = Nothing]
        /\ listed' = [listed EXCEPT ![b] = {}] /\ todo' = [todo EXCEPT ![b] = {}]
        /\ entry' = [entry EXCEPT ![b] = NoRecord] /\ changes' = [changes EXCEPT ![b] = <<>>]
    BY <1>1 DEF BuildOver
  <2>2. existing' \in [Builders -> [SourceFiles -> Records \cup {NoRecord}]]
    BY <2>1 DEF IndexTypes, Nothing
  <2>3. /\ listed' \in [Builders -> SUBSET SourceFiles] /\ todo' \in [Builders -> SUBSET SourceFiles]
        /\ \A c \in Builders : todo'[c] \subseteq listed'[c]
    BY <2>1 DEF IndexTypes, IndexTypeOK
  <2>4. DOMAIN entry' = Builders /\ \A c \in Builders : build'[c] \in {"dating", "storing"} => entry'[c] \in SourceEntries
    BY <2>1 DEF IndexTypes, IndexTypeOK
  <2>5. DOMAIN changes' = Builders
    BY <2>1 DEF IndexTypes
  <2>6. ASSUME NEW c \in Builders
        PROVE  DOMAIN changes'[c] \subseteq SourceFiles /\ \A f \in DOMAIN changes'[c] : changes'[c][f] \in Records
    BY <2>1 DEF IndexTypes
  <2>7. IndexTypeOK'
    <3>1. build' \in [Builders -> {"idle", "loaded", "reading", "dating", "storing", "done", "failed"}]
      BY <2>1 DEF IndexTypes, IndexTypeOK
    <3> QED
      BY <1>1, <1>3, <2>3, <3>1 DEF IndexTypes, IndexTypeOK
  <2> QED
    BY <1>1, <2>2, <2>3, <2>4, <2>5, <2>6, <2>7 DEF IndexTypes
<1>5. /\ \A c \in Builders \ {b} : /\ build'[c] = build[c] /\ entry'[c] = entry[c] /\ changes'[c] = changes[c]
      /\ DOMAIN changes'[b] = {} /\ build'[b] = "done"
  BY <1>1 DEF BuildOver, IndexTypes, IndexTypeOK
<1>6. RecordsDated'
  <2>1. ASSUME NEW f \in SourceFiles \ misdated' PROVE Dated(f, rows[f])' /\ Dated(f, quoted[f])'
    BY <1>1, <1>2, OwnDated DEF RecordsDated, Dated
  <2>2. ASSUME NEW f \in SourceFiles \ misdated', NEW c \in Builders
        PROVE  /\ f \in DOMAIN changes'[c] => Dated(f, changes[c][f])'
               /\ build'[c] = "storing" /\ entry'[c].file = f => Dated(f, EntryOf(c))'
    BY <1>1, <1>5, OwnDated DEF Dated, EntryOf
  <2>3. \A f \in SourceFiles : disk'[f] # NoRecord => disk'[f].modified <= millis'
    BY <1>1 DEF RecordsDated
  <2> QED
    BY <2>1, <2>2, <2>3 DEF RecordsDated
<1>7. ReaderKnows' /\ IdleHasNothing'
  BY <1>1, <1>5 DEF ReaderKnows, IdleHasNothing
<1>8. ASSUME b \in alone PROVE BuilderKnows(b)'
  <2>1. /\ existing[b] = rows /\ listed[b] = Present(disk)
        /\ \A f \in listed[b] : IF f \in DOMAIN changes[b] THEN changes[b][f] = disk[f] ELSE rows[f] = disk[f]
        /\ DOMAIN changes[b] \subseteq listed[b]
    BY <1>1, <1>8 DEF BuilderKnows, Building
  <2>2. ASSUME NEW f \in SourceFiles PROVE rows'[f] = disk[f]
    <3>1. CASE f \in listed[b]
      BY <1>2, <2>1, <3>1
    <3>2. CASE f \notin listed[b]
      <4>1. disk[f] = NoRecord
        BY <2>1, <3>2 DEF Present
      <4> QED
        BY <1>2, <2>1, <3>2, <4>1 DEF Present
    <3> QED
      BY <3>1, <3>2
  <2>3. rows' = disk
    BY <1>3, <2>2 DEF IndexTypes, IndexTypeOK
  <2> QED
    BY <1>1, <1>5, <2>3 DEF BuilderKnows, Building
<1> QED
  BY <1>1, <1>4, <1>6, <1>7, <1>8

-----------------------------------------------------------------------------
(* The context compiler *)

\* The reader steps: nothing else does.
LEMMA ReaderStep ==
    ASSUME IndexInv, UNCHANGED <<disk, millis, texts, rows, writer, buildVars, alone, misdated>>,
           IndexTypeOK', loaded' \in [SourceFiles -> Records \cup {NoRecord}], quoted' \in {quoted, rows}, ReaderKnows'
    PROVE  IndexInv'
<1> USE DEF IndexInv, buildVars
<1>1. IndexTypes'
  BY DEF IndexTypes, IndexTypeOK
<1>2. RecordsDated'
  BY DEF RecordsDated, Dated, EntryOf
<1>3. IdleHasNothing' /\ \A b \in alone' : BuilderKnows(b)'
  BY DEF IdleHasNothing, BuilderKnows, Building, EntryOf, Present
<1> QED
  BY <1>1, <1>2, <1>3

\* The context compiler changes nothing but what it holds itself.
LEMMA ReaderInv == ASSUME IndexInv, BeginCheck \/ CheckFresh \/ QuoteIndex PROVE IndexInv'
<1>1. CASE BeginCheck
  <2>1. IndexTypeOK' /\ ReaderKnows' /\ loaded' \in [SourceFiles -> Records \cup {NoRecord}]
    BY <1>1 DEF BeginCheck, IndexInv, IndexTypes, IndexTypeOK, ReaderKnows, buildVars
  <2> QED
    BY <1>1, <2>1, ReaderStep DEF BeginCheck
<1>2. CASE CheckFresh
  <2>1. IndexTypeOK' /\ loaded' \in [SourceFiles -> Records \cup {NoRecord}]
    BY <1>2 DEF CheckFresh, IndexInv, IndexTypes, IndexTypeOK, buildVars, Nothing
  <2>2. ReaderKnows'
    BY <1>2 DEF CheckFresh, IndexInv, ReaderKnows, StaleFiles, Present
  <2> QED
    BY <1>2, <2>1, <2>2, ReaderStep DEF CheckFresh
<1>3. CASE QuoteIndex
  <2>1. IndexTypeOK'
    BY <1>3 DEF QuoteIndex, IndexInv, IndexTypes, IndexTypeOK, buildVars
  <2>2. ReaderKnows'
    BY <1>3 DEF QuoteIndex, IndexInv, ReaderKnows, StaleFiles, Present
  <2> QED
    BY <1>3, <2>1, <2>2, ReaderStep DEF QuoteIndex, IndexInv, IndexTypes
<1> QED
  BY <1>1, <1>2, <1>3

\* No step breaks the invariant.
LEMMA IndexStep == IndexInv /\ [IndexNext]_indexVars => IndexInv'
<1>1. ASSUME IndexInv, UNCHANGED indexVars PROVE IndexInv'
  BY <1>1 DEF indexVars, buildVars, readerVars, IndexInv, IndexTypes, IndexTypeOK, RecordsDated, Dated, EntryOf,
              ReaderKnows, StaleFiles, Present, IdleHasNothing, BuilderKnows, Building
<1> QED
  BY <1>1, EditSourceInv, RemoveSourceInv, MilliPassesInv, LoadRecordsInv, ScanFilesInv, BuildFailsInv,
     ReadSourceInv, DateSourceInv, StoreRecordInv, CommitBuildInv, ReaderInv DEF IndexNext, BuilderSteps

\* What the invariant says of an index.
LEMMA IndexMeans == IndexInv => IndexTypeOK /\ FreshIsCurrent /\ BuildRepairs
<1> SUFFICES ASSUME IndexInv PROVE IndexTypeOK /\ FreshIsCurrent /\ BuildRepairs
  OBVIOUS
<1> USE DEF IndexInv
<1>1. FreshIsCurrent
  <2> SUFFICES ASSUME reader = "quoted", quiet, NEW f \in SourceFiles \ misdated PROVE quoted[f] = disk[f]
    BY DEF FreshIsCurrent
  <2>1. f \notin StaleFiles(quoted)
    BY DEF ReaderKnows
  <2>2. /\ disk[f] # NoRecord => quoted[f] # NoRecord /\ quoted[f].modified = disk[f].modified
        /\ quoted[f] # NoRecord => disk[f] # NoRecord
    BY <2>1 DEF StaleFiles, Present
  <2>3. Dated(f, quoted[f])
    BY DEF RecordsDated
  <2>4. quoted[f] \in Records \cup {NoRecord} /\ disk[f] \in Records \cup {NoRecord}
    BY DEF IndexTypes, IndexTypeOK
  <2> QED
    BY <2>2, <2>3, <2>4 DEF Dated, Records
<1>2. BuildRepairs
  BY DEF BuildRepairs, BuilderKnows
<1> QED
  BY <1>1, <1>2 DEF IndexTypes

\* What is quoted from a fresh index is what the files say, and a build that nobody disturbs repairs
\* the index, for any files, builders, edits and kills.
THEOREM IndexHolds == IndexSpec => [](FreshIsCurrent /\ BuildRepairs)
  BY IndexInitInv, IndexStep, IndexMeans, PTL DEF IndexSpec


-----------------------------------------------------------------------------
(* BenchmarkBatch *)

(* Entries tell the first cases, each by the report that is kept in its directory. *)
Accounts(list, kept, now) ==
    \A j \in DOMAIN list :
        LET there == kept[list[j].place] IN
        /\ list[j].case = j /\ list[j].place[1] = j
        /\ Legible(there) => there.batch = now
        /\ list[j].success <=> Legible(there) /\ there.outcome = "passed"

(* What the batch knows of the case it is at. *)
AtCase ==
    /\ step # "off" => /\ case \in Cases /\ batch \in 1..MaxBatches
                       /\ summary = entries /\ Accounts(entries, results, batch) /\ Len(entries) = case - 1
                       /\ failures <= case
    /\ step \in {"case", "child"} => failures < case
    /\ step \in {"child", "synthesis"} => chosen = <<case, "first">> /\ ~Legible(results[chosen])
    /\ step = "retry" => /\ \/ chosen = <<case, "first">> /\ results[chosen] = found
                            \/ chosen = <<case, "retry">> /\ ~Legible(results[chosen])
                         /\ Legible(found) /\ found.batch = batch /\ found.outcome # "passed"
    /\ step = "listing" => /\ chosen \in {<<case, "first">>, <<case, "retry">>}
                           /\ Legible(results[chosen]) => found = results[chosen] /\ found.batch = batch
                           /\ ~Legible(results[chosen]) => ~Legible(found) \/ found.outcome # "passed"

(* The invariant: types, what is known of the case, and the summary that is kept. *)
BatchInv == BatchTypeOK /\ AtCase /\ (Legible(summary) => Accounts(summary, results, batch))

\* The directories of a case are of that case.
LEMMA BatchPlaces ==
    /\ \A c \in Cases : <<c, "first">> \in Places /\ <<c, "retry">> \in Places
    /\ \A c \in Cases : <<c, "first">>[1] = c /\ <<c, "retry">>[1] = c
    /\ \A pl \in Places : pl[1] \in Cases
    /\ \A c \in Cases : <<c, "first">> # <<c, "retry">>
    /\ CaseCount \in Nat /\ MaxBatches \in Nat
  BY BatchAssumption DEF Places, Cases

\* It holds before the first batch.
LEMMA BatchInitInv == BatchInit => BatchInv
<1> SUFFICES ASSUME BatchInit PROVE BatchInv
  OBVIOUS
<1>1. ~Legible(summary) /\ step = "off" /\ batch = 0 /\ case = 1 /\ entries = <<>> /\ failures = 0
  BY DEF BatchInit, Legible
<1>2. BatchTypeOK
  BY <1>1, BatchPlaces DEF BatchInit, BatchTypeOK
<1> QED
  BY <1>1, <1>2 DEF BatchInv, AtCase

\* What is told of earlier cases outlasts a change of what is kept of this one.
LEMMA ToldOutlasts ==
    ASSUME NEW list \in Seq(Entries), NEW kept \in [Places -> Reports \cup {NoReport, Illegible}], NEW now,
           Accounts(list, kept, now), NEW pl \in Places, pl[1] > Len(list), NEW rep
    PROVE  Accounts(list, [kept EXCEPT ![pl] = rep], now)
<1> DEFINE after == [kept EXCEPT ![pl] = rep]
<1> SUFFICES ASSUME NEW j \in DOMAIN list
             PROVE  LET there == after[list[j].place] IN
                    /\ list[j].case = j /\ list[j].place[1] = j
                    /\ Legible(there) => there.batch = now
                    /\ list[j].success <=> Legible(there) /\ there.outcome = "passed"
  BY DEF Accounts
<1>0. j \in 1..Len(list)
  OBVIOUS
<1>1. list[j] \in Entries
  BY <1>0
<1>2. list[j].place \in Places /\ list[j].place[1] = j
  BY <1>1 DEF Accounts, Entries
<1>3. list[j].place # pl
  BY <1>0, <1>2, BatchPlaces DEF Cases
<1>4. after[list[j].place] = kept[list[j].place]
  BY <1>2, <1>3
<1> QED
  BY <1>4 DEF Accounts

\* A report of this batch.
LEMMA NewReport ==
    ASSUME NEW o \in Outcomes, NEW native \in BOOLEAN, batch \in 1..MaxBatches
    PROVE  [outcome |-> o, native |-> native, batch |-> batch] \in Reports
  BY DEF Reports

\* Of what a process may leave only a report of this batch can be read, unless one was there before.
LEMMA LeftIs ==
    ASSUME BatchTypeOK, chosen \in Places, ~Legible(results[chosen]), batch \in 1..MaxBatches,
           NEW native \in BOOLEAN, NEW rep \in Left(native)
    PROVE  /\ rep \in Reports \cup {NoReport, Illegible}
           /\ Legible(rep) => rep \in Reports /\ rep.batch = batch
<1>1. results[chosen] \in Reports \cup {NoReport, Illegible}
  BY DEF BatchTypeOK
<1> QED
  BY <1>1, NewReport DEF Left, Legible, Reports

\* Every step of a batch keeps it.
LEMMA BatchStep == BatchInv /\ [BatchNext]_batchVars => BatchInv'
<1> SUFFICES ASSUME BatchInv, [BatchNext]_batchVars PROVE BatchInv'
  OBVIOUS
<1>0. BatchTypeOK /\ AtCase /\ (Legible(summary) => Accounts(summary, results, batch))
  BY DEF BatchInv
<1>00. results \in [Places -> Reports \cup {NoReport, Illegible}] /\ entries \in Seq(Entries)
  BY <1>0 DEF BatchTypeOK
<1>000. step # "off" => /\ case \in Cases /\ <<case, "first">> \in Places /\ <<case, "retry">> \in Places
                        /\ batch \in 1..MaxBatches /\ case \in Nat /\ case <= CaseCount /\ CaseCount \in Nat
  BY <1>0, BatchPlaces DEF AtCase, Cases
<1>K. ASSUME step # "off", NEW pl \in {<<case, "first">>, <<case, "retry">>}, NEW rep
      PROVE  Accounts(entries, [results EXCEPT ![pl] = rep], batch)
  <2>1. pl \in Places /\ pl[1] = case /\ Accounts(entries, results, batch) /\ Len(entries) = case - 1
    BY <1>0, <1>000, <1>K, BatchPlaces DEF AtCase
  <2>2. pl[1] > Len(entries)
    BY <1>000, <1>K, <2>1
  <2> QED
    BY <1>00, <2>1, <2>2, ToldOutlasts
<1>1. CASE BatchBegins
  <2>1. /\ step' = "case" /\ case' = 1 /\ summary' = <<>> /\ entries' = <<>> /\ failures' = 0
        /\ batch' = batch + 1 /\ batch' \in 1..MaxBatches /\ 1 \in Cases /\ found' = NoReport
        /\ chosen' = <<1, "first">> /\ results' = results
    BY <1>0, <1>1, BatchPlaces DEF BatchBegins, BatchTypeOK, Cases
  <2>2. BatchTypeOK'
    BY <1>0, <2>1, BatchPlaces DEF BatchTypeOK, Cases
  <2>3. Accounts(entries', results', batch') /\ Accounts(summary', results', batch')
    BY <2>1 DEF Accounts
  <2> QED
    BY <2>1, <2>2, <2>3 DEF BatchInv, AtCase
<1>2. CASE TakeCase
  <2>1. /\ step = "case" /\ case \in Cases /\ <<case, "first">> \in Places /\ step' = "child"
        /\ results' = [results EXCEPT ![<<case, "first">>] = NoReport]
        /\ chosen' = <<case, "first">> /\ found' = NoReport
        /\ summary' = summary /\ case' = case /\ entries' = entries /\ failures' = failures /\ batch' = batch
    BY <1>2, BatchPlaces DEF TakeCase, Clear
  <2>2. BatchTypeOK'
    BY <1>0, <2>1 DEF BatchTypeOK
  <2>3. results'[chosen'] = NoReport
    BY <1>00, <2>1
  <2>4. Accounts(entries', results', batch')
    BY <2>1, <1>K
  <2> QED
    BY <1>0, <2>1, <2>2, <2>3, <2>4 DEF BatchInv, AtCase, Legible
<1>3. CASE RunCase
  <2>1. /\ step = "child" /\ chosen = <<case, "first">> /\ chosen \in Places /\ ~Legible(results[chosen])
        /\ failures < case /\ failures \in Nat
    BY <1>0, <1>000, <1>3, SMTT(40) DEF RunCase, AtCase, BatchTypeOK
  <2>2. PICK rep \in Left(failures < SchemaLimit) :
          /\ results' = [results EXCEPT ![chosen] = rep]
          /\ found' = IF Legible(rep) THEN rep ELSE NoReport
          /\ failures' = IF Counted(rep) THEN failures + 1 ELSE failures
          /\ step' = IF Retried(rep) THEN "retry" ELSE IF Legible(rep) THEN "listing" ELSE "synthesis"
    BY <1>3 DEF RunCase
  <2>3. summary' = summary /\ case' = case /\ entries' = entries /\ chosen' = chosen /\ batch' = batch
    BY <1>3 DEF RunCase
  <2>4. (failures < SchemaLimit) \in BOOLEAN
    BY <2>1, BatchAssumption
  <2>5. /\ rep \in Reports \cup {NoReport, Illegible}
        /\ Legible(rep) => rep \in Reports /\ rep.batch = batch
    BY <1>0, <1>000, <2>1, <2>2, <2>4, LeftIs
  <2>6. results'[chosen'] = rep /\ results' \in [Places -> Reports \cup {NoReport, Illegible}]
    BY <1>00, <2>1, <2>2, <2>3, <2>5
  <2>7. failures' \in Nat /\ failures' <= case /\ failures' <= CaseCount
    BY <1>000, <2>1, <2>2
  <2>8. BatchTypeOK'
    BY <1>0, <1>000, <2>1, <2>2, <2>3, <2>5, <2>6, <2>7 DEF BatchTypeOK
  <2>9. Accounts(entries', results', batch')
    BY <2>1, <2>2, <2>3, <1>K
  <2>10. Retried(rep) => Legible(rep) /\ rep.outcome # "passed"
    BY DEF Retried
  <2>11. ~Legible(NoReport)
    BY DEF Legible
  <2> HIDE DEF Retried, Counted, Legible
  <2> QED
    BY <1>0, <1>000, <2>1, <2>2, <2>3, <2>5, <2>6, <2>7, <2>8, <2>9, <2>10, <2>11 DEF BatchInv, AtCase
<1>4. CASE PrepareRetry
  <2>1. /\ step = "retry" /\ step' = "retry" /\ chosen' = <<case, "retry">> /\ chosen' \in Places
        /\ results' = [results EXCEPT ![<<case, "retry">>] = NoReport]
        /\ summary' = summary /\ case' = case /\ entries' = entries /\ failures' = failures /\ batch' = batch
        /\ found' = found
    BY <1>000, <1>4 DEF PrepareRetry, Clear
  <2>2. BatchTypeOK'
    BY <1>0, <2>1 DEF BatchTypeOK
  <2>3. results'[chosen'] = NoReport
    BY <1>00, <2>1
  <2>4. Accounts(entries', results', batch')
    BY <2>1, <1>K
  <2> QED
    BY <1>0, <2>1, <2>2, <2>3, <2>4 DEF BatchInv, AtCase, Legible
<1>5. CASE RetryCase
  <2>1. /\ step = "retry" /\ chosen = <<case, "retry">> /\ chosen \in Places /\ ~Legible(results[chosen])
        /\ Legible(found) /\ found.outcome # "passed" /\ step' = "listing"
    BY <1>0, <1>000, <1>5, BatchPlaces DEF RetryCase, AtCase
  <2>2. PICK rep \in Left(FALSE) :
          /\ results' = [results EXCEPT ![chosen] = rep]
          /\ found' = IF Legible(rep) THEN rep ELSE found
    BY <1>5 DEF RetryCase
  <2>3. /\ summary' = summary /\ case' = case /\ entries' = entries /\ chosen' = chosen /\ batch' = batch
        /\ failures' = failures
    BY <1>5 DEF RetryCase
  <2>5. /\ rep \in Reports \cup {NoReport, Illegible}
        /\ Legible(rep) => rep \in Reports /\ rep.batch = batch
    BY <1>0, <1>000, <2>1, <2>2, LeftIs
  <2>6. results'[chosen'] = rep /\ results' \in [Places -> Reports \cup {NoReport, Illegible}]
    BY <1>00, <2>1, <2>2, <2>3, <2>5
  <2>8. BatchTypeOK'
    BY <1>0, <1>000, <2>1, <2>2, <2>3, <2>5, <2>6 DEF BatchTypeOK
  <2>9. Accounts(entries', results', batch')
    BY <2>1, <2>2, <2>3, <1>K
  <2> HIDE DEF Legible
  <2> QED
    BY <1>0, <1>000, <2>1, <2>2, <2>3, <2>5, <2>6, <2>8, <2>9 DEF BatchInv, AtCase
<1>6. CASE Synthesize
  <2>1. /\ step = "synthesis" /\ chosen = <<case, "first">> /\ chosen \in Places /\ ~Legible(results[chosen])
        /\ step' = "listing"
    BY <1>0, <1>000, <1>6 DEF Synthesize, AtCase
  <2>2. PICK rep \in {results[chosen], [outcome |-> "failed", native |-> FALSE, batch |-> batch]} :
          /\ results' = [results EXCEPT ![chosen] = rep]
          /\ found' = IF Legible(rep) THEN rep ELSE NoReport
    BY <1>6 DEF Synthesize
  <2>3. /\ summary' = summary /\ case' = case /\ entries' = entries /\ chosen' = chosen /\ batch' = batch
        /\ failures' = failures
    BY <1>6 DEF Synthesize
  <2>4. [outcome |-> "failed", native |-> FALSE, batch |-> batch] \in Left(FALSE) /\ results[chosen] \in Left(FALSE)
    BY DEF Left, Outcomes
  <2>5. /\ rep \in Reports \cup {NoReport, Illegible}
        /\ Legible(rep) => rep \in Reports /\ rep.batch = batch
    BY <1>0, <1>000, <2>1, <2>2, <2>4, LeftIs
  <2>6. results'[chosen'] = rep /\ results' \in [Places -> Reports \cup {NoReport, Illegible}]
    BY <1>00, <2>1, <2>2, <2>3, <2>5
  <2>8. BatchTypeOK'
    BY <1>0, <1>000, <2>1, <2>2, <2>3, <2>5, <2>6 DEF BatchTypeOK
  <2>9. Accounts(entries', results', batch')
    BY <2>1, <2>2, <2>3, <1>K
  <2>10. ~Legible(NoReport)
    BY DEF Legible
  <2> HIDE DEF Legible
  <2> QED
    BY <1>0, <1>000, <2>1, <2>2, <2>3, <2>5, <2>6, <2>8, <2>9, <2>10 DEF BatchInv, AtCase
<1>7. CASE ListCase
  <2> DEFINE told == [case |-> case, place |-> chosen, success |-> Legible(found) /\ found.outcome = "passed"]
  <2>1. /\ step = "listing" /\ chosen \in {<<case, "first">>, <<case, "retry">>} /\ chosen \in Places
        /\ chosen[1] = case /\ Len(entries) = case - 1 /\ Accounts(entries, results, batch)
        /\ Legible(results[chosen]) => found = results[chosen] /\ found.batch = batch
        /\ ~Legible(results[chosen]) => ~Legible(found) \/ found.outcome # "passed"
    BY <1>0, <1>000, <1>7, BatchPlaces DEF ListCase, AtCase
  <2>2. entries' = Append(entries, told) /\ summary' = Append(entries, told)
    BY <1>7 DEF ListCase
  <2>3. /\ results' = results /\ failures' = failures /\ found' = found /\ chosen' = chosen /\ batch' = batch
        /\ \/ case < CaseCount /\ step' = "case" /\ case' = case + 1
           \/ step' = "off" /\ case' = case
    BY <1>7 DEF ListCase
  <2>4. told \in Entries
    BY <1>000, <2>1 DEF Entries
  <2>5. /\ told.case = case /\ told.place = chosen
        /\ told.success <=> Legible(results[chosen]) /\ results[chosen].outcome = "passed"
    BY <2>1
  <2> HIDE DEF told
  <2>6. entries' \in Seq(Entries) /\ Len(entries') = case /\ entries'[case] = told
        /\ \A j \in 1 .. case - 1 : entries'[j] = entries[j]
    BY <1>00, <1>000, <2>1, <2>2, <2>4
  <2>7. Accounts(entries', results', batch')
    <3> SUFFICES ASSUME NEW j \in 1..case
                 PROVE  LET there == results[entries'[j].place] IN
                        /\ entries'[j].case = j /\ entries'[j].place[1] = j
                        /\ Legible(there) => there.batch = batch
                        /\ entries'[j].success <=> Legible(there) /\ there.outcome = "passed"
      BY <2>3, <2>6 DEF Accounts
    <3>1. CASE j = case
      BY <2>1, <2>5, <2>6, <3>1
    <3>2. CASE j # case
      <4>1. j \in 1 .. case - 1 /\ j \in DOMAIN entries
        BY <1>00, <1>000, <2>1, <3>2
      <4> QED
        BY <2>1, <2>6, <4>1 DEF Accounts
    <3> QED
      BY <3>1, <3>2
  <2>8. BatchTypeOK'
    BY <1>0, <1>000, <2>1, <2>2, <2>3, <2>6 DEF BatchTypeOK
  <2>9. failures <= case /\ failures \in Nat
    BY <1>0, <2>1 DEF AtCase, BatchTypeOK
  <2>10. case' \in Nat /\ (step' # "off" => case' \in Cases /\ Len(entries') = case' - 1 /\ failures' < case')
    BY <1>000, <2>1, <2>3, <2>6, <2>9 DEF Cases
  <2>11. step' \in {"case", "off"} /\ summary' = entries' /\ batch' \in 1..MaxBatches /\ failures' \in Nat
    BY <1>000, <2>1, <2>2, <2>3, <2>9
  <2>12. step' # "off" => failures' <= case'
    BY <2>10, <2>11
  <2> HIDE DEF Legible
  <2> QED
    BY <2>7, <2>8, <2>10, <2>11, <2>12 DEF BatchInv, AtCase
<1>8. CASE BatchEnds
  <2>1. /\ step' = "off" /\ results' = results /\ case' = case /\ entries' = entries /\ failures' = failures
        /\ found' = found /\ chosen' = chosen /\ batch' = batch /\ summary' \in {summary, Illegible}
    BY <1>8 DEF BatchEnds
  <2>2. BatchTypeOK'
    BY <1>0, <2>1 DEF BatchTypeOK
  <2>3. Legible(summary') => Accounts(summary', results', batch')
    BY <1>0, <2>1 DEF Legible
  <2> QED
    BY <2>1, <2>2, <2>3 DEF BatchInv, AtCase
<1>9. CASE UNCHANGED batchVars
  BY <1>9 DEF batchVars, BatchInv, BatchTypeOK, AtCase
<1> QED
  BY <1>1, <1>2, <1>3, <1>4, <1>5, <1>6, <1>7, <1>8, <1>9 DEF BatchNext

\* The summary of a batch tells of each case it lists what the report in its directory tells.
THEOREM SummaryHolds == BatchSpec => [](BatchTypeOK /\ SummaryIsTruthful)
<1>1. BatchInv => BatchTypeOK /\ SummaryIsTruthful
  BY DEF BatchInv, Accounts, SummaryIsTruthful
<1> QED
  BY <1>1, BatchInitInv, BatchStep, PTL DEF BatchSpec

-----------------------------------------------------------------------------
(* LogFile *)

(* What fits into the log, and a line. *)
Full == MaxLog + LineParts

(* How much each process may still append. *)
Allowances == [LogProcesses -> 0..Full]

(* The pieces that processes may still append, each its own first ones. *)
Room(allowed) == {pc2 \in LogProcesses \X (1..Full) : pc2[2] <= allowed[pc2[1]]}

\* What the assumption on the bounds gives.
LEMMA LogSorts ==
    /\ MaxLog \in Nat \ {0} /\ LineParts \in Nat \ {0} /\ Full \in Nat \ {0}
    /\ MaxSubmitted \in Nat /\ MaxOutages \in Nat /\ MaxExits \in Nat
    /\ IsFiniteSet(LogProcesses) /\ AtEnd \notin Nat
    /\ Cardinality(LogProcesses) \in Nat
  BY LogAssumption, FS_CardinalityType DEF Full

\* One process less and its share.
LEMMA OneMore == \A n, b \in Nat : n >= 1 => (n - 1) * b + b = n * b
  OBVIOUS

\* The room is finite.
LEMMA RoomFinite == \A allowed : IsFiniteSet(Room(allowed)) /\ Cardinality(Room(allowed)) \in Nat
<1> SUFFICES ASSUME NEW allowed PROVE IsFiniteSet(Room(allowed)) /\ Cardinality(Room(allowed)) \in Nat
  OBVIOUS
<1>0. IsFiniteSet(1..Full)
  BY LogSorts, FS_Interval
<1>1. IsFiniteSet(LogProcesses \X (1..Full))
  BY <1>0, LogSorts, FS_Product
<1>2. Room(allowed) \in SUBSET (LogProcesses \X (1..Full))
  BY DEF Room
<1> QED
  BY <1>1, <1>2, FS_Subset, FS_CardinalityType

\* Who may append less leaves less room.
LEMMA RoomShrinks ==
    ASSUME NEW f \in Allowances, NEW g \in Allowances, \A w \in LogProcesses : g[w] <= f[w]
    PROVE  Cardinality(Room(g)) <= Cardinality(Room(f))
<1>1. Room(g) \in SUBSET Room(f)
  <2> SUFFICES ASSUME NEW e \in Room(g) PROVE e \in Room(f)
    OBVIOUS
  <2>1. e \in LogProcesses \X (1..Full) /\ e[2] <= g[e[1]] /\ e[1] \in LogProcesses /\ e[2] \in Nat
    BY LogSorts DEF Room
  <2>2. e[2] <= f[e[1]]
    BY <2>1, LogSorts DEF Allowances
  <2> QED
    BY <2>1, <2>2 DEF Room
<1> QED
  BY <1>1, RoomFinite, FS_Subset

\* Who appends a piece has one less to append.
LEMMA RoomTaken ==
    ASSUME NEW f \in Allowances, NEW g \in Allowances, NEW w \in LogProcesses,
           \A v \in LogProcesses \ {w} : g[v] = f[v], g[w] < f[w]
    PROVE  Cardinality(Room(g)) + 1 <= Cardinality(Room(f))
<1>1. f[w] \in 1..Full /\ g[w] \in 0..Full
  BY LogSorts DEF Allowances
<1>2. <<w, f[w]>> \in Room(f)
  BY <1>1 DEF Room
<1>3. Room(g) \in SUBSET (Room(f) \ {<<w, f[w]>>})
  <2> SUFFICES ASSUME NEW e \in Room(g) PROVE e \in Room(f) \ {<<w, f[w]>>}
    OBVIOUS
  <2>1. e \in LogProcesses \X (1..Full) /\ e[2] <= g[e[1]] /\ e[1] \in LogProcesses /\ e[2] \in Nat
        /\ e = <<e[1], e[2]>>
    BY LogSorts DEF Room
  <2>2. e[2] <= f[e[1]]
    BY <1>1, <2>1, LogSorts DEF Allowances
  <2>3. e # <<w, f[w]>>
    BY <1>1, <2>1
  <2> QED
    BY <2>1, <2>2, <2>3 DEF Room
<1>4. IsFiniteSet(Room(f) \ {<<w, f[w]>>}) /\ Cardinality(Room(f) \ {<<w, f[w]>>}) = Cardinality(Room(f)) - 1
  BY <1>2, RoomFinite, FS_RemoveElement
<1>5. Cardinality(Room(g)) <= Cardinality(Room(f) \ {<<w, f[w]>>})
  BY <1>3, <1>4, FS_Subset
<1> QED
  BY <1>4, <1>5, RoomFinite

\* The others have at most as much as fits each.
LEMMA RoomOfRest ==
    ASSUME NEW f \in Allowances, NEW w \in LogProcesses
    PROVE  Cardinality(Room(f)) + Full <= Cardinality(LogProcesses) * Full + f[w]
<1> DEFINE rest == (LogProcesses \ {w}) \X (1..Full)
           mine == {w} \X (1..f[w])
           many == Cardinality(LogProcesses)
<1>1. f[w] \in 0..Full /\ f[w] \in Int /\ Full \in Nat /\ 1 \in Int
  BY LogSorts DEF Allowances
<1>2. IsFiniteSet(LogProcesses \ {w}) /\ Cardinality(LogProcesses \ {w}) = many - 1 /\ many \in Nat
      /\ many - 1 \in Nat
  <2>1. IsFiniteSet(LogProcesses \ {w}) /\ Cardinality(LogProcesses \ {w}) = many - 1
    BY LogSorts, FS_RemoveElement
  <2>2. Cardinality(LogProcesses \ {w}) \in Nat
    BY <2>1, FS_CardinalityType
  <2> QED
    BY <2>1, <2>2, LogSorts
<1>3. IsFiniteSet(1..Full) /\ Cardinality(1..Full) = Full
  BY LogSorts, FS_Interval
<1>4. IsFiniteSet(1..f[w]) /\ Cardinality(1..f[w]) = f[w]
  <2>1. \A n \in Int : IsFiniteSet(1..n) /\ Cardinality(1..n) = IF 1 > n THEN 0 ELSE n - 1 + 1
    BY <1>1, FS_Interval
  <2> QED
    BY <1>1, <2>1
<1>5. IsFiniteSet(rest) /\ Cardinality(rest) = (many - 1) * Full
  <2>1. IsFiniteSet(rest) /\ Cardinality(rest) = Cardinality(LogProcesses \ {w}) * Cardinality(1..Full)
    BY <1>2, <1>3, FS_Product
  <2> QED
    BY <1>2, <1>3, <2>1
<1>6. IsFiniteSet(mine) /\ Cardinality(mine) = f[w]
  <2>1. IsFiniteSet({w}) /\ Cardinality({w}) = 1
    BY FS_Singleton
  <2>2. IsFiniteSet(mine) /\ Cardinality(mine) = Cardinality({w}) * Cardinality(1..f[w])
    BY <1>4, <2>1, FS_Product
  <2> QED
    BY <1>1, <1>4, <2>1, <2>2
<1>7. Room(f) \in SUBSET (rest \cup mine)
  <2> SUFFICES ASSUME NEW e \in Room(f) PROVE e \in rest \cup mine
    OBVIOUS
  <2>1. e \in LogProcesses \X (1..Full) /\ e[2] <= f[e[1]] /\ e[1] \in LogProcesses /\ e[2] \in 1..Full
        /\ e = <<e[1], e[2]>>
    BY DEF Room
  <2>2. CASE e[1] = w
    <3>1. e[2] \in 1..f[w]
      BY <1>1, <2>1, <2>2
    <3> QED
      BY <2>1, <2>2, <3>1
  <2>3. CASE e[1] # w
    BY <2>1, <2>3
  <2> QED
    BY <2>2, <2>3
<1> HIDE DEF rest, mine
<1>8. IsFiniteSet(rest \cup mine) /\ Cardinality(rest \cup mine) <= Cardinality(rest) + Cardinality(mine)
  <2>1. rest \cap mine \in SUBSET rest
    OBVIOUS
  <2>2. IsFiniteSet(rest \cap mine)
    BY <1>5, <2>1, FS_Subset
  <2>3. Cardinality(rest \cap mine) \in Nat /\ Cardinality(rest) \in Nat /\ Cardinality(mine) \in Nat
    BY <1>5, <1>6, <2>2, FS_CardinalityType
  <2>4. /\ IsFiniteSet(rest \cup mine)
        /\ Cardinality(rest \cup mine) = Cardinality(rest) + Cardinality(mine) - Cardinality(rest \cap mine)
    BY <1>5, <1>6, FS_Union
  <2> QED
    BY <2>3, <2>4
<1>9. Cardinality(Room(f)) <= Cardinality(rest \cup mine)
  BY <1>7, <1>8, FS_Subset
<1>10. (many - 1) * Full + Full = many * Full /\ (many - 1) * Full \in Nat /\ many * Full \in Nat
  BY <1>1, <1>2, OneMore
<1>11. Cardinality(rest \cup mine) \in Nat /\ Cardinality(Room(f)) \in Nat
  BY <1>8, RoomFinite, FS_CardinalityType
<1>12. PICK part1 \in Nat, all1 \in Nat : part1 = (many - 1) * Full /\ all1 = many * Full /\ part1 + Full = all1
  BY <1>10
<1>13. Cardinality(rest) = part1 /\ Cardinality(LogProcesses) * Full = all1
  BY <1>5, <1>12
<1> HIDE DEF many
<1> QED
  BY <1>1, <1>6, <1>8, <1>9, <1>11, <1>12, <1>13

(* What a process may still append to the log: to the end of the line that fills it. *)
MayAppend(w) ==
    IF sink[w] = "starting" THEN LineParts
    ELSE IF sink[w] = "open" /\ position[w] = AtEnd
         THEN (IF counted[w] > MaxLog THEN LineParts ELSE Full - counted[w]) - pieces[w]
         ELSE 0

(* What each process may append now. *)
Allowed == [w \in LogProcesses |-> MayAppend(w)]

(* The types, offsets and buffers of the processes among them. *)
LogTypes ==
    /\ LogTypeOK /\ submitted \in Seq(LogPieces) /\ outages \in Nat
    /\ \A w \in LogProcesses : /\ sink[w] # "open" => pieces[w] = 0
                               /\ position[w] # AtEnd => position[w] <= spent

(* Who writes at an offset has filled the log no further than it has counted. *)
Offsets ==
    \A w \in LogProcesses :
        sink[w] = "open" /\ position[w] # AtEnd =>
            position[w] = counted[w] + pieces[w] /\ counted[w] <= MaxLog

(* The log with all that may be appended to it fits. *)
RoomLeft == Len(logFile) + Cardinality(Room(Allowed)) <= Cardinality(LogProcesses) * Full

(* A process that has the log alone knows how long it is. *)
Alone ==
    ~crowded =>
        /\ \A v, w \in LogProcesses : sink[v] # "off" /\ sink[w] # "off" => v = w
        /\ Len(logFile) <= Full
        /\ \A w \in LogProcesses :
              /\ sink[w] = "starting" => Len(logFile) < MaxLog
              /\ sink[w] = "open" => /\ counted[w] <= MaxLog /\ Len(logFile) = counted[w] + pieces[w]
                                     /\ position[w] \in {AtEnd, Len(logFile)}

(* The last elements of a sequence. *)
IsTail(last, all) ==
    Len(last) <= Len(all) /\ \A i \in 1..Len(last) : last[i] = all[Len(all) - Len(last) + i]

(* The end of what was submitted, all of it or as much as a log holds. *)
Keeps(kept) == IsTail(kept, submitted) /\ Len(kept) >= IF spent < MaxLog THEN spent ELSE MaxLog

(* What is written last is kept; a log that is full is itself enough of it. *)
RecentKept ==
    ~crowded /\ outages = 0 =>
        /\ Len(submitted) = spent
        /\ IsTail(logFile, submitted)
        /\ \A w \in LogProcesses :
              /\ sink[w] \in {"full", "copying", "copied"} => MaxLog <= Len(logFile)
              /\ sink[w] = "copied" /\ rotates => oldLog = logFile
        /\ rotates => Keeps(oldLog \o logFile) \/ Keeps(logFile)

(* The invariant. *)
LogInv == LogTypes /\ Offsets /\ RoomLeft /\ Alone /\ RecentKept

(* The allowances are numbers that fit. *)
AllowedFits ==
    /\ Allowed \in Allowances
    /\ \A w \in LogProcesses : Allowed[w] = MayAppend(w) /\ MayAppend(w) \in 0..Full

\* They are, wherever the types hold.
LEMMA AllowedIs == LogTypes => AllowedFits
<1> SUFFICES ASSUME LogTypes PROVE AllowedFits
  OBVIOUS
<1>1. ASSUME NEW w \in LogProcesses PROVE MayAppend(w) \in 0..Full
  <2>1. pieces[w] \in 0 .. LineParts - 1 /\ counted[w] \in Nat
    BY DEF LogTypes, LogTypeOK
  <2> QED
    BY <2>1, LogSorts DEF MayAppend, Full
<1> QED
  BY <1>1 DEF Allowed, Allowances, AllowedFits

(* A step of one process. *)
OnlyOf(w) ==
    \A v \in LogProcesses \ {w} :
        sink'[v] = sink[v] /\ position'[v] = position[v] /\ pieces'[v] = pieces[v] /\ counted'[v] = counted[v]

\* What a step of a process may do to the log, by what it may still append.
LEMMA RoomStep ==
    ASSUME LogTypes, LogTypes', RoomLeft, NEW w \in LogProcesses, OnlyOf(w),
           \/ Len(logFile') <= Len(logFile) /\ MayAppend(w)' <= MayAppend(w)
           \/ Len(logFile') = Len(logFile) + 1 /\ MayAppend(w)' < MayAppend(w)
           \/ Len(logFile') + MayAppend(w)' <= Full
    PROVE  RoomLeft'
<1> DEFINE f == Allowed  g == Allowed'
<1>0. AllowedFits /\ AllowedFits'
  BY AllowedIs, PTL
<1>1. f \in Allowances /\ g \in Allowances
  BY <1>0 DEF AllowedFits
<1>2. /\ f[w] = MayAppend(w) /\ g[w] = MayAppend(w)' /\ f[w] \in 0..Full /\ g[w] \in 0..Full
      /\ \A v \in LogProcesses \ {w} : g[v] = f[v]
  <2>1. f[w] = MayAppend(w) /\ MayAppend(w) \in 0..Full
    BY <1>0 DEF AllowedFits
  <2>2. g[w] = MayAppend(w)' /\ MayAppend(w)' \in 0..Full
    BY <1>0 DEF AllowedFits
  <2>3. ASSUME NEW v \in LogProcesses \ {w} PROVE g[v] = f[v]
    BY <2>3 DEF OnlyOf, Allowed, MayAppend
  <2> QED
    BY <2>1, <2>2, <2>3
<1>3. Cardinality(Room(f)) \in Nat /\ Cardinality(Room(g)) \in Nat
  BY RoomFinite
<1>4. logFile \in Seq(LogPieces \cup {Hole}) /\ logFile' \in Seq(LogPieces \cup {Hole})
  BY DEF LogTypes, LogTypeOK
<1>5. Len(logFile) \in Nat /\ Len(logFile') \in Nat
  BY <1>4
<1>6. PICK all1 \in Nat : Cardinality(LogProcesses) * Full = all1
  BY LogSorts
<1>7. Len(logFile) + Cardinality(Room(f)) <= all1
  BY <1>6 DEF RoomLeft
<1> SUFFICES Len(logFile') + Cardinality(Room(g)) <= all1
  BY <1>6 DEF RoomLeft, Room
<1> HIDE DEF f, g
<1>8. CASE Len(logFile') <= Len(logFile) /\ MayAppend(w)' <= MayAppend(w)
  <2>1. \A v \in LogProcesses : g[v] <= f[v]
    <3> SUFFICES ASSUME NEW v \in LogProcesses PROVE g[v] <= f[v]
      OBVIOUS
    <3>1. f[v] \in 0..Full
      BY <1>1 DEF Allowances
    <3> QED
      BY <1>2, <1>8, <3>1, LogSorts
  <2>2. Cardinality(Room(g)) <= Cardinality(Room(f))
    BY <1>1, <2>1, RoomShrinks
  <2> QED
    BY <1>3, <1>5, <1>7, <1>8, <2>2
<1>9. CASE Len(logFile') = Len(logFile) + 1 /\ MayAppend(w)' < MayAppend(w)
  <2>1. Cardinality(Room(g)) + 1 <= Cardinality(Room(f))
    BY <1>1, <1>2, <1>9, RoomTaken
  <2> QED
    BY <1>3, <1>5, <1>7, <1>9, <2>1
<1>10. CASE Len(logFile') + MayAppend(w)' <= Full
  <2>1. Cardinality(Room(g)) + Full <= Cardinality(LogProcesses) * Full + g[w]
    BY <1>1, RoomOfRest
  <2>2. Cardinality(Room(g)) + Full <= all1 + g[w]
    BY <1>6, <2>1
  <2> QED
    BY <1>2, <1>3, <1>5, <1>10, <2>2, LogSorts
<1> QED
  BY <1>8, <1>9, <1>10

\* The invariant holds of an empty log.
LEMMA LogInitInv == LogInit => LogInv
<1> SUFFICES ASSUME LogInit PROVE LogInv
  OBVIOUS
<1>1. /\ logFile = <<>> /\ oldLog = <<>> /\ spent = 0 /\ submitted = <<>> /\ outages = 0 /\ crowded = FALSE
      /\ \A w \in LogProcesses : sink[w] = "off" /\ position[w] = 0 /\ pieces[w] = 0 /\ counted[w] = 0
      /\ Len(logFile) = 0 /\ Len(submitted) = 0 /\ logFile \in Seq(LogPieces \cup {Hole})
      /\ submitted \in Seq(LogPieces) /\ Len(oldLog \o logFile) = 0 /\ 0 # AtEnd
  BY LogSorts DEF LogInit
<1>2. LogTypes
  <2>1. /\ sink \in [LogProcesses -> {"off", "starting", "open", "full", "copying", "copied", "mute"}]
        /\ position \in [LogProcesses -> 0..MaxSubmitted \cup {AtEnd}]
        /\ pieces \in [LogProcesses -> 0..LineParts - 1] /\ counted \in [LogProcesses -> Nat]
    BY <1>1, LogSorts DEF LogInit
  <2>2. rotates \in BOOLEAN /\ oldLog \in Seq(LogPieces \cup {Hole})
    BY DEF LogInit
  <2>3. spent \in 0..MaxSubmitted /\ crowded \in BOOLEAN /\ outages \in Nat
    <3>1. crowded \in BOOLEAN
      BY DEF LogInit
    <3>2. spent \in 0..MaxSubmitted /\ outages \in Nat
      BY LogSorts DEF LogInit
    <3> QED
      BY <3>1, <3>2
  <2>4. LogTypeOK
    BY <1>1, <2>1, <2>2, <2>3 DEF LogTypeOK
  <2> QED
    BY <1>1, <2>3, <2>4 DEF LogTypes
<1>3. Offsets /\ Alone
  BY <1>1, LogSorts DEF Offsets, Alone
<1>4. RecentKept
  BY <1>1, LogSorts DEF RecentKept, IsTail, Keeps
<1>5. RoomLeft
  <2>1. Room(Allowed) = {}
    BY <1>1, LogSorts DEF Room, Allowed, MayAppend
  <2>2. Cardinality(Room(Allowed)) = 0
    BY <2>1, FS_EmptySet
  <2>3. Cardinality(LogProcesses) * Full >= 0
    BY LogSorts
  <2> QED
    BY <1>1, <2>2, <2>3 DEF RoomLeft
<1> QED
  BY <1>2, <1>3, <1>4, <1>5 DEF LogInv

\* What the invariant says of the sequences.
LEMMA LogInvTypes ==
    ASSUME LogInv
    PROVE  /\ logFile \in Seq(LogPieces \cup {Hole}) /\ oldLog \in Seq(LogPieces \cup {Hole})
           /\ submitted \in Seq(LogPieces) /\ Len(logFile) \in Nat /\ Len(oldLog) \in Nat /\ Len(submitted) \in Nat
           /\ sink \in [LogProcesses -> {"off", "starting", "open", "full", "copying", "copied", "mute"}]
           /\ position \in [LogProcesses -> 0..MaxSubmitted \cup {AtEnd}]
           /\ pieces \in [LogProcesses -> 0 .. LineParts - 1] /\ counted \in [LogProcesses -> Nat]
           /\ rotates \in BOOLEAN /\ crowded \in BOOLEAN
           /\ spent \in 0..MaxSubmitted /\ spent \in Nat /\ outages \in Nat
           /\ \A w \in LogProcesses : /\ sink[w] # "open" => pieces[w] = 0
                                      /\ position[w] # AtEnd => position[w] <= spent
           /\ LogTypes /\ Offsets /\ RoomLeft /\ Alone /\ RecentKept
  BY LogSorts DEF LogInv, LogTypes, LogTypeOK

\* The types after a step, from those of the variables it changes.
LEMMA LogTypesAgain ==
    ASSUME logFile' \in Seq(LogPieces \cup {Hole}), oldLog' \in Seq(LogPieces \cup {Hole}), submitted' \in Seq(LogPieces),
           sink' \in [LogProcesses -> {"off", "starting", "open", "full", "copying", "copied", "mute"}],
           position' \in [LogProcesses -> 0..MaxSubmitted \cup {AtEnd}],
           pieces' \in [LogProcesses -> 0 .. LineParts - 1], counted' \in [LogProcesses -> Nat],
           rotates' \in BOOLEAN, crowded' \in BOOLEAN, spent' \in 0..MaxSubmitted, outages' \in Nat,
           \A w \in LogProcesses : /\ sink'[w] # "open" => pieces'[w] = 0
                                   /\ position'[w] # AtEnd => position'[w] <= spent'
    PROVE  LogTypes'
  BY DEF LogTypes, LogTypeOK

\* A process that neither writes nor is about to changes nothing of what may be written.
LEMMA NotWriting ==
    ASSUME LogInv, LogTypes', NEW w \in LogProcesses, OnlyOf(w), sink[w] # "off",
           NEW to \in {"off", "full", "copying", "copied", "mute"}, sink' = [sink EXCEPT ![w] = to],
           logFile' = logFile, crowded' = crowded, spent' = spent
    PROVE  Offsets' /\ RoomLeft' /\ Alone'
<1>0. LogTypes /\ Offsets /\ RoomLeft /\ Alone /\ AllowedFits /\ sink'[w] = to /\ Len(logFile) \in Nat
  BY LogInvTypes, AllowedIs
<1>1. \A v \in LogProcesses : v # w => sink'[v] = sink[v] /\ position'[v] = position[v]
                                      /\ pieces'[v] = pieces[v] /\ counted'[v] = counted[v]
  BY DEF OnlyOf
<1>2. Offsets'
  BY <1>0, <1>1 DEF Offsets
<1>3. MayAppend(w)' = 0 /\ MayAppend(w) \in 0..Full
  BY <1>0 DEF MayAppend, AllowedFits
<1>4. RoomLeft'
  BY <1>0, <1>3, RoomStep, LogSorts
<1>5. Alone'
  <2> SUFFICES ASSUME ~crowded
               PROVE  /\ \A u, v \in LogProcesses : sink'[v] # "off" /\ sink'[u] # "off" => v = u
                      /\ Len(logFile) <= Full
                      /\ \A v \in LogProcesses :
                            /\ sink'[v] = "starting" => Len(logFile) < MaxLog
                            /\ sink'[v] = "open" => /\ counted'[v] <= MaxLog /\ Len(logFile) = counted'[v] + pieces'[v]
                                                    /\ position'[v] \in {AtEnd, Len(logFile)}
    BY DEF Alone
  <2>1. \A v \in LogProcesses : sink'[v] # "off" => v = w
    BY <1>0, <1>1 DEF Alone
  <2> QED
    BY <1>0, <2>1 DEF Alone
<1> QED
  BY <1>2, <1>4, <1>5

\* A process that opens the log first.
LEMMA StartLogInv == ASSUME LogInv, NEW w \in LogProcesses, StartLog(w) PROVE LogInv'
<1>0. /\ sink[w] = "off" /\ position' = position /\ pieces' = pieces /\ counted' = counted
      /\ logFile' = logFile /\ oldLog' = oldLog /\ rotates' = rotates /\ spent' = spent /\ outages' = outages
      /\ submitted' = IF crowded' THEN <<>> ELSE submitted
      /\ crowded' = (crowded \/ \E v \in LogProcesses \ {w} : sink[v] # "off")
  BY DEF StartLog
<1> DEFINE to == IF Len(logFile) >= MaxLog THEN "full" ELSE "starting"
<1>1. sink' = [sink EXCEPT ![w] = to]
  BY DEF StartLog
<1>2. sink'[w] = to /\ \A v \in LogProcesses : v # w => sink'[v] = sink[v]
  BY <1>1, LogInvTypes
<1>3. OnlyOf(w)
  BY <1>0, <1>2 DEF OnlyOf
<1>4. LogTypes'
  <2>1. submitted' \in Seq(LogPieces)
    BY <1>0, LogInvTypes
  <2>2. sink' \in [LogProcesses -> {"off", "starting", "open", "full", "copying", "copied", "mute"}]
    BY <1>1, LogInvTypes
  <2>3. crowded' \in BOOLEAN
    BY <1>0
  <2>4. \A v \in LogProcesses : /\ sink'[v] # "open" => pieces[v] = 0
                                /\ position[v] # AtEnd => position[v] <= spent
    BY <1>0, <1>2, LogInvTypes
  <2> HIDE DEF to
  <2> QED
    BY <1>0, <2>1, <2>2, <2>3, <2>4, LogInvTypes, LogTypesAgain
<1>5. Offsets'
  BY <1>0, <1>2, LogInvTypes DEF Offsets
<1>6. MayAppend(w) = 0 /\ (to = "full" => MayAppend(w)' = 0) /\ (to = "starting" => MayAppend(w)' = LineParts)
  BY <1>0, <1>2 DEF MayAppend
<1>7. RoomLeft'
  <2>1. CASE Len(logFile) >= MaxLog
    BY <1>0, <1>3, <1>4, <1>6, <2>1, LogInvTypes, RoomStep
  <2>2. CASE ~(Len(logFile) >= MaxLog)
    <3>1. Len(logFile') + MayAppend(w)' <= Full
      BY <1>0, <1>6, <2>2, LogInvTypes, LogSorts DEF Full
    <3> QED
      BY <1>3, <1>4, <3>1, LogInvTypes, RoomStep
  <2> QED
    BY <2>1, <2>2
<1>8. Alone'
  <2> SUFFICES ASSUME ~crowded'
               PROVE  /\ \A u, v \in LogProcesses : sink'[v] # "off" /\ sink'[u] # "off" => v = u
                      /\ Len(logFile) <= Full
                      /\ \A v \in LogProcesses :
                            /\ sink'[v] = "starting" => Len(logFile) < MaxLog
                            /\ sink'[v] = "open" => /\ counted'[v] <= MaxLog /\ Len(logFile) = counted'[v] + pieces'[v]
                                                    /\ position'[v] \in {AtEnd, Len(logFile)}
    BY <1>0 DEF Alone
  <2>1. \A v \in LogProcesses : sink'[v] # "off" => v = w
    BY <1>0, <1>2
  <2>2. ~crowded /\ Len(logFile) <= Full
    BY <1>0, LogInvTypes DEF Alone
  <2>3. sink'[w] = "starting" => Len(logFile) < MaxLog
    BY <1>2, LogInvTypes, LogSorts
  <2>4. sink'[w] # "open"
    BY <1>2
  <2> QED
    BY <2>1, <2>2, <2>3, <2>4
<1>9. RecentKept'
  <2> SUFFICES ASSUME ~crowded', outages' = 0
               PROVE  /\ Len(submitted') = spent'
                      /\ IsTail(logFile', submitted')
                      /\ \A v \in LogProcesses :
                            /\ sink'[v] \in {"full", "copying", "copied"} => MaxLog <= Len(logFile')
                            /\ sink'[v] = "copied" /\ rotates' => oldLog' = logFile'
                      /\ rotates' => Keeps(oldLog \o logFile)' \/ Keeps(logFile)'
    BY DEF RecentKept
  <2>1. ~crowded /\ outages = 0 /\ submitted' = submitted /\ \A v \in LogProcesses : sink'[v] # "off" => v = w
    BY <1>0, <1>2
  <2>2. sink'[w] # "copied" /\ (sink'[w] \in {"full", "copying", "copied"} => MaxLog <= Len(logFile))
    BY <1>2, LogInvTypes, LogSorts
  <2> QED
    BY <1>0, <2>1, <2>2, LogInvTypes DEF RecentKept, Keeps
<1> QED
  BY <1>4, <1>5, <1>7, <1>8, <1>9 DEF LogInv

\* A process that opens it to append.
LEMMA OpenAppendInv == ASSUME LogInv, NEW w \in LogProcesses, OpenAppend(w) PROVE LogInv'
<1>0. /\ sink[w] = "starting" /\ pieces' = pieces
      /\ logFile' = logFile /\ oldLog' = oldLog /\ rotates' = rotates /\ spent' = spent /\ outages' = outages
      /\ submitted' = submitted /\ crowded' = crowded
      /\ sink' = [sink EXCEPT ![w] = "open"] /\ position' = [position EXCEPT ![w] = AtEnd]
      /\ counted' = [counted EXCEPT ![w] = Len(logFile)]
  BY DEF OpenAppend, FirstCount
<1>2. /\ sink'[w] = "open" /\ position'[w] = AtEnd /\ counted'[w] = Len(logFile) /\ pieces'[w] = 0
      /\ \A v \in LogProcesses : v # w => sink'[v] = sink[v] /\ position'[v] = position[v] /\ counted'[v] = counted[v]
  BY <1>0, LogInvTypes
<1>3. OnlyOf(w)
  BY <1>0, <1>2 DEF OnlyOf
<1>4. LogTypes'
  <2>1. position' \in [LogProcesses -> 0..MaxSubmitted \cup {AtEnd}] /\ counted' \in [LogProcesses -> Nat]
    BY <1>0, LogInvTypes
  <2>2. sink' \in [LogProcesses -> {"off", "starting", "open", "full", "copying", "copied", "mute"}]
    BY <1>0, LogInvTypes
  <2>4. \A v \in LogProcesses : /\ sink'[v] # "open" => pieces[v] = 0
                                /\ position'[v] # AtEnd => position'[v] <= spent
    BY <1>0, <1>2, LogInvTypes
  <2> QED
    BY <1>0, <2>1, <2>2, <2>4, LogInvTypes, LogTypesAgain
<1>5. Offsets'
  BY <1>0, <1>2, LogInvTypes DEF Offsets
<1>6. /\ MayAppend(w) = LineParts
      /\ MayAppend(w)' = IF Len(logFile) > MaxLog THEN LineParts ELSE Full - Len(logFile)
  BY <1>0, <1>2, LogInvTypes, LogSorts DEF MayAppend
<1>7. RoomLeft'
  <2>1. CASE Len(logFile) > MaxLog
    BY <1>0, <1>3, <1>4, <1>6, <2>1, LogInvTypes, LogSorts, RoomStep
  <2>2. CASE ~(Len(logFile) > MaxLog)
    <3>1. Len(logFile') + MayAppend(w)' <= Full
      BY <1>0, <1>6, <2>2, LogInvTypes, LogSorts DEF Full
    <3> QED
      BY <1>3, <1>4, <3>1, LogInvTypes, RoomStep
  <2> QED
    BY <2>1, <2>2
<1>8. Alone'
  <2> SUFFICES ASSUME ~crowded
               PROVE  /\ \A u, v \in LogProcesses : sink'[v] # "off" /\ sink'[u] # "off" => v = u
                      /\ Len(logFile) <= Full
                      /\ \A v \in LogProcesses :
                            /\ sink'[v] = "starting" => Len(logFile) < MaxLog
                            /\ sink'[v] = "open" => /\ counted'[v] <= MaxLog /\ Len(logFile) = counted'[v] + pieces'[v]
                                                    /\ position'[v] \in {AtEnd, Len(logFile)}
    BY <1>0 DEF Alone
  <2>1. \A v \in LogProcesses : sink'[v] # "off" => v = w
    BY <1>0, <1>2, LogInvTypes DEF Alone
  <2>2. Len(logFile) <= Full /\ Len(logFile) < MaxLog /\ Len(logFile) = Len(logFile) + 0
    BY <1>0, LogInvTypes DEF Alone
  <2>3. counted'[w] <= MaxLog /\ Len(logFile) = counted'[w] + pieces'[w] /\ position'[w] = AtEnd
    BY <1>2, <2>2, LogInvTypes, LogSorts
  <2> QED
    BY <1>2, <2>1, <2>2, <2>3
<1>9. RecentKept'
  <2> SUFFICES ASSUME ~crowded', outages' = 0
               PROVE  /\ Len(submitted') = spent'
                      /\ IsTail(logFile', submitted')
                      /\ \A v \in LogProcesses :
                            /\ sink'[v] \in {"full", "copying", "copied"} => MaxLog <= Len(logFile')
                            /\ sink'[v] = "copied" /\ rotates' => oldLog' = logFile'
                      /\ rotates' => Keeps(oldLog \o logFile)' \/ Keeps(logFile)'
    BY DEF RecentKept
  <2> QED
    BY <1>0, <1>2, LogInvTypes DEF RecentKept, Keeps
<1> QED
  BY <1>4, <1>5, <1>7, <1>8, <1>9 DEF LogInv

\* A write that fails.
LEMMA WriteFailsInv == ASSUME LogInv, NEW w \in LogProcesses, WriteFails(w) PROVE LogInv'
<1> DEFINE total1 == counted[w] + pieces[w]
<1>0. /\ sink[w] = "open" /\ outages' = outages + 1 /\ submitted' = <<>> /\ position' = position
      /\ logFile' = logFile /\ oldLog' = oldLog /\ rotates' = rotates /\ spent' = spent /\ crowded' = crowded
      /\ pieces' = [pieces EXCEPT ![w] = 0] /\ counted' = [counted EXCEPT ![w] = total1]
      /\ sink' = [sink EXCEPT ![w] = IF total1 > MaxLog THEN "full" ELSE "open"]
  BY LogInvTypes DEF WriteFails, AfterLogged
<1>1. counted[w] \in Nat /\ pieces[w] \in 0 .. LineParts - 1 /\ total1 \in Nat
  BY LogInvTypes, LogSorts
<1>2. /\ sink'[w] = (IF total1 > MaxLog THEN "full" ELSE "open") /\ pieces'[w] = 0 /\ counted'[w] = total1
      /\ \A v \in LogProcesses : v # w => sink'[v] = sink[v] /\ pieces'[v] = pieces[v] /\ counted'[v] = counted[v]
  BY <1>0, LogInvTypes
<1>3. OnlyOf(w)
  BY <1>0, <1>2 DEF OnlyOf
<1>4. LogTypes'
  <2>1. pieces' \in [LogProcesses -> 0 .. LineParts - 1] /\ counted' \in [LogProcesses -> Nat] /\ outages' \in Nat
        /\ submitted' \in Seq(LogPieces)
    BY <1>0, <1>1, LogInvTypes, LogSorts
  <2>2. sink' \in [LogProcesses -> {"off", "starting", "open", "full", "copying", "copied", "mute"}]
    BY <1>0, LogInvTypes
  <2>4. \A v \in LogProcesses : /\ sink'[v] # "open" => pieces'[v] = 0
                                /\ position[v] # AtEnd => position[v] <= spent
    BY <1>0, <1>2, LogInvTypes
  <2> HIDE DEF total1
  <2> QED
    BY <1>0, <2>1, <2>2, <2>4, LogInvTypes, LogTypesAgain
<1>5. Offsets'
  BY <1>0, <1>1, <1>2, LogInvTypes, LogSorts, SMTT(40) DEF Offsets
<1>6. MayAppend(w)' <= MayAppend(w)
  <2>1. MayAppend(w) \in 0..Full
    BY AllowedIs, LogInvTypes DEF AllowedFits
  <2>2. CASE position[w] = AtEnd /\ ~(total1 > MaxLog)
    BY <1>0, <1>1, <1>2, <2>2, LogSorts DEF MayAppend, Full
  <2>3. CASE ~(position[w] = AtEnd /\ ~(total1 > MaxLog))
    <3>1. MayAppend(w)' = 0
      BY <1>0, <1>2, <2>3 DEF MayAppend
    <3> QED
      BY <2>1, <3>1, LogSorts
  <2> QED
    BY <2>2, <2>3
<1>7. RoomLeft'
  BY <1>0, <1>3, <1>4, <1>6, LogInvTypes, RoomStep
<1>8. Alone'
  <2> SUFFICES ASSUME ~crowded
               PROVE  /\ \A u, v \in LogProcesses : sink'[v] # "off" /\ sink'[u] # "off" => v = u
                      /\ Len(logFile) <= Full
                      /\ \A v \in LogProcesses :
                            /\ sink'[v] = "starting" => Len(logFile) < MaxLog
                            /\ sink'[v] = "open" => /\ counted'[v] <= MaxLog /\ Len(logFile) = counted'[v] + pieces'[v]
                                                    /\ position[v] \in {AtEnd, Len(logFile)}
    BY <1>0 DEF Alone
  <2>1. \A v \in LogProcesses : sink'[v] # "off" => v = w
    BY <1>0, <1>2, LogInvTypes DEF Alone
  <2>2. Len(logFile) <= Full /\ Len(logFile) = total1 /\ position[w] \in {AtEnd, Len(logFile)} /\ total1 = total1 + 0
    BY <1>0, <1>1, LogInvTypes DEF Alone
  <2>3. sink'[w] # "starting" /\ (sink'[w] = "open" => total1 <= MaxLog)
    BY <1>1, <1>2, LogSorts
  <2> HIDE DEF total1
  <2> QED
    BY <1>2, <2>1, <2>2, <2>3
<1>9. RecentKept'
  BY <1>0, LogInvTypes DEF RecentKept
<1> QED
  BY <1>4, <1>5, <1>7, <1>8, <1>9 DEF LogInv

\* The steps that change files only, of a process that has filled the log.
LEMMA FillerKeeps ==
    ASSUME LogInv, NEW w \in LogProcesses, sink[w] \in {"full", "copying", "copied"},
           NEW to \in {"copying", "copied", "mute"}, SinkGoes(w, to), UNCHANGED OnlyFiles,
           logFile' = logFile, oldLog' \in Seq(LogPieces \cup {Hole}),
           \/ outages' = outages /\ submitted' = submitted
           \/ outages' = outages + 1 /\ submitted' = <<>>
    PROVE  /\ LogTypes' /\ Offsets' /\ RoomLeft' /\ Alone'
           /\ sink'[w] = to /\ \A v \in LogProcesses : v # w => sink'[v] = sink[v]
           /\ ~crowded => \A v \in LogProcesses : sink[v] # "off" => v = w
<1>0. /\ sink' = [sink EXCEPT ![w] = to] /\ position' = position /\ pieces' = pieces /\ counted' = counted
      /\ rotates' = rotates /\ spent' = spent /\ crowded' = crowded
  BY DEF SinkGoes, OnlyFiles
<1>2. sink'[w] = to /\ \A v \in LogProcesses : v # w => sink'[v] = sink[v]
  BY <1>0, LogInvTypes
<1>3. OnlyOf(w)
  BY <1>0, <1>2 DEF OnlyOf
<1>4. LogTypes'
  <2>0. submitted \in Seq(LogPieces) /\ outages \in Nat /\ <<>> \in Seq(LogPieces)
    BY LogInvTypes
  <2>1. submitted' \in Seq(LogPieces) /\ outages' \in Nat
    <3>1. CASE outages' = outages /\ submitted' = submitted
      BY <2>0, <3>1
    <3>2. CASE outages' = outages + 1 /\ submitted' = <<>>
      <4>1. outages + 1 \in Nat
        BY <2>0
      <4> QED
        BY <2>0, <3>2, <4>1
    <3> QED
      BY <3>1, <3>2
  <2>2. sink' \in [LogProcesses -> {"off", "starting", "open", "full", "copying", "copied", "mute"}]
    BY <1>0, LogInvTypes
  <2>4. \A v \in LogProcesses : /\ sink'[v] # "open" => pieces[v] = 0
                                /\ position[v] # AtEnd => position[v] <= spent
    BY <1>0, <1>2, LogInvTypes
  <2> QED
    BY <1>0, <2>1, <2>2, <2>4, LogInvTypes, LogTypesAgain
<1>5. Offsets' /\ RoomLeft' /\ Alone'
  BY <1>0, <1>3, <1>4, NotWriting
<1> QED
  BY <1>2, <1>4, <1>5, LogInvTypes DEF Alone

\* With a full log and no step of another, what is kept is in the log.
LEMMA FullLogKeeps ==
    ASSUME LogInv, NEW w \in LogProcesses, sink[w] \in {"full", "copying", "copied"}, ~crowded, outages = 0
    PROVE  /\ Len(submitted) = spent /\ IsTail(logFile, submitted) /\ MaxLog <= Len(logFile) /\ Keeps(logFile)
           /\ sink[w] = "copied" /\ rotates => oldLog = logFile
<1>1. Len(submitted) = spent /\ IsTail(logFile, submitted) /\ MaxLog <= Len(logFile)
      /\ (sink[w] = "copied" /\ rotates => oldLog = logFile)
  BY LogInvTypes DEF RecentKept
<1>2. Len(logFile) >= IF spent < MaxLog THEN spent ELSE MaxLog
  BY <1>1, LogInvTypes, LogSorts
<1> QED
  BY <1>1, <1>2 DEF Keeps

\* A copy to the old log begins, ends or fails, or the log cannot be emptied.
LEMMA CopyInv ==
    ASSUME LogInv, NEW w \in LogProcesses,
           BeginCopy(w) \/ FinishCopy(w) \/ CopyFails(w) \/ TruncateFails(w)
    PROVE  LogInv'
<1>1. PICK to \in {"copying", "copied", "mute"} :
        /\ sink[w] \in {"full", "copying", "copied"} /\ SinkGoes(w, to) /\ UNCHANGED OnlyFiles /\ logFile' = logFile
        /\ oldLog' \in {<<>>, oldLog, logFile}
        /\ \/ outages' = outages /\ submitted' = submitted /\ (to = "copied" /\ rotates => oldLog' = logFile)
           \/ outages' = outages + 1 /\ submitted' = <<>>
        /\ rotates' = rotates /\ crowded' = crowded /\ spent' = spent
  <2>1. CASE BeginCopy(w)
    <3>1. CASE rotates
      BY <2>1, <3>1 DEF BeginCopy, Copies, OnlyFiles
    <3>2. CASE ~rotates
      BY <2>1, <3>2 DEF BeginCopy, Copies, OnlyFiles
    <3> QED
      BY <3>1, <3>2
  <2>2. CASE FinishCopy(w)
    BY <2>2 DEF FinishCopy, OnlyFiles
  <2>3. CASE CopyFails(w)
    BY <2>3 DEF CopyFails, OnlyFiles
  <2>4. CASE TruncateFails(w)
    BY <2>4 DEF TruncateFails, OnlyFiles
  <2> QED
    BY <2>1, <2>2, <2>3, <2>4
<1>2. oldLog' \in Seq(LogPieces \cup {Hole})
  <2>1. /\ <<>> \in Seq(LogPieces \cup {Hole}) /\ oldLog \in Seq(LogPieces \cup {Hole})
        /\ logFile \in Seq(LogPieces \cup {Hole})
    BY LogInvTypes
  <2> QED
    BY <1>1, <2>1
<1>3. /\ LogTypes' /\ Offsets' /\ RoomLeft' /\ Alone'
      /\ sink'[w] = to /\ \A v \in LogProcesses : v # w => sink'[v] = sink[v]
      /\ ~crowded => \A v \in LogProcesses : sink[v] # "off" => v = w
  BY <1>1, <1>2, FillerKeeps
<1>4. RecentKept'
  <2> SUFFICES ASSUME ~crowded', outages' = 0
               PROVE  /\ Len(submitted') = spent'
                      /\ IsTail(logFile', submitted')
                      /\ \A v \in LogProcesses :
                            /\ sink'[v] \in {"full", "copying", "copied"} => MaxLog <= Len(logFile')
                            /\ sink'[v] = "copied" /\ rotates' => oldLog' = logFile'
                      /\ rotates' => Keeps(oldLog \o logFile)' \/ Keeps(logFile)'
    BY DEF RecentKept
  <2>1. ~crowded /\ outages = 0 /\ submitted' = submitted /\ (to = "copied" /\ rotates => oldLog' = logFile)
    BY <1>1, LogInvTypes
  <2>2. Len(submitted) = spent /\ IsTail(logFile, submitted) /\ MaxLog <= Len(logFile) /\ Keeps(logFile)
    BY <1>1, <2>1, FullLogKeeps
  <2>3. Keeps(logFile)'
    BY <1>1, <2>1, <2>2 DEF Keeps
  <2>4. \A v \in LogProcesses : v # w => sink'[v] = "off"
    BY <1>3, <2>1
  <2> QED
    BY <1>1, <1>3, <2>1, <2>2, <2>3, <2>4
<1> QED
  BY <1>3, <1>4 DEF LogInv

\* The log is emptied, once it is copied.
LEMMA TruncateLogInv == ASSUME LogInv, NEW w \in LogProcesses, TruncateLog(w) PROVE LogInv'
<1>0. /\ sink[w] = "copied" /\ sink' = [sink EXCEPT ![w] = "open"] /\ logFile' = <<>>
      /\ position' = [position EXCEPT ![w] = 0] /\ counted' = [counted EXCEPT ![w] = 0]
      /\ oldLog' = oldLog /\ rotates' = rotates /\ pieces' = pieces /\ spent' = spent /\ submitted' = submitted
      /\ crowded' = crowded /\ outages' = outages
  BY DEF TruncateLog, SinkGoes
<1>2. /\ sink'[w] = "open" /\ position'[w] = 0 /\ counted'[w] = 0 /\ pieces'[w] = 0
      /\ \A v \in LogProcesses : v # w => sink'[v] = sink[v] /\ position'[v] = position[v] /\ counted'[v] = counted[v]
      /\ Len(logFile') = 0 /\ 0 # AtEnd
  BY <1>0, LogInvTypes, LogSorts
<1>3. OnlyOf(w)
  BY <1>0, <1>2 DEF OnlyOf
<1>4. LogTypes'
  <2>1. position' \in [LogProcesses -> 0..MaxSubmitted \cup {AtEnd}] /\ counted' \in [LogProcesses -> Nat]
        /\ logFile' \in Seq(LogPieces \cup {Hole})
    BY <1>0, LogInvTypes, LogSorts
  <2>2. sink' \in [LogProcesses -> {"off", "starting", "open", "full", "copying", "copied", "mute"}]
    BY <1>0, LogInvTypes
  <2>4. \A v \in LogProcesses : /\ sink'[v] # "open" => pieces[v] = 0
                                /\ position'[v] # AtEnd => position'[v] <= spent
    BY <1>0, <1>2, LogInvTypes
  <2> QED
    BY <1>0, <2>1, <2>2, <2>4, LogInvTypes, LogTypesAgain
<1>5. Offsets'
  BY <1>0, <1>2, LogInvTypes, LogSorts DEF Offsets
<1>6. MayAppend(w)' = 0
  BY <1>2 DEF MayAppend
<1>7. RoomLeft'
  <2>1. Len(logFile') + MayAppend(w)' <= Full
    BY <1>2, <1>6, LogSorts
  <2> QED
    BY <1>3, <1>4, <2>1, LogInvTypes, RoomStep
<1>8. Alone'
  <2> SUFFICES ASSUME ~crowded
               PROVE  /\ \A u, v \in LogProcesses : sink'[v] # "off" /\ sink'[u] # "off" => v = u
                      /\ Len(logFile') <= Full
                      /\ \A v \in LogProcesses :
                            /\ sink'[v] = "starting" => Len(logFile') < MaxLog
                            /\ sink'[v] = "open" => /\ counted'[v] <= MaxLog /\ Len(logFile') = counted'[v] + pieces'[v]
                                                    /\ position'[v] \in {AtEnd, Len(logFile')}
    BY <1>0 DEF Alone
  <2>1. \A v \in LogProcesses : sink'[v] # "off" => v = w
    BY <1>0, <1>2, LogInvTypes DEF Alone
  <2>2. counted'[w] <= MaxLog /\ Len(logFile') = counted'[w] + pieces'[w] /\ Len(logFile') <= Full
        /\ position'[w] = Len(logFile')
    BY <1>2, LogSorts
  <2> QED
    BY <1>2, <2>1, <2>2
<1>9. RecentKept'
  <2> SUFFICES ASSUME ~crowded', outages' = 0
               PROVE  /\ Len(submitted') = spent'
                      /\ IsTail(logFile', submitted')
                      /\ \A v \in LogProcesses :
                            /\ sink'[v] \in {"full", "copying", "copied"} => MaxLog <= Len(logFile')
                            /\ sink'[v] = "copied" /\ rotates' => oldLog' = logFile'
                      /\ rotates' => Keeps(oldLog \o logFile)' \/ Keeps(logFile)'
    BY DEF RecentKept
  <2>1. ~crowded /\ outages = 0
    BY <1>0
  <2>2. Len(submitted) = spent /\ Keeps(logFile) /\ (rotates => oldLog = logFile)
    BY <1>0, <2>1, FullLogKeeps
  <2>3. IsTail(logFile', submitted')
    BY <1>0, <1>2, LogInvTypes DEF IsTail
  <2>4. oldLog' \o logFile' = oldLog
    BY <1>0, LogInvTypes
  <2>5. rotates' => Keeps(oldLog \o logFile)'
    BY <1>0, <2>2, <2>4 DEF Keeps
  <2>6. \A v \in LogProcesses : sink'[v] \notin {"full", "copying", "copied"}
    BY <1>0, <1>2, <2>1, LogInvTypes DEF Alone
  <2> QED
    BY <1>0, <2>2, <2>3, <2>5, <2>6
<1> QED
  BY <1>4, <1>5, <1>7, <1>8, <1>9 DEF LogInv

\* A process that closes the log.
LEMMA LeaveLogInv == ASSUME LogInv, NEW w \in LogProcesses, LeaveLog(w) PROVE LogInv'
<1>0. /\ sink[w] # "off" /\ sink' = [sink EXCEPT ![w] = "off"] /\ logFile' = logFile
      /\ position' = [position EXCEPT ![w] = 0] /\ counted' = [counted EXCEPT ![w] = 0]
      /\ pieces' = [pieces EXCEPT ![w] = 0]
      /\ oldLog' = oldLog /\ rotates' = rotates /\ spent' = spent /\ submitted' = submitted
      /\ crowded' = crowded /\ outages' = outages
  BY DEF LeaveLog, SinkGoes
<1>2. /\ sink'[w] = "off" /\ position'[w] = 0 /\ counted'[w] = 0 /\ pieces'[w] = 0
      /\ \A v \in LogProcesses : v # w => /\ sink'[v] = sink[v] /\ position'[v] = position[v]
                                          /\ counted'[v] = counted[v] /\ pieces'[v] = pieces[v]
  BY <1>0, LogInvTypes
<1>3. OnlyOf(w)
  BY <1>2 DEF OnlyOf
<1>4. LogTypes'
  <2>1. position' \in [LogProcesses -> 0..MaxSubmitted \cup {AtEnd}] /\ counted' \in [LogProcesses -> Nat]
        /\ pieces' \in [LogProcesses -> 0 .. LineParts - 1]
    BY <1>0, LogInvTypes, LogSorts
  <2>2. sink' \in [LogProcesses -> {"off", "starting", "open", "full", "copying", "copied", "mute"}]
    BY <1>0, LogInvTypes
  <2>4. \A v \in LogProcesses : /\ sink'[v] # "open" => pieces'[v] = 0
                                /\ position'[v] # AtEnd => position'[v] <= spent
    BY <1>2, LogInvTypes
  <2> QED
    BY <1>0, <2>1, <2>2, <2>4, LogInvTypes, LogTypesAgain
<1>5. Offsets' /\ RoomLeft' /\ Alone'
  BY <1>0, <1>3, <1>4, NotWriting
<1>6. RecentKept'
  BY <1>0, <1>2, LogInvTypes DEF RecentKept, Keeps
<1> QED
  BY <1>4, <1>5, <1>6 DEF LogInv

\* What is written at an offset makes of a file.
LEMMA WrittenAtIs ==
    ASSUME NEW S, NEW file \in Seq(S), NEW n \in Nat, NEW piece
    PROVE  /\ WrittenAt(file, n, piece) \in Seq(S \cup {Hole, piece})
           /\ Len(WrittenAt(file, n, piece)) = IF n < Len(file) THEN Len(file) ELSE n + 1
           /\ n = Len(file) => WrittenAt(file, n, piece) = Append(file, piece)
<1> DEFINE many == IF n < Len(file) THEN Len(file) ELSE n + 1
           larger == WrittenAt(file, n, piece)
<1>1. many \in Nat /\ larger = [i \in 1..many |-> IF i = n + 1 THEN piece ELSE IF i <= Len(file) THEN file[i] ELSE Hole]
  BY DEF WrittenAt
<1>2. \A i \in 1..many : larger[i] \in S \cup {Hole, piece}
  BY <1>1
<1>3. larger \in [1..many -> S \cup {Hole, piece}]
  BY <1>1, <1>2
<1>4. larger \in Seq(S \cup {Hole, piece}) /\ Len(larger) = many
  BY <1>1, <1>3
<1>5. ASSUME n = Len(file) PROVE larger = Append(file, piece)
  <2>1. many = Len(file) + 1
    BY <1>5
  <2>2. /\ file \in Seq(S \cup {Hole, piece}) /\ Append(file, piece) \in Seq(S \cup {Hole, piece})
        /\ Len(Append(file, piece)) = many
        /\ \A i \in 1..many : Append(file, piece)[i] = IF i = n + 1 THEN piece ELSE file[i]
    BY <1>5, <2>1
  <2>3. \A i \in 1..many : larger[i] = Append(file, piece)[i]
    BY <1>1, <1>5, <2>1, <2>2
  <2> HIDE DEF larger, many
  <2> QED
    BY <1>4, <2>2, <2>3, SeqEqual
<1> QED
  BY <1>4, <1>5

\* What is appended to a sequence is appended to its tail.
LEMMA TailGrows ==
    ASSUME NEW S, NEW T, NEW last \in Seq(S), NEW all \in Seq(T), NEW e, IsTail(last, all)
    PROVE  /\ IsTail(Append(last, e), Append(all, e))
           /\ Len(Append(last, e)) = Len(last) + 1 /\ Len(Append(all, e)) = Len(all) + 1
<1>1. /\ Len(Append(last, e)) = Len(last) + 1 /\ Len(Append(all, e)) = Len(all) + 1
      /\ Len(last) \in Nat /\ Len(all) \in Nat
      /\ \A i \in 1..Len(last) : Append(last, e)[i] = last[i]
      /\ \A i \in 1..Len(all) : Append(all, e)[i] = all[i]
      /\ Append(last, e)[Len(last) + 1] = e /\ Append(all, e)[Len(all) + 1] = e
  OBVIOUS
<1>2. Len(last) <= Len(all) /\ \A i \in 1..Len(last) : last[i] = all[Len(all) - Len(last) + i]
  BY DEF IsTail
<1> DEFINE l1 == Append(last, e)  a1 == Append(all, e)
<1> HIDE DEF l1, a1
<1>3. ASSUME NEW i \in 1 .. Len(last) + 1
      PROVE  l1[i] = a1[(Len(all) + 1) - (Len(last) + 1) + i]
  <2>1. CASE i = Len(last) + 1
    <3>1. (Len(all) + 1) - (Len(last) + 1) + i = Len(all) + 1
      BY <1>1, <2>1
    <3> QED
      BY <1>1, <2>1, <3>1 DEF l1, a1
  <2>2. CASE i # Len(last) + 1
    <3>1. /\ i \in 1..Len(last) /\ Len(all) - Len(last) + i \in 1..Len(all)
          /\ (Len(all) + 1) - (Len(last) + 1) + i = Len(all) - Len(last) + i
      BY <1>1, <1>2, <2>2
    <3> QED
      BY <1>1, <1>2, <3>1 DEF l1, a1
  <2> QED
    BY <2>1, <2>2
<1>4. Len(l1) = Len(last) + 1 /\ Len(a1) = Len(all) + 1
  BY <1>1 DEF l1, a1
<1>5. IsTail(l1, a1)
  BY <1>1, <1>2, <1>3, <1>4 DEF IsTail
<1> QED
  BY <1>1, <1>5 DEF l1, a1

\* A piece of a line is written.
LEMMA WritePieceInv == ASSUME LogInv, NEW w \in LogProcesses, WritePiece(w) PROVE LogInv'
<1> DEFINE piece == [by |-> w, nth |-> pieces[w] + 1]
           last == pieces[w] + 1 = LineParts
           total1 == counted[w] + LineParts
<1>0. /\ sink[w] = "open" /\ spent < MaxSubmitted /\ spent' = spent + 1
      /\ submitted' = IF crowded \/ outages > 0 THEN <<>> ELSE Append(submitted, piece)
      /\ pieces' = [pieces EXCEPT ![w] = IF last THEN 0 ELSE pieces[w] + 1]
      /\ oldLog' = oldLog /\ rotates' = rotates /\ crowded' = crowded /\ outages' = outages
  BY LogInvTypes DEF WritePiece
<1>1. \/ position[w] = AtEnd /\ logFile' = Append(logFile, piece) /\ position' = position
      \/ /\ position[w] # AtEnd /\ logFile' = WrittenAt(logFile, position[w], piece)
         /\ position' = [position EXCEPT ![w] = position[w] + 1]
  BY LogInvTypes DEF WritePiece
<1>2. \/ /\ last /\ counted' = [counted EXCEPT ![w] = total1]
         /\ sink' = [sink EXCEPT ![w] = IF total1 > MaxLog THEN "full" ELSE "open"]
      \/ ~last /\ counted' = counted /\ sink' = sink
  BY LogInvTypes DEF WritePiece, AfterLogged
<1>3. /\ counted[w] \in Nat /\ pieces[w] \in 0 .. LineParts - 1 /\ pieces[w] \in Nat /\ pieces[w] < LineParts
      /\ total1 \in Nat /\ piece \in LogPieces
      /\ position[w] \in 0..MaxSubmitted \cup {AtEnd} /\ (position[w] # AtEnd => position[w] \in Nat /\ position[w] <= spent)
  <2>1. counted[w] \in Nat /\ pieces[w] \in 0 .. LineParts - 1
        /\ position[w] \in 0..MaxSubmitted \cup {AtEnd} /\ (position[w] # AtEnd => position[w] <= spent)
    BY LogInvTypes
  <2>2. pieces[w] + 1 \in 1..LineParts
    BY <2>1, LogSorts
  <2> QED
    BY <2>1, <2>2, LogSorts DEF LogPieces
<1> HIDE DEF piece, total1, last
\* What becomes of the process.
<1>4. /\ pieces'[w] = IF last THEN 0 ELSE pieces[w] + 1
      /\ counted'[w] = IF last THEN total1 ELSE counted[w]
      /\ sink'[w] = IF last /\ total1 > MaxLog THEN "full" ELSE "open"
      /\ position'[w] = IF position[w] = AtEnd THEN AtEnd ELSE position[w] + 1
      /\ \A v \in LogProcesses : v # w => /\ sink'[v] = sink[v] /\ position'[v] = position[v]
                                          /\ counted'[v] = counted[v] /\ pieces'[v] = pieces[v]
  BY <1>0, <1>1, <1>2, LogInvTypes
<1>5. OnlyOf(w)
  BY <1>4 DEF OnlyOf
<1>6. /\ logFile' \in Seq(LogPieces \cup {Hole})
      /\ position[w] = AtEnd => Len(logFile') = Len(logFile) + 1
      /\ position[w] # AtEnd => Len(logFile') = IF position[w] < Len(logFile) THEN Len(logFile) ELSE position[w] + 1
      /\ position[w] \in {AtEnd, Len(logFile)} => logFile' = Append(logFile, piece) /\ Len(logFile') = Len(logFile) + 1
  <2>1. (LogPieces \cup {Hole}) \cup {Hole, piece} = LogPieces \cup {Hole}
    BY <1>3
  <2>2. CASE position[w] = AtEnd
    <3>1. piece \in LogPieces \cup {Hole} /\ logFile \in Seq(LogPieces \cup {Hole})
      BY <1>3, LogInvTypes
    <3>2. Append(logFile, piece) \in Seq(LogPieces \cup {Hole}) /\ Len(Append(logFile, piece)) = Len(logFile) + 1
      BY <3>1, AppendProperties
    <3> QED
      BY <1>1, <2>2, <3>2
  <2>3. CASE position[w] # AtEnd
    <3>1. /\ WrittenAt(logFile, position[w], piece) \in Seq((LogPieces \cup {Hole}) \cup {Hole, piece})
          /\ Len(WrittenAt(logFile, position[w], piece)) = IF position[w] < Len(logFile) THEN Len(logFile) ELSE position[w] + 1
          /\ position[w] = Len(logFile) => WrittenAt(logFile, position[w], piece) = Append(logFile, piece)
      BY <1>3, <2>3, LogInvTypes, WrittenAtIs, SMTT(40)
    <3> QED
      BY <1>1, <1>3, <2>1, <2>3, <3>1, LogInvTypes
  <2> QED
    BY <2>2, <2>3
<1>7. LogTypes'
  <2>1. submitted' \in Seq(LogPieces)
    BY <1>0, <1>3, LogInvTypes
  <2>2. pieces' \in [LogProcesses -> 0 .. LineParts - 1]
    <3>1. (IF last THEN 0 ELSE pieces[w] + 1) \in 0 .. LineParts - 1
      BY <1>3, LogSorts DEF last
    <3> QED
      BY <1>0, <3>1, LogInvTypes
  <2>3. counted' \in [LogProcesses -> Nat]
    BY <1>2, <1>3, LogInvTypes
  <2>4. sink' \in [LogProcesses -> {"off", "starting", "open", "full", "copying", "copied", "mute"}]
    BY <1>2, LogInvTypes
  <2>5. spent' \in 0..MaxSubmitted
    BY <1>0, LogInvTypes, LogSorts
  <2>6. position' \in [LogProcesses -> 0..MaxSubmitted \cup {AtEnd}]
    <3>1. position[w] # AtEnd => position[w] + 1 \in 0..MaxSubmitted
      BY <1>0, <1>3, LogInvTypes, LogSorts, SMTT(40)
    <3> QED
      BY <1>1, <3>1, LogInvTypes
  <2>7. ASSUME NEW v \in LogProcesses
        PROVE  /\ sink'[v] # "open" => pieces'[v] = 0
               /\ position'[v] # AtEnd => position'[v] <= spent'
    <3>1. CASE v = w
      BY <1>0, <1>3, <1>4, <3>1, LogInvTypes, LogSorts, SMTT(40)
    <3>2. CASE v # w
      <4>1. position[v] \in 0..MaxSubmitted \cup {AtEnd} /\ spent \in Nat
        BY LogInvTypes
      <4> QED
        BY <1>0, <1>4, <3>2, <4>1, LogInvTypes, LogSorts, SMTT(40)
    <3> QED
      BY <3>1, <3>2
  <2> QED
    BY <1>0, <1>6, <2>1, <2>2, <2>3, <2>4, <2>5, <2>6, <2>7, LogInvTypes, LogTypesAgain
\* Its numbers.
<1>8. /\ sink'[w] = "open" => /\ counted'[w] + pieces'[w] = counted[w] + pieces[w] + 1
                              /\ counted[w] <= MaxLog => counted'[w] <= MaxLog
      /\ sink'[w] # "open" => /\ counted[w] + pieces[w] + 1 = total1 /\ MaxLog < total1
                              /\ sink'[w] = "full"
  BY <1>3, <1>4, LogSorts DEF last, total1
<1>9. Offsets'
  <2> SUFFICES ASSUME NEW v \in LogProcesses, sink'[v] = "open", position'[v] # AtEnd
               PROVE  position'[v] = counted'[v] + pieces'[v] /\ counted'[v] <= MaxLog
    BY DEF Offsets
  <2>1. CASE v = w
    <3>1. position[w] # AtEnd /\ position'[w] = position[w] + 1
      BY <1>4, <2>1
    <3>2. position[w] = counted[w] + pieces[w] /\ counted[w] <= MaxLog
      BY <1>0, <3>1, LogInvTypes DEF Offsets
    <3> QED
      BY <1>3, <1>8, <2>1, <3>1, <3>2
  <2>2. CASE v # w
    BY <1>4, <2>2, LogInvTypes DEF Offsets
  <2> QED
    BY <2>1, <2>2
<1>10. RoomLeft'
  <2>1. CASE position[w] = AtEnd
    <3>1. MayAppend(w) = (IF counted[w] > MaxLog THEN LineParts ELSE Full - counted[w]) - pieces[w]
      BY <1>0, <2>1 DEF MayAppend
    <3>2. MayAppend(w)' = IF sink'[w] = "open"
                          THEN (IF counted'[w] > MaxLog THEN LineParts ELSE Full - counted'[w]) - pieces'[w] ELSE 0
      BY <1>4, <2>1 DEF MayAppend
    <3>3. MayAppend(w) \in Nat /\ MayAppend(w) >= 1
      BY <1>3, <3>1, LogSorts DEF Full
    <3>4. MayAppend(w)' < MayAppend(w)
      <4>1. CASE last
        <5>1. pieces[w] + 1 = LineParts /\ counted'[w] = total1 /\ pieces'[w] = 0
              /\ (sink'[w] = "open" <=> ~(total1 > MaxLog))
          BY <1>4, <4>1 DEF last
        <5>2. CASE total1 > MaxLog
          BY <3>2, <3>3, <5>1, <5>2
        <5>3. CASE ~(total1 > MaxLog)
          BY <1>3, <3>1, <3>2, <5>1, <5>3, LogSorts DEF total1, Full
        <5> QED
          BY <5>2, <5>3
      <4>2. CASE ~last
        BY <1>3, <1>4, <3>1, <3>2, <4>2, LogSorts DEF Full
      <4> QED
        BY <4>1, <4>2
    <3> QED
      BY <1>5, <1>6, <1>7, <2>1, <3>4, LogInvTypes, RoomStep
  <2>2. CASE position[w] # AtEnd
    <3>1. position'[w] # AtEnd
      BY <1>3, <1>4, <2>2, LogSorts
    <3>2. MayAppend(w) = 0 /\ MayAppend(w)' = 0
      BY <1>0, <1>4, <2>2, <3>1 DEF MayAppend
    <3>3. position[w] + 1 <= Full
      <4>1. position[w] = counted[w] + pieces[w] /\ counted[w] <= MaxLog
        BY <1>0, <2>2, LogInvTypes DEF Offsets
      <4> QED
        BY <1>3, <2>2, <4>1, LogSorts DEF Full
    <3>4. CASE position[w] < Len(logFile)
      BY <1>5, <1>6, <1>7, <2>2, <3>2, <3>4, LogInvTypes, RoomStep
    <3>5. CASE ~(position[w] < Len(logFile))
      <4>1. Len(logFile') + MayAppend(w)' <= Full
        BY <1>3, <1>6, <2>2, <3>2, <3>3, <3>5, LogSorts
      <4> QED
        BY <1>5, <1>7, <4>1, LogInvTypes, RoomStep
    <3> QED
      BY <3>4, <3>5
  <2> QED
    BY <2>1, <2>2
\* Alone it writes at the end.
<1>11. ASSUME ~crowded
       PROVE  /\ logFile' = Append(logFile, piece) /\ Len(logFile') = Len(logFile) + 1
              /\ Len(logFile) = counted[w] + pieces[w] /\ counted[w] <= MaxLog
              /\ \A v \in LogProcesses : sink'[v] # "off" => v = w
              /\ position'[w] \in {AtEnd, Len(logFile')}
  <2>1. /\ position[w] \in {AtEnd, Len(logFile)} /\ Len(logFile) = counted[w] + pieces[w] /\ counted[w] <= MaxLog
        /\ \A v \in LogProcesses : sink[v] # "off" => v = w
    BY <1>0, <1>11, LogInvTypes DEF Alone
  <2> QED
    BY <1>4, <1>6, <2>1
<1>12. Alone'
  <2> SUFFICES ASSUME ~crowded
               PROVE  /\ \A u, v \in LogProcesses : sink'[v] # "off" /\ sink'[u] # "off" => v = u
                      /\ Len(logFile') <= Full
                      /\ \A v \in LogProcesses :
                            /\ sink'[v] = "starting" => Len(logFile') < MaxLog
                            /\ sink'[v] = "open" => /\ counted'[v] <= MaxLog /\ Len(logFile') = counted'[v] + pieces'[v]
                                                    /\ position'[v] \in {AtEnd, Len(logFile')}
    BY <1>0 DEF Alone
  <2>1. Len(logFile') <= Full
    BY <1>3, <1>11, LogSorts DEF Full
  <2>2. sink'[w] # "starting" /\ (sink'[w] = "open" => counted'[w] <= MaxLog /\ Len(logFile') = counted'[w] + pieces'[w])
    BY <1>3, <1>4, <1>8, <1>11
  <2> QED
    BY <1>11, <2>1, <2>2
<1>13. RecentKept'
  <2> SUFFICES ASSUME ~crowded', outages' = 0
               PROVE  /\ Len(submitted') = spent'
                      /\ IsTail(logFile', submitted')
                      /\ \A v \in LogProcesses :
                            /\ sink'[v] \in {"full", "copying", "copied"} => MaxLog <= Len(logFile')
                            /\ sink'[v] = "copied" /\ rotates' => oldLog' = logFile'
                      /\ rotates' => Keeps(oldLog \o logFile)' \/ Keeps(logFile)'
    BY DEF RecentKept
  <2>1. ~crowded /\ outages = 0 /\ submitted' = Append(submitted, piece) /\ logFile' = Append(logFile, piece)
    BY <1>0, <1>11, LogInvTypes
  <2>2. /\ Len(submitted) = spent /\ IsTail(logFile, submitted)
        /\ rotates => Keeps(oldLog \o logFile) \/ Keeps(logFile)
    BY <2>1, LogInvTypes DEF RecentKept
  <2>3. Len(submitted') = spent' /\ IsTail(logFile', submitted')
    BY <1>0, <2>1, <2>2, LogInvTypes, TailGrows
  <2>4. sink'[w] = "full" => MaxLog <= Len(logFile')
    <3>1. Len(logFile') = counted[w] + pieces[w] + 1
      BY <1>3, <1>11, <2>1
    <3> QED
      BY <1>3, <1>8, <3>1, LogSorts
  <2>5. \A v \in LogProcesses : sink'[v] # "off" => v = w /\ sink'[v] \in {"open", "full"}
    BY <1>4, <1>11, <2>1
  <2>6. ASSUME NEW kept \in Seq(LogPieces \cup {Hole}), Keeps(kept)
        PROVE  /\ IsTail(Append(kept, piece), submitted')
               /\ Len(Append(kept, piece)) >= IF spent' < MaxLog THEN spent' ELSE MaxLog
    <3>1. IsTail(kept, submitted) /\ Len(kept) >= (IF spent < MaxLog THEN spent ELSE MaxLog) /\ Len(kept) \in Nat
      BY <2>6 DEF Keeps
    <3>2. IsTail(Append(kept, piece), submitted') /\ Len(Append(kept, piece)) = Len(kept) + 1
      BY <2>1, <3>1, LogInvTypes, TailGrows
    <3>3. Len(kept) + 1 >= IF spent + 1 < MaxLog THEN spent + 1 ELSE MaxLog
      BY <3>1, LogInvTypes, LogSorts
    <3> QED
      BY <1>0, <3>2, <3>3
  <2>7. Keeps(logFile) => Keeps(logFile)'
    BY <2>1, <2>6, LogInvTypes DEF Keeps
  <2>8. Keeps(oldLog \o logFile) => Keeps(oldLog \o logFile)'
    <3>1. oldLog \o logFile \in Seq(LogPieces \cup {Hole})
      BY LogInvTypes
    <3>2. oldLog' \o logFile' = Append(oldLog \o logFile, piece)
      <4>1. oldLog \o Append(logFile, piece) = Append(oldLog \o logFile, piece)
        BY LogInvTypes, <1>3, AppendProperties, ConcatProperties
      <4> QED
        BY <1>0, <2>1, <4>1
    <3> QED
      BY <2>6, <3>1, <3>2 DEF Keeps
  <2> QED
    BY <1>0, <2>2, <2>3, <2>4, <2>5, <2>7, <2>8
<1> QED
  BY <1>7, <1>9, <1>10, <1>12, <1>13 DEF LogInv

\* Every step keeps the invariant.
LEMMA LogStep == LogInv /\ [LogNext]_logVars => LogInv'
<1> SUFFICES ASSUME LogInv, [LogNext]_logVars PROVE LogInv'
  OBVIOUS
<1>1. ASSUME NEW w \in LogProcesses,
             \/ StartLog(w) \/ OpenAppend(w) \/ WritePiece(w) \/ WriteFails(w) \/ BeginCopy(w) \/ FinishCopy(w)
             \/ CopyFails(w) \/ TruncateLog(w) \/ TruncateFails(w) \/ LeaveLog(w)
      PROVE  LogInv'
  BY <1>1, StartLogInv, OpenAppendInv, WritePieceInv, WriteFailsInv, CopyInv, TruncateLogInv, LeaveLogInv
<1>2. CASE UNCHANGED logVars
  BY <1>2 DEF logVars, sinkVars, LogInv, LogTypes, LogTypeOK, Offsets, RoomLeft, Allowed, MayAppend, Room, Alone,
              RecentKept, Keeps
<1> QED
  BY <1>1, <1>2 DEF LogNext

\* A function on the first numbers is a sequence.
LEMMA ListedIsSeq == ASSUME NEW S, NEW n \in Nat, NEW f \in [1..n -> S] PROVE f \in Seq(S) /\ Len(f) = n
  OBVIOUS

\* A tail is a suffix.
LEMMA TailIsSuffix ==
    ASSUME NEW S, NEW T, NEW last \in Seq(S), NEW all \in Seq(T), IsTail(last, all)
    PROVE  IsSuffix(last, all)
<1> DEFINE l1 == Reverse(last)  a1 == Reverse(all)
<1>1. Len(last) \in Nat /\ Len(all) \in Nat /\ Len(last) <= Len(all)
      /\ \A i \in 1..Len(last) : last[i] = all[Len(all) - Len(last) + i]
  BY DEF IsTail
<1>2. l1 = [i \in 1..Len(last) |-> last[Len(last) - i + 1]] /\ a1 = [i \in 1..Len(all) |-> all[Len(all) - i + 1]]
  BY DEF Reverse
<1>3. l1 \in Seq(S) /\ Len(l1) = Len(last)
  <2>1. \A i \in 1..Len(last) : Len(last) - i + 1 \in 1..Len(last)
    BY <1>1
  <2>2. l1 \in [1..Len(last) -> S]
    BY <1>2, <2>1
  <2> HIDE DEF l1
  <2> QED
    BY <1>1, <2>2, ListedIsSeq
<1>4. a1 \in Seq(T) /\ Len(a1) = Len(all)
  <2>1. \A i \in 1..Len(all) : Len(all) - i + 1 \in 1..Len(all)
    BY <1>1
  <2>2. a1 \in [1..Len(all) -> T]
    BY <1>2, <2>1
  <2> HIDE DEF a1
  <2> QED
    BY <1>1, <2>2, ListedIsSeq
<1>5. ASSUME NEW i \in 1..Len(last) PROVE l1[i] = a1[i]
  <2>1. /\ Len(last) - i + 1 \in 1..Len(last) /\ i \in 1..Len(all)
        /\ Len(all) - Len(last) + (Len(last) - i + 1) = Len(all) - i + 1
    BY <1>1
  <2> QED
    BY <1>1, <1>2, <2>1
<1> HIDE DEF l1, a1
<1>6. SubSeq(l1, 1, Len(l1)) = SubSeq(a1, 1, Len(l1))
  <2>1. /\ SubSeq(l1, 1, Len(l1)) = [i \in 1..Len(last) |-> l1[i]]
        /\ SubSeq(a1, 1, Len(l1)) = [i \in 1..Len(last) |-> a1[i]]
    BY <1>1, <1>3, <1>4
  <2> QED
    BY <1>5, <2>1
<1>7. IsPrefix(l1, a1)
  BY <1>1, <1>3, <1>4, <1>6 DEF IsPrefix
<1> QED
  BY <1>7 DEF IsSuffix, l1, a1

\* What the log invariant tells: the types, how much is kept, and how long the log gets.
LEMMA LogInvTells == LogInv => LogTypeOK /\ RecentLinesKept /\ LogBounded
<1> SUFFICES ASSUME LogInv PROVE LogTypeOK /\ RecentLinesKept /\ LogBounded
  OBVIOUS
<1>1. LogTypeOK
  BY LogInvTypes DEF LogTypes
<1>2. RecentLinesKept
  <2> SUFFICES ASSUME ~crowded, outages = 0
               PROVE  /\ IsSuffix(logFile, submitted)
                      /\ rotates => \E kept \in {oldLog \o logFile, logFile} :
                                       /\ IsSuffix(kept, submitted)
                                       /\ Len(kept) >= IF spent < MaxLog THEN spent ELSE MaxLog
    BY DEF RecentLinesKept
  <2>1. IsTail(logFile, submitted) /\ (rotates => Keeps(oldLog \o logFile) \/ Keeps(logFile))
    BY LogInvTypes DEF RecentKept
  <2>2. ASSUME NEW kept \in Seq(LogPieces \cup {Hole}), Keeps(kept)
        PROVE  IsSuffix(kept, submitted) /\ Len(kept) >= IF spent < MaxLog THEN spent ELSE MaxLog
    BY <2>2, LogInvTypes, TailIsSuffix DEF Keeps
  <2>3. oldLog \o logFile \in Seq(LogPieces \cup {Hole}) /\ logFile \in Seq(LogPieces \cup {Hole})
    BY LogInvTypes
  <2> QED
    BY <2>1, <2>2, <2>3, LogInvTypes, TailIsSuffix
<1>3. LogBounded
  <2>1. CASE crowded
    <3>1. PICK all1 \in Nat : Cardinality(LogProcesses) * Full = all1
      BY LogSorts
    <3>2. Len(logFile) + Cardinality(Room(Allowed)) <= all1 /\ Cardinality(Room(Allowed)) \in Nat
      BY <3>1, LogInvTypes, RoomFinite DEF RoomLeft
    <3>3. Len(logFile) <= all1
      BY <3>1, <3>2, LogInvTypes
    <3> QED
      BY <2>1, <3>1, <3>3 DEF LogBounded, Full
  <2>2. CASE ~crowded
    BY <2>2, LogInvTypes, LogSorts DEF LogBounded, Alone, Full
  <2> QED
    BY <2>1, <2>2
<1> QED
  BY <1>1, <1>2, <1>3

\* The log keeps what was written last as long as nobody disturbs, and never outgrows what its writers may add.
THEOREM LogHolds == LogSpec => [](LogTypeOK /\ RecentLinesKept /\ LogBounded)
  BY LogInitInv, LogStep, LogInvTells, PTL DEF LogSpec

-----------------------------------------------------------------------------
(* The parts together *)

\* The parts of a behaviour are its part's, and the others stutter.
LEMMA PartSteps ==
    /\ [MCNext]_<<part, keptVars, caseVars, sharedVars, otherVars>> => UNCHANGED part
    /\ [MCNext]_<<part, keptVars, caseVars, sharedVars, otherVars>> => [SharedNext]_sharedVars
    /\ [MCNext]_<<part, keptVars, caseVars, sharedVars, otherVars>> => [CaseNext]_caseVars
    /\ [MCNext]_<<part, keptVars, caseVars, sharedVars, otherVars>> => [ValidationNext]_validationVars
    /\ [MCNext]_<<part, keptVars, caseVars, sharedVars, otherVars>> => [LockNext]_lockVars
    /\ [MCNext]_<<part, keptVars, caseVars, sharedVars, otherVars>> => [MemoryNext \/ RuleLives]_memoryVars
    /\ [MCNext]_<<part, keptVars, caseVars, sharedVars, otherVars>> => [BatchNext]_batchVars
    /\ [MCNext]_<<part, keptVars, caseVars, sharedVars, otherVars>> => [IndexNext]_indexVars
    /\ [MCNext]_<<part, keptVars, caseVars, sharedVars, otherVars>> => [RunNext]_runVars
    /\ [MCNext]_<<part, keptVars, caseVars, sharedVars, otherVars>> => [LogNext]_logVars
    /\ [MCNext]_<<part, keptVars, caseVars, sharedVars, otherVars>> => [ApplyNext]_applyVars
    /\ [MCNext]_<<part, keptVars, caseVars, sharedVars, otherVars>> => [AttemptsNext]_attemptVars
<1> USE DEF MCNext, KeptNext, keptVars, benchmarkVars, otherVars
<1>1. [MCNext]_<<part, keptVars, caseVars, sharedVars, otherVars>> => UNCHANGED part
  OBVIOUS
<1>2. [MCNext]_<<part, keptVars, caseVars, sharedVars, otherVars>> => [SharedNext]_sharedVars
  OBVIOUS
<1>3. [MCNext]_<<part, keptVars, caseVars, sharedVars, otherVars>> => [CaseNext]_caseVars
  OBVIOUS
<1>4. [MCNext]_<<part, keptVars, caseVars, sharedVars, otherVars>> => [ValidationNext]_validationVars
  OBVIOUS
<1>5. [MCNext]_<<part, keptVars, caseVars, sharedVars, otherVars>> => [LockNext]_lockVars
  OBVIOUS
<1>6. [MCNext]_<<part, keptVars, caseVars, sharedVars, otherVars>> => [MemoryNext \/ RuleLives]_memoryVars
  BY DEF RuleLives
<1>7. [MCNext]_<<part, keptVars, caseVars, sharedVars, otherVars>> => [BatchNext]_batchVars
  OBVIOUS
<1>8. [MCNext]_<<part, keptVars, caseVars, sharedVars, otherVars>> => [IndexNext]_indexVars
  OBVIOUS
<1>9. [MCNext]_<<part, keptVars, caseVars, sharedVars, otherVars>> => [RunNext]_runVars
  OBVIOUS
<1>10. [MCNext]_<<part, keptVars, caseVars, sharedVars, otherVars>> => [LogNext]_logVars
  OBVIOUS
<1>11. [MCNext]_<<part, keptVars, caseVars, sharedVars, otherVars>> => [ApplyNext]_applyVars
  BY DEF diffVars
<1>12. [MCNext]_<<part, keptVars, caseVars, sharedVars, otherVars>> => [AttemptsNext]_attemptVars
  OBVIOUS
<1> HIDE DEF MCNext, KeptNext, keptVars, benchmarkVars, otherVars
<1> QED
  BY <1>1, <1>2, <1>3, <1>4, <1>5, <1>6, <1>7, <1>8, <1>9, <1>10, <1>11, <1>12

\* A step of RetriedRun, or of another part.
LEMMA RunMovesOrStutters == RunInv /\ [RunNext]_runVars => RunInv'
  BY RunMoves, RunStutters

\* The invariants of the parts that this module proves about hold of them together, ...
LEMMA PartsInvariance == MCSpec => [](SharedInv /\ CaseInv /\ VInv /\ LockInv /\ MemoryInv /\ RuleInv)
<1>1. MCInit => SharedInv /\ CaseInv /\ VInv /\ LockInv /\ MemoryInv /\ RuleInv
  <2>1. MCInit => SharedInit /\ CaseInit /\ ValidationInit /\ LockInit /\ MemoryInit
    BY DEF MCInit
  <2>2. MemoryInit => RuleInv
    BY DEF MemoryInit, ForgeInit, NewRule, RuleInv, RulesEarned
  <2> QED
    BY <2>1, <2>2, SharedInitInv, CaseInitInv, VInvInit, LockInvInit, MemoryInitInv
<1>2. /\ SharedInv /\ CaseInv /\ VInv /\ LockInv /\ MemoryInv /\ RuleInv
      /\ [MCNext]_<<part, keptVars, caseVars, sharedVars, otherVars>>
      => (SharedInv /\ CaseInv /\ VInv /\ LockInv /\ MemoryInv /\ RuleInv)'
  BY PartSteps, SharedStep, CaseStep, VInvNext, LockInvNext, MemoryStep
<1> QED
  BY <1>1, <1>2, PTL DEF MCSpec

\* ... and those of the reports, the index and the log.
LEMMA ReportsInvariance == MCSpec => [](AttemptsInv /\ BatchInv /\ IndexInv /\ RunInv /\ LogInv)
<1>1. MCInit => AttemptsInv /\ BatchInv /\ IndexInv /\ RunInv /\ LogInv
  <2>1. MCInit => AttemptsInit /\ BatchInit /\ IndexInit /\ RunInit /\ LogInit
    BY DEF MCInit
  <2> QED
    BY <2>1, AttemptsStart, BatchInitInv, IndexInitInv, RunInitInv, LogInitInv
<1>2. /\ AttemptsInv /\ BatchInv /\ IndexInv /\ RunInv /\ LogInv
      /\ [MCNext]_<<part, keptVars, caseVars, sharedVars, otherVars>>
      => (AttemptsInv /\ BatchInv /\ IndexInv /\ RunInv /\ LogInv)'
  BY PartSteps, AttemptsInvStep, BatchStep, IndexStep, RunMovesOrStutters, LogStep
<1> QED
  BY <1>1, <1>2, PTL DEF MCSpec

\* The diff applier keeps its invariant where it is the part that runs.
LEMMA ApplierInvariance == MCSpec => [](part = "diff" => ApplyInv)
<1>1. MCInit => (part = "diff" => ApplyInv)
  BY ApplyStarts DEF MCInit
<1>2. /\ part = "diff" => ApplyInv
      /\ [MCNext]_<<part, keptVars, caseVars, sharedVars, otherVars>>
      => (part = "diff" => ApplyInv)'
  BY PartSteps, ApplyInvStep
<1> QED
  BY <1>1, <1>2, PTL DEF MCSpec

\* Candidate rules come only from failures that kept coming back, and rules only from evidence.
THEOREM RulesFollow == MCSpec => []RulesFollowFailures
<1>1. MemoryInv /\ RuleInv => RulesFollowFailures
  BY DEF MemoryInv, RuleInv, RulesFollowFailures
<1> QED
  BY <1>1, PartsInvariance, PTL

\* What was recorded of a run stays, also beside the other parts.
THEOREM StoresKeepRecords == MCSpec => []RecordsKept
<1>1. MemoryInv => RecordsKept
  BY DEF MemoryInv, StoreInv, FreshIsSnapshot, LoadedIsTotal, NoneInvented, RecordsKept
<1> QED
  BY <1>1, PartsInvariance, PTL

\* A validation is passed by what was verified and a failed one says what became of the edits, a case
\* is not called done while its fast loop still fails, and a verdict lasts; a plan that names a
\* command twice is the one thing a validation would be misled by.
THEOREM VerdictsAreExplained ==
    ASSUME PlansAreSets
    PROVE  MCSpec => []VerdictsExplained
<1>1. SharedInv /\ CaseInv /\ VInv => VerdictsExplained
  BY SharedMeans, DoneWasRerun DEF VInv, Explained, VerdictsExplained, Of
<1> QED
  BY <1>1, PartsInvariance, PTL

\* A diff is applied in all of its files, and nothing is touched when one of its hunks is refused;
\* the patch of a run adds its edit and changes nothing else of a file that others edit too.
THEOREM PatchesApplyOrRefuse == MCSpec => []AppliedOrRefused
<1>1. (part = "diff" => ApplyInv) /\ SharedInv => AppliedOrRefused
  BY RefusalsClean, AppliedWhole, SharedMeans DEF AppliedOrRefused, Of
<1> QED
  BY <1>1, ApplierInvariance, PartsInvariance, PTL

\* The phase of a repair and the case ledger agree, and a repair gets stuck in known ways only.
THEOREM RepairKeepsGoing == MCSpec => []RepairKeepsMoving
<1>1. CaseInv => RepairKeepsMoving
  BY DoneWasRerun, StuckInFourWays DEF RepairKeepsMoving, Of
<1> QED
  BY <1>1, PartsInvariance, PTL

\* Also beside the other parts, what the reports of an attempt, a benchmark, a batch and a run tell is
\* so, and so is what the index of a workspace quotes when it says it is fresh; the log keeps its last lines.
THEOREM ReportsStayTruthful == MCSpec => []ReportsTruthful
<1>1. BatchInv => SummaryIsTruthful
  BY DEF BatchInv, Accounts, SummaryIsTruthful
<1>2. AttemptsInv => AttemptReportsTruthful
  BY AttemptsTruthful
<1>3. AttemptsInv /\ BatchInv /\ IndexInv /\ RunInv /\ LogInv => ReportsTruthful
  BY <1>1, <1>2, IndexMeans, RunInvHolds, LogInvTells DEF ReportsTruthful, Of
<1> QED
  BY <1>3, ReportsInvariance, PTL

\* Whatever is kept in files, every variable of its part keeps its type.
THEOREM StoresTypes == MCSpec => []StoresTypeOK
<1>1. (part = "diff" => ApplyInv) => Of("diff", ApplyTypeOK)
  BY ApplierTyped DEF Of
<1>2. MemoryInv /\ VInv /\ LockInv => MemoryTypeOK /\ ValidationTypeOK /\ LockTypeOK
  BY DEF MemoryInv, VInv, LockInv
<1>3. CaseInv /\ SharedInv => CaseTypeOK /\ SharedTypeOK
  BY DoneWasRerun, SharedMeans
<1>4. AttemptsInv /\ BatchInv => AttemptsTypeOK /\ BatchTypeOK
  BY AttemptsTyped DEF BatchInv
<1>5. IndexInv /\ RunInv /\ LogInv => IndexTypeOK /\ RunTypeOK /\ LogTypeOK
  BY IndexMeans, RunInvHolds, LogInvTells
<1>6. /\ part = "diff" => ApplyInv
      /\ SharedInv /\ CaseInv /\ VInv /\ LockInv /\ MemoryInv
      /\ AttemptsInv /\ BatchInv /\ IndexInv /\ RunInv /\ LogInv
      => StoresTypeOK
  BY <1>1, <1>2, <1>3, <1>4, <1>5 DEF StoresTypeOK, Of
<1> QED
  BY <1>6, ApplierInvariance, PartsInvariance, ReportsInvariance, PTL
=============================================================================
