---------------------------- MODULE BenchmarkLock --------------------------
(***************************************************************************)
(* The lock file of headless benchmark runs of one user.  A process        *)
(* creates the file and then writes its pid to it; one that meets the file *)
(* reads it and, if it takes the lock for stale, removes it and begins     *)
(* anew; the file is removed when its holder ends well, and stays when the *)
(* holder is killed or exits through the watchdog of an attempt.  A batch  *)
(* takes no lock and starts its cases with QUORP_BENCHMARK_SKIP_LOCK set,  *)
(* so that a case runs without the lock, whoever holds it.                 *)
(***************************************************************************)
EXTENDS FiniteSets

CONSTANTS Processes,  \* each tries once to run a benchmark
          BatchCases, \* those of them that a batch has started
          NoLock      \* there is no file

ASSUME LockAssumption == NoLock \notin [owner : Processes, written : BOOLEAN]

VARIABLES
    lock,      \* the file: whose it is, and whether its pid is in it
    status,    \* what a process does
    seen,      \* what it has read of the file it met
    stolen     \* history: a file was removed that was still being written, or was not the one read

lockVars == <<lock, status, seen, stolen>>

Locks == [owner : Processes, written : BOOLEAN]
Steps == {"idle", "writing", "holding", "unlocked", "met", "removing", "refused", "done", "dead"}

LockInit ==
    /\ lock = NoLock
    /\ status = [p \in Processes |-> "idle"]
    /\ seen = [p \in Processes |-> NoLock]
    /\ stolen = FALSE

-----------------------------------------------------------------------------
(* acquire, acquire_at *)

SkipLock(p) ==
    /\ status[p] = "idle" /\ p \in BatchCases
    /\ status' = [status EXCEPT ![p] = "unlocked"]
    /\ UNCHANGED <<lock, seen, stolen>>

Acquiring(p) == status[p] = "idle" /\ p \notin BatchCases

CreateLock(p) ==
    /\ Acquiring(p) /\ lock = NoLock
    /\ lock' = [owner |-> p, written |-> FALSE]
    /\ status' = [status EXCEPT ![p] = "writing"]
    /\ UNCHANGED <<seen, stolen>>

\* What is written goes to the file that was created, whether it still has its name or not.
WriteLock(p) ==
    /\ status[p] = "writing"
    /\ lock' = IF lock = [owner |-> p, written |-> FALSE] THEN [lock EXCEPT !.written = TRUE] ELSE lock
    /\ status' = [status EXCEPT ![p] = "holding"]
    /\ UNCHANGED <<seen, stolen>>

MeetLock(p) ==
    /\ Acquiring(p) /\ lock # NoLock
    /\ status' = [status EXCEPT ![p] = "met"]
    /\ UNCHANGED <<lock, seen, stolen>>

Alive(p) == status[p] \notin {"done", "dead"}

\* lock_is_stale: the file cannot be read, has no pid in it, or the process is gone.
Stale(file) == file = NoLock \/ ~file.written \/ ~Alive(file.owner)

ReadLock(p) ==
    /\ status[p] = "met"
    /\ seen' = [seen EXCEPT ![p] = lock]
    /\ status' = [status EXCEPT ![p] = IF Stale(lock) THEN "removing" ELSE "refused"]
    /\ UNCHANGED <<lock, stolen>>

\* Whatever has the name by now is removed; an error when nothing has.
RemoveLock(p) ==
    /\ status[p] = "removing"
    /\ lock' = NoLock
    /\ status' = [status EXCEPT ![p] = IF lock = NoLock THEN "refused" ELSE "idle"]
    /\ stolen' = \/ stolen
                 \/ lock # NoLock /\ lock # seen[p]
                 \/ lock # NoLock /\ ~lock.written /\ Alive(lock.owner)
    /\ UNCHANGED seen

-----------------------------------------------------------------------------
(* The run ends *)

\* Fault for ReleaseLock: a run that never took the lock removes the file as well.
ReleaseAnyLock(p) ==
    /\ status[p] \in {"holding", "unlocked"}
    /\ lock' = NoLock
    /\ status' = [status EXCEPT ![p] = "done"]
    /\ UNCHANGED <<seen, stolen>>

ReleaseLock(p) ==
    /\ status[p] \in {"holding", "unlocked"}
    /\ lock' = IF status[p] = "holding" THEN NoLock ELSE lock
    /\ status' = [status EXCEPT ![p] = "done"]
    /\ UNCHANGED <<seen, stolen>>

\* Killed, or the pid cannot be written: the file stays.
Die(p) ==
    /\ status[p] \notin {"refused", "done", "dead"}
    /\ status' = [status EXCEPT ![p] = "dead"]
    /\ UNCHANGED <<lock, seen, stolen>>

LockNext ==
    \E p \in Processes :
        \/ SkipLock(p) \/ CreateLock(p) \/ WriteLock(p) \/ MeetLock(p) \/ ReadLock(p) \/ RemoveLock(p)
        \/ ReleaseLock(p) \/ Die(p)

LockSpec == LockInit /\ [][LockNext]_lockVars

-----------------------------------------------------------------------------
\* Every variable keeps its type.
LockTypeOK ==
    /\ lock \in Locks \cup {NoLock}
    /\ status \in [Processes -> Steps]
    /\ seen \in [Processes -> Locks \cup {NoLock}]
    /\ stolen \in BOOLEAN

\* Benchmarks that take the lock run one at a time, and the lock of the one that runs is there
\* whatever else ends meanwhile, for as long as no starter has removed a lock that was still being
\* written, or another one than it had read.  It is not said of the cases of batches: they take
\* no lock, so that two batches, or a batch and a benchmark, do run at once.
LockExclusive ==
    ~stolen => \A p \in Processes :
                 status[p] = "holding" => /\ lock = [owner |-> p, written |-> TRUE]
                                          /\ \A r \in Processes \ {p} : status[r] # "holding"
=============================================================================
