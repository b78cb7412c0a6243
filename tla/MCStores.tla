------------------------------ MODULE MCStores -----------------------------
(* Whoever keeps something in files, for TLC: the diff applier of the desktop core, the memory   *)
(* of a workspace with the rule forge of a run, the validation of what an agent has done, and    *)
(* the attempts, the batch and the lock of benchmarks; and with them the repair of a benchmark   *)
(* case, the runs that share one worktree and its stash, the index of a workspace, the attempts  *)
(* of quorp run, and the log file.  They share no state, so a behaviour is one of one part: the  *)
(* others stay in their initial states, or in one of them.                                       *)
(* The life of a rule is a part of its own, since nothing but tests drives it yet.               *)
EXTENDS DiffApplier, RunMemory, Validation, BenchmarkAttempts, BenchmarkBatch, BenchmarkLock, CaseRepair, SharedStash,
        ContextIndex, RetriedRun, LogFile

CONSTANTS p, q, x, header, mismatch, fmt, test, code, spec, toml, r1, o1

VARIABLE part

\* Texts with and without a last line that matches, for a file that is edited, and another.
MCOriginals == {[f \in {p, q} |-> IF f = p THEN a ELSE b] :
                   a \in {<<>>, <<x>>, <<x, Blank>>, <<x, Dashed>>, Missing}, b \in {<<x>>, Missing}}

\* The text of one line names the other file.
MCNaming == [line \in {header} |-> q]

MCLines == {Context(x), Context(Blank), Delete(x), Delete(Dashed), Add(x), Add(Blank)}

HunksAt(begins) == {Hunk(n, lines) : n \in begins, lines \in SeqOf(MCLines, 2) \ {<<>>}}

\* Hunks that fit some of the texts.
MCHunks == {<<>>, <<Hunk(1, <<Delete(x), Add(Blank)>>)>>, <<Hunk(1, <<Context(x), Add(x)>>)>>,
            <<Hunk(1, <<Context(x), Delete(Dashed)>>)>>}

\* Hunks with lines that read like headers.
MCMisread == {<<Hunk(1, lines)>> : lines \in SeqOf({Context(x), Add(Plussed), Add(header)}, 2) \ {<<>>}}
             \cup {<<Hunk(1, <<Context(x), Add(header)>>), Hunk(2, <<Add(x)>>)>>}

\* One file with every hunk, one file with two hunks, two files.
MCDiffs ==
    {<<Group(p, "edit", <<h>>)>> : h \in HunksAt(0..3)}
    \cup {<<Group(p, "edit", <<h, Hunk(n, <<line>>)>>)>> : h \in HunksAt({1}), n \in {2, 3}, line \in MCLines}
    \cup {<<Group(p, "edit", h), Group(q, "edit", g)>> : h \in MCHunks, g \in MCHunks}
    \cup {<<Group(p, "edit", h), Group(q, "delete", g)>> : h \in MCHunks, g \in {<<>>, <<Hunk(1, <<Delete(x)>>)>>}}
    \cup {<<Group(q, "new", <<Hunk(0, <<Add(x)>>)>>), Group(p, "edit", g)>> : g \in MCHunks}
    \cup {<<Group(p, op, h), Group(q, "edit", g)>> : op \in {"edit", "new"}, h \in MCMisread, g \in MCHunks}

\* A failure that comes back, and a plan of two commands.
MCEvents == <<mismatch, mismatch>>
MCValidationPlans == {<<fmt>>, <<fmt, test>>}

\* A source file that is owned, one whose test is listed first, a ledger that names no file.
Ledger(owners, touched, narrow) == [owners |-> owners, touched |-> touched, narrow |-> narrow]
MCLedgers == {Ledger(<<code>>, <<toml>>, narrow) : narrow \in BOOLEAN}
           \cup {Ledger(<<spec, code>>, <<>>, FALSE), Ledger(<<>>, <<>>, TRUE), Ledger(<<>>, <<>>, FALSE)}

\* Failures in the source, in its test, of a dependency or a feature, and one that names no file.
Failed(class, path, hint) == [class |-> class, path |-> path, hint |-> hint]
MCFailures == {Failed("source", code, FALSE), Failed("source", spec, FALSE), Failed("source", spec, TRUE),
               Failed("dependency", code, FALSE), Failed("feature", toml, FALSE),
               Failed("timeout", NoPath, FALSE)}

\* One run patches twice, so that its stash has to outlast its own patch.
MCMaxPatches == [w \in Writers \cup {User} |-> IF w = r1 THEN 2 ELSE 1]

-----------------------------------------------------------------------------
diffVars == applyVars
benchmarkVars == <<attemptVars, batchVars, lockVars>>
keptVars == <<diffVars, memoryVars, validationVars, benchmarkVars>>
otherVars == <<indexVars, runVars, logVars>>

MCInit ==
    /\ part \in {"diff", "memory", "rule", "validation", "attempts", "batch", "lock", "repair", "shared",
                 "index", "run", "log"}
    /\ MemoryInit /\ ValidationInit /\ BatchInit /\ LockInit
    /\ AttemptsInit /\ (part # "attempts" => kind = "standard")
    /\ CaseInit /\ (part # "repair" => ledger = Ledger(<<>>, <<>>, TRUE))
    /\ SharedInit /\ IndexInit
    /\ RunInit /\ (part # "run" \/ room # "host" => objective = "plain") /\ (part # "run" => room = "host")
    /\ LogInit /\ (part # "log" => rotates)
    /\ IF part = "diff" THEN ApplyInit
       ELSE /\ files = [f \in Paths |-> Missing] /\ theirs = files /\ read = files
            /\ diff = <<>> /\ git = FALSE /\ progress = "reading" /\ staged = <<>>
            /\ conflicts = 0 /\ written = 0 /\ userEdits = 0

\* Bound: other runs validate while an agent runs, or between commands, and twice where the agent has
\* the last word.  Of two outputs it does not matter which is printed first.
ValidatesInTime ==
    validations' # validations =>
        point \in {"idle", "running"} /\ o1 \in printed' /\ (validations' > 1 => objective = "plain")

\* Bound: where records may be lost already, nobody opens the memory any more.  Either a pass fails, and
\* records a failure once more, or another run records.
OpensInTime == (overwrote \/ raced => UNCHANGED opens) /\ faults' + elsewhere' <= 1

\* Bound: every completion is billed.
BillsInTime == edits' # edits => attempt'[number].spent > attempt[number].spent

KeptNext ==
    \/ part = "diff" /\ ApplyNext /\ UNCHANGED <<memoryVars, validationVars, benchmarkVars>>
    \/ part = "memory" /\ MemoryNext /\ OpensInTime /\ UNCHANGED <<diffVars, validationVars, benchmarkVars>>
    \/ /\ part = "rule" /\ Life
       /\ UNCHANGED <<storeVars, handleVars, consumerVars, faults, elsewhere, historyVars>>
       /\ UNCHANGED <<diffVars, validationVars, benchmarkVars>>
    \/ part = "validation" /\ ValidationNext /\ UNCHANGED <<diffVars, memoryVars, benchmarkVars>>
    \/ /\ part = "attempts" /\ AttemptsNext /\ BillsInTime
       /\ UNCHANGED <<diffVars, memoryVars, validationVars, batchVars, lockVars>>
    \/ /\ part = "batch" /\ BatchNext
       /\ UNCHANGED <<diffVars, memoryVars, validationVars, attemptVars, lockVars>>
    \/ /\ part = "lock" /\ LockNext
       /\ UNCHANGED <<diffVars, memoryVars, validationVars, attemptVars, batchVars>>

MCNext ==
    /\ UNCHANGED part
    /\ \/ KeptNext /\ UNCHANGED <<caseVars, sharedVars, otherVars>>
       \/ part = "repair" /\ CaseNext /\ UNCHANGED <<keptVars, sharedVars, otherVars>>
       \/ part = "shared" /\ SharedNext /\ UNCHANGED <<keptVars, caseVars, otherVars>>
       \/ part = "index" /\ IndexNext /\ UNCHANGED <<keptVars, caseVars, sharedVars, runVars, logVars>>
       \/ /\ part = "run" /\ RunNext /\ ValidatesInTime
          /\ UNCHANGED <<keptVars, caseVars, sharedVars, indexVars, logVars>>
       \/ part = "log" /\ LogNext /\ UNCHANGED <<keptVars, caseVars, sharedVars, indexVars, runVars>>

MCSpec == MCInit /\ [][MCNext]_<<part, keptVars, caseVars, sharedVars, otherVars>>

-----------------------------------------------------------------------------
Of(name, property) == part = name => property

\* Every variable of the stores keeps its type.
StoresTypeOK ==
    /\ Of("diff", ApplyTypeOK) /\ (part \in {"memory", "rule"} => MemoryTypeOK)
    /\ Of("validation", ValidationTypeOK) /\ Of("attempts", AttemptsTypeOK) /\ Of("batch", BatchTypeOK)
    /\ Of("lock", LockTypeOK) /\ Of("repair", CaseTypeOK) /\ Of("shared", SharedTypeOK)
    /\ Of("index", IndexTypeOK) /\ Of("run", RunTypeOK) /\ Of("log", LogTypeOK)

\* A diff is applied in all of its files, and nothing is touched when one of its hunks is refused;
\* the patch of a run adds its edit and changes nothing else of a file that others edit too.
AppliedOrRefused ==
    /\ Of("diff", RefusalChangesNothing /\ AppliedIsTheDiff)
    /\ Of("shared", PatchAddsItsEdit)

\* Candidate rules come only from failures that kept coming back, and rules only from evidence.
RulesFollowFailures == CandidatesFollowFailures /\ RulesEarned

\* A validation is passed by what was verified, a failed one says what became of the edits, and
\* a benchmark case is not called done while its fast loop still fails; what a validation let
\* pass or rolled back stays so, and what none has judged can be rolled back.
VerdictsExplained ==
    /\ Of("validation", PassIsCurrent /\ FailureIsExplained)
    /\ Of("repair", SuccessWasRerun)
    /\ Of("shared", UnjudgedIsStashed /\ VerdictsLast)

\* The phase of a repair and the case ledger agree, and a repair gets stuck in known ways only.
RepairKeepsMoving == Of("repair", PhaseFollowsLedger /\ StuckOnlyAsKnown)

\* What the reports of an attempt, a benchmark and a batch tell is so; so is what the events and
\* the receipt of a run tell, and what the index of a workspace quotes when it says it is fresh.
\* The log keeps the lines that were written last, and stays small.
ReportsTruthful ==
    /\ Of("attempts", AttemptReportsTruthful) /\ Of("batch", SummaryIsTruthful)
    /\ Of("run", TrailFollowsLedger /\ EffectsOnce /\ StuckAsKnown /\ PassIsDeserved /\ ReceiptStands)
    /\ Of("index", FreshIsCurrent /\ BuildRepairs)
    /\ Of("log", RecentLinesKept /\ LogBounded)
=============================================================================
