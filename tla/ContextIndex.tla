---------------------------- MODULE ContextIndex ----------------------------
(***************************************************************************)
(* The index of a workspace (.quorp/index/index.sqlite): build_index reads *)
(* the files and commits what changed, the context compiler asks whether   *)
(* the index is fresh and, when it is, quotes it.  A build reads a file,   *)
(* then asks for its modification time; freshness is the modification      *)
(* time alone, in milliseconds.                                            *)
(*                                                                         *)
(* Processes build, and the user edits, at any time.  The database is      *)
(* external: one writer at a time, a commit is one step, and what a killed *)
(* process has not committed is gone.  All the rows of a file (chunks,     *)
(* symbols, imports, tests) are of the text that its record hashes, so the *)
(* record stands for them.  Which files are indexed at all is left out.    *)
(***************************************************************************)
EXTENDS Integers, FiniteSets

CONSTANTS SourceFiles,
          Builders,       \* processes that build
          NoRecord,       \* of a file that the index does not know, or that is not there
          MaxTexts,       \* bound: texts that the user writes
          MaxMillis       \* bound: milliseconds that pass

ASSUME IndexAssumption == {MaxTexts, MaxMillis} \subseteq Nat

Records == [text : 0..MaxTexts, modified : 0..MaxMillis]

VARIABLES
    disk,      \* disk[f]: what file f is, a record or NoRecord
    millis,    \* the clock
    texts,     \* texts written so far
    rows,      \* rows[f]: the row of f in files, and so its chunks and symbols
    writer,    \* the builder that holds the database's write lock, or NoRecord
    build,     \* build[b]: "idle", "loaded", "reading", "dating", "storing", "done" or "failed"
    existing,  \* existing[b]: the records it has loaded
    listed,    \* listed[b]: the files its scan has found
    todo,      \* todo[b]: those it has still to read
    entry,     \* entry[b]: the record it makes of the file it is at: [file, text, modified]
    changes,   \* changes[b]: what its transaction has written
    reader,    \* the context compiler: "idle", "checking", "fresh", "stale" or "quoted"
    loaded,    \* the records it compares
    quoted,    \* what it quotes
    alone,     \* history: builders that no edit and no other commit has disturbed
    quiet,     \* history: whether nothing was edited or committed since the reader loaded
    misdated   \* history: files whose record, or whose new text, has the time of another text

buildVars == <<build, existing, listed, todo, entry, changes>>
readerVars == <<reader, loaded, quoted>>
indexVars == <<disk, millis, texts, rows, writer, buildVars, readerVars, alone, quiet, misdated>>

Nothing == [f \in SourceFiles |-> NoRecord]
Present(records) == {f \in SourceFiles : records[f] # NoRecord}

IndexInit ==
    /\ disk = [f \in SourceFiles |-> [text |-> 0, modified |-> 0]] /\ millis = 0 /\ texts = 0
    /\ rows = Nothing /\ writer = NoRecord
    /\ build = [b \in Builders |-> "idle"] /\ existing = [b \in Builders |-> Nothing]
    /\ listed = [b \in Builders |-> {}] /\ todo = listed
    /\ entry = [b \in Builders |-> NoRecord] /\ changes = [b \in Builders |-> <<>>]
    /\ reader = "idle" /\ loaded = Nothing /\ quoted = Nothing
    /\ alone = {} /\ quiet = FALSE /\ misdated = {}

-----------------------------------------------------------------------------
(* The user *)

Disturb == alone' = {} /\ quiet' = FALSE

\* Two texts of one millisecond have the same time.
EditSource(f) ==
    /\ texts < MaxTexts /\ texts' = texts + 1
    /\ disk' = [disk EXCEPT ![f] = [text |-> texts', modified |-> millis]]
    /\ misdated' = IF disk[f] # NoRecord /\ disk[f].modified = millis THEN misdated \cup {f} ELSE misdated
    /\ Disturb
    /\ UNCHANGED <<millis, rows, writer, buildVars, readerVars>>

RemoveSource(f) ==
    /\ disk[f] # NoRecord /\ texts < MaxTexts /\ texts' = texts + 1
    /\ disk' = [disk EXCEPT ![f] = NoRecord]
    /\ misdated' = IF disk[f].modified = millis THEN misdated \cup {f} ELSE misdated
    /\ Disturb
    /\ UNCHANGED <<millis, rows, writer, buildVars, readerVars>>

MilliPasses ==
    /\ millis < MaxMillis /\ millis' = millis + 1
    /\ UNCHANGED <<disk, texts, rows, writer, buildVars, readerVars, alone, quiet, misdated>>

-----------------------------------------------------------------------------
(* build_index *)

\* Its locals go with it.
BuildOver(b, state) ==
    /\ build' = [build EXCEPT ![b] = state] /\ existing' = [existing EXCEPT ![b] = Nothing]
    /\ listed' = [listed EXCEPT ![b] = {}] /\ todo' = [todo EXCEPT ![b] = {}]
    /\ entry' = [entry EXCEPT ![b] = NoRecord] /\ changes' = [changes EXCEPT ![b] = <<>>]

BuildGoes(b, state) == build' = [build EXCEPT ![b] = state]
Undisturbed == <<disk, millis, texts, readerVars, quiet>>

\* Before the transaction begins.
LoadRecords(b) ==
    /\ build[b] = "idle"
    /\ BuildGoes(b, "loaded") /\ existing' = [existing EXCEPT ![b] = rows]
    /\ alone' = alone \cup {b}
    /\ UNCHANGED <<rows, writer, listed, todo, entry, changes, misdated, Undisturbed>>

ScanFiles(b) ==
    /\ build[b] = "loaded"
    /\ BuildGoes(b, "reading")
    /\ listed' = [listed EXCEPT ![b] = Present(disk)] /\ todo' = [todo EXCEPT ![b] = Present(disk)]
    /\ UNCHANGED <<rows, writer, existing, entry, changes, alone, misdated, Undisturbed>>

\* The transaction is rolled back: a file that is gone, a database that stays locked, a kill.
BuildFails(b) ==
    /\ build[b] \notin {"idle", "done", "failed"}
    /\ BuildOver(b, "failed")
    /\ writer' = IF writer = b THEN NoRecord ELSE writer
    /\ UNCHANGED <<rows, alone, misdated, Undisturbed>>

ReadSource(b, f) ==
    /\ build[b] = "reading" /\ f \in todo[b] /\ disk[f] # NoRecord
    /\ BuildGoes(b, "dating")
    /\ entry' = [entry EXCEPT ![b] = [file |-> f, text |-> disk[f].text, modified |-> 0]]
    /\ UNCHANGED <<rows, writer, existing, listed, todo, changes, alone, misdated, Undisturbed>>

\* Fault for SameRecord: the time alone says that a file is unchanged.
SameRecordByTime(known, text, modified) == known # NoRecord /\ known.modified = modified

SameRecord(known, text, modified) == known = [text |-> text, modified |-> modified]

\* The time is that of the file as it is now.
DateSource(b) ==
    /\ build[b] = "dating"
    /\ LET f == entry[b].file IN
       /\ disk[f] # NoRecord
       /\ entry' = [entry EXCEPT ![b].modified = disk[f].modified]
       /\ misdated' = IF disk[f].text # entry[b].text THEN misdated \cup {f} ELSE misdated
       /\ todo' = [todo EXCEPT ![b] = @ \ {f}]
       /\ BuildGoes(b, IF SameRecord(existing[b][f], entry[b].text, disk[f].modified) THEN "reading" ELSE "storing")
    /\ UNCHANGED <<rows, writer, existing, listed, changes, alone, Undisturbed>>

MayWrite(b) == writer \in {NoRecord, b}

\* The first write takes the lock, or waits for it.
StoreRecord(b) ==
    /\ build[b] = "storing" /\ MayWrite(b)
    /\ writer' = b /\ BuildGoes(b, "reading")
    /\ changes' = [changes EXCEPT ![b] =
                       [f \in DOMAIN changes[b] \cup {entry[b].file} |->
                            IF f = entry[b].file THEN [text |-> entry[b].text, modified |-> entry[b].modified]
                            ELSE changes[b][f]]]
    /\ UNCHANGED <<rows, existing, listed, todo, entry, alone, misdated, Undisturbed>>

\* Rows of files that were known and that the scan has not found go, the others are overlaid.
CommitBuild(b) ==
    /\ build[b] = "reading" /\ todo[b] = {} /\ MayWrite(b)
    /\ rows' = [f \in SourceFiles |->
                    IF f \in DOMAIN changes[b] THEN changes[b][f]
                      ELSE IF f \in Present(existing[b]) \ listed[b] THEN NoRecord
                      ELSE rows[f]]
    /\ writer' = NoRecord /\ BuildOver(b, "done")
    /\ alone' = alone \cap {b} /\ quiet' = FALSE
    /\ UNCHANGED <<disk, millis, texts, readerVars, misdated>>

BuilderSteps(b) ==
    \/ LoadRecords(b) \/ ScanFiles(b) \/ BuildFails(b) \/ DateSource(b) \/ StoreRecord(b) \/ CommitBuild(b)
    \/ \E f \in SourceFiles : ReadSource(b, f)

-----------------------------------------------------------------------------
(* The context compiler: open_if_fresh, then lexical_excerpts *)

BeginCheck ==
    /\ reader = "idle" /\ reader' = "checking" /\ loaded' = rows /\ quiet' = TRUE
    /\ UNCHANGED <<disk, millis, texts, rows, writer, buildVars, quoted, alone, misdated>>

\* Fault for StaleFiles: a file that the index does not know is not looked for.
StaleFilesKnown(records) == {f \in Present(records) : disk[f] = NoRecord \/ disk[f].modified # records[f].modified}

StaleFiles(records) ==
    {f \in Present(disk) : records[f] = NoRecord \/ records[f].modified # disk[f].modified}
    \cup (Present(records) \ Present(disk))

\* That there is no database reads as one without rows.
CheckFresh ==
    /\ reader = "checking"
    /\ reader' = IF StaleFiles(loaded) = {} THEN "fresh" ELSE "stale"
    /\ loaded' = Nothing
    /\ UNCHANGED <<disk, millis, texts, rows, writer, buildVars, quoted, alone, quiet, misdated>>

\* Another connection: what is committed by now.
QuoteIndex ==
    /\ reader = "fresh" /\ reader' = "quoted" /\ quoted' = rows
    /\ UNCHANGED <<disk, millis, texts, rows, writer, buildVars, loaded, alone, quiet, misdated>>

IndexNext ==
    \/ \E f \in SourceFiles : EditSource(f) \/ RemoveSource(f)
    \/ \E b \in Builders : BuilderSteps(b)
    \/ MilliPasses \/ BeginCheck \/ CheckFresh \/ QuoteIndex

IndexSpec == IndexInit /\ [][IndexNext]_indexVars

-----------------------------------------------------------------------------
(* Properties *)

IndexTypeOK ==
    /\ disk \in [SourceFiles -> Records \cup {NoRecord}] /\ rows \in [SourceFiles -> Records \cup {NoRecord}]
    /\ millis \in 0..MaxMillis /\ texts \in 0..MaxTexts /\ writer \in Builders \cup {NoRecord}
    /\ build \in [Builders -> {"idle", "loaded", "reading", "dating", "storing", "done", "failed"}]
    /\ \A b \in Builders : todo[b] \subseteq listed[b] /\ listed[b] \subseteq SourceFiles
    /\ reader \in {"idle", "checking", "fresh", "stale", "quoted"} /\ misdated \subseteq SourceFiles
    /\ alone \subseteq Builders /\ quiet \in BOOLEAN

\* What the context compiler quotes from an index that passed as fresh, with nothing edited and
\* nothing committed since, is what the files say: all of them, and no file that is gone.  The
\* exceptions are files one of whose texts has the time of another: written in the same millisecond,
\* or edited between the moments in which a build read its text and its time.
FreshIsCurrent ==
    reader = "quoted" /\ quiet =>
        \A f \in SourceFiles \ misdated : quoted[f] = disk[f]

\* A build that no edit and no other build disturbed leaves the index as the files are, also after
\* builds that failed, were overtaken or misdated a file.
BuildRepairs ==
    \A b \in alone : build[b] = "done" => \A f \in SourceFiles : rows[f] = disk[f]
=============================================================================
