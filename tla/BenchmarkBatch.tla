---------------------------- MODULE BenchmarkBatch -------------------------
(***************************************************************************)
(* A batch of benchmark cases: each case is run by a process of its own in *)
(* a result directory of its own, the report that process leaves is read,  *)
(* a case whose model did not manage the native tool calls before it wrote *)
(* anything is run once more with JSON actions, in a second directory, and *)
(* what came of it is listed in the summary of the batch.  A batch that    *)
(* ended in any way may be begun again, over what the first one left.      *)
(***************************************************************************)
EXTENDS Integers, Sequences

CONSTANTS CaseCount,   \* cases under the root, in the order of their names
          SchemaLimit, \* schema failures after which cases begin with JSON actions; 2 in the code
          NoReport, Illegible,
          MaxBatches   \* bound: batches begun in the directory

ASSUME BatchAssumption ==
    /\ {CaseCount, SchemaLimit, MaxBatches} \subseteq Nat
    /\ NoReport # Illegible

Cases == 1..CaseCount
Places == Cases \X {"first", "retry"}

\* How a case may fail: "contract" is the model's failure with the action contract before any write,
\* "schema" one with the schema of the tools after it.
Outcomes == {"passed", "failed", "contract", "schema"}
Reports == [outcome : Outcomes, native : BOOLEAN, batch : 1..MaxBatches]
Entries == [case : Cases, success : BOOLEAN, place : Places]

VARIABLES
    results,  \* results[p]: benchmark-report.json of a case or of its retry
    summary,  \* batch-report.json: the entries, or NoReport or Illegible
    step,     \* what the batch does: "off", "case", "child", "retry", "synthesis", "listing"
    case,     \* the case it is at
    entries,  \* batch_cases
    failures, \* native_schema_failure_count
    found,    \* report_summary
    chosen,   \* selected_result_dir
    batch     \* the number of the batch

batchVars == <<results, summary, step, case, entries, failures, found, chosen, batch>>

BatchInit ==
    /\ results = [p \in Places |-> NoReport]
    /\ summary = NoReport
    /\ step = "off" /\ case = 1 /\ entries = <<>> /\ failures = 0
    /\ found = NoReport /\ chosen = <<1, "first">> /\ batch = 0

-----------------------------------------------------------------------------
Legible(r) == r \notin {NoReport, Illegible}

\* The summary of an earlier batch gives way to an empty one before anything is cleared.
BatchBegins ==
    /\ step = "off" /\ batch < MaxBatches /\ CaseCount > 0
    /\ batch' = batch + 1
    /\ summary' = <<>> /\ entries' = <<>>
    /\ step' = "case" /\ case' = 1 /\ failures' = 0
    /\ found' = NoReport /\ chosen' = <<1, "first">>
    /\ UNCHANGED results

\* Fault for Clear: only the directory of the first run is cleared.
ClearFirst(p) == IF p[2] = "first" THEN [results EXCEPT ![p] = NoReport] ELSE results

\* A directory that is there from an earlier batch is removed with all that is in it.
Clear(p) == [results EXCEPT ![p] = NoReport]

TakeCase ==
    /\ step = "case" /\ case \in Cases
    /\ results' = Clear(<<case, "first">>)
    /\ chosen' = <<case, "first">> /\ found' = NoReport
    /\ step' = "child"
    /\ UNCHANGED <<summary, case, entries, failures, batch>>

\* What a process may leave: what is there when it cannot be launched or ends without a report.
Left(native) ==
    {results[chosen], Illegible} \cup {[outcome |-> o, native |-> native, batch |-> batch] : o \in Outcomes}

Retried(r) == Legible(r) /\ r.native /\ r.outcome = "contract"
Counted(r) == Legible(r) /\ r.native /\ r.outcome \in {"contract", "schema"}

RunCase ==
    /\ step = "child"
    /\ \E r \in Left(failures < SchemaLimit) :
          /\ results' = [results EXCEPT ![chosen] = r]
          /\ found' = IF Legible(r) THEN r ELSE NoReport
          /\ failures' = IF Counted(r) THEN failures + 1 ELSE failures
          /\ step' = IF Retried(r) THEN "retry" ELSE IF Legible(r) THEN "listing" ELSE "synthesis"
    /\ UNCHANGED <<summary, case, entries, chosen, batch>>

PrepareRetry ==
    /\ step = "retry" /\ chosen = <<case, "first">>
    /\ chosen' = <<case, "retry">>
    /\ results' = Clear(<<case, "retry">>)
    /\ UNCHANGED <<summary, step, case, entries, failures, found, batch>>

\* A retry that leaves no report that can be read leaves the one of the first run to be listed.
RetryCase ==
    /\ step = "retry" /\ chosen = <<case, "retry">>
    /\ \E r \in Left(FALSE) :
          /\ results' = [results EXCEPT ![chosen] = r]
          /\ found' = IF Legible(r) THEN r ELSE found
    /\ step' = "listing"
    /\ UNCHANGED <<summary, case, entries, failures, chosen, batch>>

\* write_synthetic_failure_report: a report of a failure, unless it cannot be written either.
Synthesize ==
    /\ step = "synthesis"
    /\ \E r \in {results[chosen], [outcome |-> "failed", native |-> FALSE, batch |-> batch]} :
          /\ results' = [results EXCEPT ![chosen] = r]
          /\ found' = IF Legible(r) THEN r ELSE NoReport
    /\ step' = "listing"
    /\ UNCHANGED <<summary, case, entries, failures, chosen, batch>>

\* A case without a report is listed as one that was not launched.
ListCase ==
    /\ step = "listing"
    /\ LET entry == [case |-> case, place |-> chosen, success |-> Legible(found) /\ found.outcome = "passed"] IN
       /\ entries' = Append(entries, entry)
       /\ summary' = Append(entries, entry)
    /\ IF case < CaseCount THEN step' = "case" /\ case' = case + 1 ELSE step' = "off" /\ UNCHANGED case
    /\ UNCHANGED <<results, failures, found, chosen, batch>>

\* Any error of the batch's own ends it, a case that cannot be read among them; or it is killed.
BatchEnds ==
    /\ step # "off"
    /\ step' = "off"
    /\ summary' \in {summary, IF step = "listing" THEN Illegible ELSE summary}
    /\ UNCHANGED <<results, case, entries, failures, found, chosen, batch>>

BatchNext ==
    BatchBegins \/ TakeCase \/ RunCase \/ PrepareRetry \/ RetryCase \/ Synthesize \/ ListCase \/ BatchEnds

BatchSpec == BatchInit /\ [][BatchNext]_batchVars

-----------------------------------------------------------------------------
\* Every variable keeps its type.
BatchTypeOK ==
    /\ results \in [Places -> Reports \cup {NoReport, Illegible}]
    /\ summary \in {NoReport, Illegible} \/ summary \in Seq(Entries)
    /\ step \in {"off", "case", "child", "retry", "synthesis", "listing"}
    /\ case \in 1..(CaseCount + 1) /\ entries \in Seq(Entries)
    /\ failures \in 0..CaseCount
    /\ found \in Reports \cup {NoReport} /\ chosen \in {<<1, "first">>} \cup Places
    /\ batch \in 0..MaxBatches

\* The summary lists the first cases, each once and in order, and each as the success or failure
\* that the report in its directory tells of, one that a process of this batch has written.
SummaryIsTruthful ==
    Legible(summary) =>
        \A j \in DOMAIN summary :
            LET there == results[summary[j].place] IN
            /\ summary[j].case = j /\ summary[j].place[1] = j
            /\ Legible(there) => there.batch = batch
            /\ summary[j].success <=> Legible(there) /\ there.outcome = "passed"
=============================================================================
