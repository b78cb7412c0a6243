------------------------- MODULE BenchmarkAttempts -------------------------
(***************************************************************************)
(* The attempts of one benchmark in its result directory: "benchmark run"  *)
(* lets an agent work on a workspace, has the result judged, saves the     *)
(* attempt and the report, and tries again until an attempt passes, the    *)
(* attempts or the tokens are spent; "benchmark resume" goes on in the     *)
(* directory of a process that has ended in any way, at any step.  One     *)
(* process at a time works on the directory.                               *)
(*                                                                         *)
(* A standard benchmark copies the workspace anew for each attempt.  The   *)
(* attempts of a challenge share its sandbox, which is reset between them; *)
(* but a resume takes every benchmark for a standard one.  A workspace is  *)
(* the number of its last edit.  The agent is AgentRun's; here it takes    *)
(* turns, each with one edit and for any number of tokens, and ends.  The  *)
(* watchdog of an attempt is a thread of its own.                          *)
(***************************************************************************)
EXTENDS Integers, Sequences, FiniteSets, SequencesExt

CONSTANTS MaxAttempts, \* max_attempts of the manifest
          Budget,      \* max_total_tokens
          MaxBill,     \* bound: tokens of a completion
          NoFile, Torn,
          MaxEdits,    \* bound: turns of agents
          MaxStarts    \* bound: processes

ASSUME AttemptsAssumption ==
    /\ {MaxAttempts, Budget, MaxBill, MaxEdits, MaxStarts} \subseteq Nat
    /\ MaxAttempts > 0
    /\ NoFile # Torn

Attempts == 1..MaxAttempts
Sandbox == 0

VARIABLES
    kind,     \* "standard", "unscored" (a standard one without evaluators) or "challenge"
    limit,    \* max_attempts: of a challenge 0 means no limit
    manifest, \* benchmark-manifest.json
    attempt,  \* attempt[i]: the directory attempt-00i
    tree,     \* tree[w]: the last edit in the workspace of an attempt, or in the sandbox
    sandbox,  \* whether there is one
    report,   \* benchmark-report.json
    pc,       \* what the process does: "off", "preparing", "next", "agent", "judging", "saving", ...
    course,   \* the loop it is in: that of "standard" or "challenge" benchmarks
    number,   \* the attempt it works on
    attempts, \* the attempts it knows of
    resumed,  \* the attempt whose agent it has resumed, or 0
    asked,    \* whether the agent has asked its model
    watchdog, \* of the attempt: "watching", "saving" or "reporting"
    edits, starts,
    reran,    \* history: whether a run was begun in a directory that had attempts
    unsaved,  \* history: attempts whose judgement after a resume went with its process, or whose
              \* agent went on while its watchdog gave it up
    dirty,    \* history: whether an attempt has begun since the report was written
    resumes   \* history: agents resumed

diskVariables == <<manifest, attempt, tree, sandbox, report>>
processVariables == <<pc, course, number, attempts, resumed, asked, watchdog>>
attemptVars == <<kind, limit, diskVariables, processVariables, edits, starts, reran, unsaved, dirty, resumes>>

\* What is in the directory of an attempt; agent/ has the request, the checkpoint and the summary.
NoAttempt == [dir |-> FALSE, allowed |-> 0, place |-> Sandbox, spent |-> 0,
              checkpoint |-> NoFile, summary |-> NoFile, saved |-> NoFile]

Kinds == {"standard", "unscored", "challenge"}

\* The loop of "benchmark run".
Course == IF kind = "challenge" THEN "challenge" ELSE "standard"

AttemptsInit ==
    /\ kind \in Kinds
    /\ limit \in IF kind = "challenge" THEN {0, MaxAttempts} ELSE {MaxAttempts}
    /\ manifest = NoFile /\ report = NoFile
    /\ attempt = [i \in Attempts |-> NoAttempt]
    /\ tree = [w \in Attempts \cup {Sandbox} |-> 0]
    /\ sandbox = FALSE
    /\ pc = "off" /\ course = Course /\ number = 1 /\ attempts = <<>>
    /\ resumed = 0 /\ asked = FALSE /\ watchdog = "watching"
    /\ edits = 0 /\ starts = 0
    /\ reran = FALSE /\ unsaved = {} /\ dirty = FALSE /\ resumes = 0

-----------------------------------------------------------------------------
(* Reports *)

\* What an attempt's report says: the stop reason of its agent, the verdict of the evaluators and
\* the judge, what they looked at, and the tokens.
JudgedAs(stop, verdict) ==
    [number |-> number, stop |-> stop, verdict |-> verdict, place |-> attempt[number].place,
     edit |-> tree[attempt[number].place], tokens |-> attempt[number].spent]

AttemptPassed(a) == (a.stop = "success" \/ a.verdict = "passed") /\ a.verdict # "failed"

\* The standard loop does not stop for an attempt that passed although its agent did not succeed.
StopsAfter(a) == IF course = "challenge" THEN AttemptPassed(a) ELSE a.stop = "success" /\ a.verdict # "failed"

Report(known, error) == [attempts |-> known, error |-> error]
Readable(file) == file \notin {NoFile, Torn}
Success(r) == r.attempts # <<>> /\ AttemptPassed(Last(r.attempts))

Tokens(known) ==
    LET sum[n \in 0..Len(known)] == IF n = 0 THEN 0 ELSE sum[n - 1] + known[n].tokens
    IN sum[Len(known)]

\* load_existing_attempts
SavedUpTo(held) ==
    LET upto[n \in 0..MaxAttempts] ==
            IF n = 0 THEN <<>>
            ELSE IF Readable(held[n].saved) THEN Append(upto[n - 1], held[n].saved) ELSE upto[n - 1]
    IN upto

Saved == SavedUpTo(attempt)[MaxAttempts]
LoadFails == \E i \in Attempts : attempt[i].saved = Torn

\* Fault for Directories: directories of attempts that were never saved do not count.
DirectoriesSaved == Len(Saved)

\* discover_completed_attempts
Directories == Cardinality({i \in Attempts : attempt[i].dir})

-----------------------------------------------------------------------------
(* Processes begin and end *)

Begins == pc = "off" /\ starts < MaxStarts /\ starts' = starts + 1

Ends ==
    /\ pc' = "off"
    /\ attempts' = <<>> /\ number' = 1 /\ resumed' = 0 /\ asked' = FALSE /\ course' = Course
    /\ watchdog' = "watching"
    /\ unsaved' = IF resumed = 0 THEN unsaved ELSE unsaved \cup {resumed}
    /\ UNCHANGED <<kind, limit, edits, starts, reran, resumes>>

\* The sandbox of a challenge is rebuilt whatever is in the directory; the manifest is written.
RunBegins ==
    /\ Begins
    /\ pc' = "preparing"
    /\ reran' = (reran \/ \E i \in Attempts : attempt[i].dir)
    /\ sandbox' = (kind = "challenge")
    /\ tree' = [tree EXCEPT ![Sandbox] = 0]
    /\ course' = Course
    /\ UNCHANGED <<kind, limit, manifest, attempt, report, number, attempts, resumed, asked, watchdog,
                   edits, unsaved, dirty, resumes>>

\* Before any attempt: the sandbox cannot be made or reset, or a saved attempt does not parse.
RunFails ==
    /\ pc = "preparing"
    /\ \/ kind = "challenge" /\ report' = Report(<<>>, TRUE)
       \/ kind # "challenge" /\ LoadFails /\ UNCHANGED report
    /\ manifest' \in {manifest, "written"}
    /\ Ends
    /\ UNCHANGED <<attempt, tree, sandbox, dirty>>

RunStarts ==
    /\ pc = "preparing" /\ (kind # "challenge" => ~LoadFails)
    /\ manifest' = "written"
    /\ pc' = "next" /\ number' = 1
    /\ attempts' = IF kind = "challenge" THEN <<>> ELSE Saved
    /\ UNCHANGED <<kind, limit, attempt, tree, sandbox, report, course, resumed, asked, watchdog, edits, starts,
                   reran, unsaved, dirty, resumes>>

Previous == attempt[Directories]
HasAgent == Directories > 0 /\ Previous.checkpoint # NoFile /\ Previous.summary # NoFile

\* The agent of the last attempt had succeeded: nothing is done, whether it was judged or not.
ResumeIsDone ==
    /\ Begins /\ manifest = "written" /\ HasAgent /\ Previous.summary = "success"
    /\ UNCHANGED <<kind, limit, diskVariables, processVariables, edits, reran, unsaved, dirty, resumes>>

\* It had not: the agent is resumed, in the workspace that its request names.
ResumeAgent ==
    /\ Begins /\ manifest = "written" /\ HasAgent
    /\ Previous.summary # "success" /\ Previous.checkpoint # Torn
    /\ pc' = "agent" /\ course' = "standard"
    /\ number' = Directories /\ resumed' = Directories
    /\ asked' = FALSE
    /\ dirty' = TRUE
    /\ resumes' = resumes + 1
    /\ UNCHANGED <<kind, limit, diskVariables, attempts, watchdog, edits, reran, unsaved>>

\* An attempt that was cut off is given up for the next one.
ResumeStarts ==
    /\ Begins /\ manifest = "written" /\ ~HasAgent /\ ~LoadFails
    /\ pc' = "next" /\ course' = "standard"
    /\ number' = Directories + 1
    /\ attempts' = Saved
    /\ UNCHANGED <<kind, limit, diskVariables, resumed, asked, watchdog, edits, reran, unsaved, dirty, resumes>>

-----------------------------------------------------------------------------
(* An attempt *)

Unlimited == course = "challenge" /\ limit = 0

\* Fault for Exhausted: a budget that is overdrawn is not spent.
ExhaustedExactly == Tokens(attempts) = Budget

Exhausted == Tokens(attempts) >= Budget

NoMoreAttempts ==
    /\ pc = "next" /\ ((number > limit /\ ~Unlimited) \/ Exhausted)
    /\ pc' = "final"
    /\ UNCHANGED <<kind, limit, diskVariables, course, number, attempts, resumed, asked, watchdog, edits, starts,
                   reran, unsaved, dirty, resumes>>

Another == pc = "next" /\ number \in Attempts /\ (number <= limit \/ Unlimited) /\ ~Exhausted

\* What a workspace of its own begins with.
Fresh == IF kind = "challenge" THEN tree[Sandbox] ELSE 0

\* The sandbox is reset for all attempts but the first; a copy of it is not.
Workspace ==
    IF course = "challenge" THEN [tree EXCEPT ![Sandbox] = IF number = 1 THEN @ ELSE 0]
    ELSE [tree EXCEPT ![number] = Fresh]

\* The files of an agent that was there before stay until they are written again.
BeginAttempt ==
    /\ Another /\ (kind = "challenge" => sandbox)
    /\ attempt' = [attempt EXCEPT ![number] =
           [@ EXCEPT !.dir = TRUE, !.allowed = Budget - Tokens(attempts), !.spent = 0,
                     !.place = IF course = "challenge" THEN Sandbox ELSE number]]
    /\ tree' = Workspace
    /\ pc' = "agent" /\ asked' = FALSE
    /\ dirty' = TRUE
    /\ UNCHANGED <<kind, limit, manifest, sandbox, report, course, number, attempts, resumed, watchdog,
                   edits, starts, reran, unsaved, resumes>>

\* The workspace cannot be made; or the sandbox cannot be reset, which is reported.
AttemptFails ==
    /\ Another
    /\ IF course = "challenge"
       THEN number > 1 /\ report' = Report(attempts, TRUE) /\ UNCHANGED attempt
       ELSE attempt' = [attempt EXCEPT ![number].dir = TRUE] /\ UNCHANGED report
    /\ Ends
    /\ UNCHANGED <<manifest, tree, sandbox, dirty>>

Agent == attempt[number]

\* An agent stops when its tokens are spent, but one that is resumed asks before it looks.  What a
\* completion is billed is added when it is there, and compared afterwards.
AgentTurn ==
    /\ pc = "agent" /\ edits < MaxEdits
    /\ Agent.spent < Agent.allowed \/ (resumed = number /\ ~asked)
    /\ edits' = edits + 1
    /\ tree' = [tree EXCEPT ![Agent.place] = edits + 1]
    /\ \E bill \in 0..MaxBill :
           attempt' = [attempt EXCEPT ![number].spent = @ + bill, ![number].checkpoint = "written"]
    /\ asked' = TRUE
    /\ unsaved' = IF watchdog = "watching" THEN unsaved ELSE unsaved \cup {number}
    /\ UNCHANGED <<kind, limit, manifest, sandbox, report, pc, course, number, attempts, resumed, watchdog,
                   starts, reran, dirty, resumes>>

\* The watchdog is stopped and joined first: one that has given the attempt up exits.
AgentEnds(stop) ==
    /\ pc = "agent"
    /\ attempt' = [attempt EXCEPT ![number].summary = stop]
    /\ pc' = IF watchdog = "watching" THEN "judging" ELSE "waiting"
    /\ UNCHANGED <<kind, limit, manifest, tree, sandbox, report, course, number, attempts, resumed, asked, watchdog,
                   edits, starts, reran, unsaved, dirty, resumes>>

\* run_headless_agent or resume_headless_agent returns an error, with or without a summary.
AgentErrs ==
    /\ pc = "agent" /\ watchdog = "watching"
    /\ \E summary \in {Agent.summary, "success", "failed"} :
           attempt' = [attempt EXCEPT ![number].summary = summary]
    /\ report' = IF resumed = number THEN report ELSE Report(attempts, TRUE)
    /\ Ends
    /\ UNCHANGED <<manifest, tree, sandbox, dirty>>

\* It returns an error without a summary when the watchdog has given the attempt up.
AgentErrsLate ==
    /\ pc = "agent" /\ watchdog # "watching"
    /\ pc' = "waiting"
    /\ UNCHANGED <<kind, limit, diskVariables, course, number, attempts, resumed, asked, watchdog,
                   edits, starts, reran, unsaved, dirty, resumes>>

\* The watchdog gives up an attempt that has not asked its model in time.  It saves a report of
\* this attempt alone, over that of a process that was there before, and exits; meanwhile the
\* agent's thread runs on.
Stalls ==
    /\ pc = "agent" /\ ~asked /\ resumed # number /\ watchdog = "watching"
    /\ watchdog' = "saving"
    /\ UNCHANGED <<kind, limit, diskVariables, pc, course, number, attempts, resumed, asked,
                   edits, starts, reran, unsaved, dirty, resumes>>

\* It says that nothing was edited and nothing billed.
Stalled ==
    [JudgedAs("failed", "none") EXCEPT !.edit = IF Agent.place = Sandbox THEN 0 ELSE Fresh, !.tokens = 0]

WatchdogSaves ==
    /\ watchdog = "saving"
    /\ attempt' = [attempt EXCEPT ![number].saved = Stalled]
    /\ watchdog' = "reporting"
    /\ UNCHANGED <<kind, limit, manifest, tree, sandbox, report, pc, course, number, attempts, resumed, asked,
                   edits, starts, reran, unsaved, dirty, resumes>>

\* What the agent's thread is writing when its process ends is cut short.
AgentCut ==
    {attempt} \cup (IF pc = "agent" THEN {[attempt EXCEPT ![number].summary = Torn]} ELSE {})
              \cup (IF pc = "agent" /\ asked THEN {[attempt EXCEPT ![number].checkpoint = Torn]} ELSE {})

WatchdogExits ==
    /\ watchdog = "reporting"
    /\ report' = Report(<<Stalled>>, FALSE)
    /\ attempt' \in AgentCut
    /\ Ends
    /\ dirty' = FALSE
    /\ UNCHANGED <<manifest, tree, sandbox>>

\* A standard benchmark has a verdict if it has an evaluator script, for the visible tests or the
\* collector; a challenge has its evaluators in its own loop only.
Verdicts == IF course = "standard" /\ kind # "standard" THEN {"none"} ELSE {"passed", "failed"}

\* Fault for Replace: the resumed attempt is one more.
ReplaceNone(a) == Append(Saved, a)

\* The loaded attempt with the number gives way, or it is added.
Replace(a) ==
    IF \E j \in DOMAIN Saved : Saved[j].number = a.number
    THEN [j \in DOMAIN Saved |-> IF Saved[j].number = a.number THEN a ELSE Saved[j]]
    ELSE Append(Saved, a)

\* Of an agent that was resumed the judgement is kept in memory only.
Judge(verdict) ==
    /\ pc = "judging" /\ verdict \in Verdicts
    /\ LET judged == JudgedAs(Agent.summary, verdict) IN
       IF resumed = number
       THEN /\ ~LoadFails
            /\ attempts' = Replace(judged)
            /\ pc' = "next" /\ number' = number + 1
       ELSE /\ attempts' = Append(attempts, judged)
            /\ pc' = "saving" /\ UNCHANGED number
    /\ UNCHANGED <<kind, limit, diskVariables, course, resumed, asked, watchdog, edits, starts, reran, unsaved,
                   dirty, resumes>>

\* The evaluators cannot be run, or a saved attempt cannot be read.
JudgeFails ==
    /\ pc = "judging"
    /\ report' = IF resumed = number THEN report ELSE Report(attempts, TRUE)
    /\ Ends
    /\ UNCHANGED <<manifest, attempt, tree, sandbox, dirty>>

SaveAttempt ==
    /\ pc = "saving"
    /\ attempt' = [attempt EXCEPT ![number].saved = Last(attempts)]
    /\ pc' = "reporting"
    /\ UNCHANGED <<kind, limit, manifest, tree, sandbox, report, course, number, attempts, resumed, asked, watchdog,
                   edits, starts, reran, unsaved, dirty, resumes>>

WriteReport ==
    /\ pc = "reporting"
    /\ report' = Report(attempts, FALSE)
    /\ dirty' = FALSE
    /\ IF StopsAfter(Last(attempts)) THEN pc' = "final" /\ UNCHANGED number
                                     ELSE pc' = "next" /\ number' = number + 1
    /\ UNCHANGED <<kind, limit, manifest, attempt, tree, sandbox, course, attempts, resumed, asked, watchdog,
                   edits, starts, reran, unsaved, resumes>>

\* Without keep_sandbox the sandbox of a challenge goes with its run.
WriteFinalReport ==
    /\ pc = "final"
    /\ report' = Report(attempts, FALSE)
    /\ dirty' = FALSE
    /\ sandbox' \in {sandbox, sandbox /\ course # "challenge"}
    /\ Ends
    /\ UNCHANGED <<manifest, attempt, tree>>

\* The process is killed; the file it was writing is cut short.
Kill ==
    /\ pc # "off"
    /\ Ends
    /\ UNCHANGED <<tree, sandbox, dirty>>
    /\ \/ UNCHANGED <<manifest, attempt, report>>
       \/ pc = "preparing" /\ manifest' = Torn /\ UNCHANGED <<attempt, report>>
       \/ attempt' \in AgentCut /\ UNCHANGED <<manifest, report>>
       \/ /\ watchdog = "saving"
          /\ \E cut \in AgentCut : attempt' = [cut EXCEPT ![number].saved = Torn]
          /\ UNCHANGED <<manifest, report>>
       \/ watchdog = "reporting" /\ report' = Torn /\ attempt' \in AgentCut /\ UNCHANGED manifest
       \/ pc = "saving" /\ attempt' = [attempt EXCEPT ![number].saved = Torn] /\ UNCHANGED <<manifest, report>>
       \/ pc \in {"reporting", "final"} /\ report' = Torn /\ UNCHANGED <<manifest, attempt>>

-----------------------------------------------------------------------------
AttemptsNext ==
    \/ RunBegins \/ RunFails \/ RunStarts
    \/ ResumeIsDone \/ ResumeAgent \/ ResumeStarts
    \/ NoMoreAttempts \/ BeginAttempt \/ AttemptFails
    \/ AgentTurn \/ (\E stop \in {"success", "failed"} : AgentEnds(stop)) \/ AgentErrs
    \/ Stalls \/ WatchdogSaves \/ WatchdogExits \/ AgentErrsLate
    \/ (\E verdict \in Verdicts : Judge(verdict)) \/ JudgeFails
    \/ SaveAttempt \/ WriteReport \/ WriteFinalReport
    \/ Kill

AttemptsSpec == AttemptsInit /\ [][AttemptsNext]_attemptVars

-----------------------------------------------------------------------------
(* Properties *)

JudgedAttempts ==
    [number : Attempts, stop : {"success", "failed"}, verdict : {"passed", "failed", "none"},
     place : Attempts \cup {Sandbox}, edit : 0..MaxEdits, tokens : Nat]

\* Every variable keeps its type.
AttemptsTypeOK ==
    /\ kind \in Kinds /\ limit \in {0, MaxAttempts}
    /\ manifest \in {NoFile, Torn, "written"}
    /\ \A i \in Attempts :
          /\ attempt[i].dir \in BOOLEAN /\ attempt[i].allowed \in 0..Budget
          /\ attempt[i].place \in Attempts \cup {Sandbox} /\ attempt[i].spent \in Nat
          /\ attempt[i].checkpoint \in {NoFile, Torn, "written"}
          /\ attempt[i].summary \in {NoFile, Torn, "success", "failed"}
          /\ attempt[i].saved \in {NoFile, Torn} \/ attempt[i].saved \in JudgedAttempts
    /\ tree \in [Attempts \cup {Sandbox} -> 0..MaxEdits]
    /\ Readable(report) => report.attempts \in Seq(JudgedAttempts) /\ report.error \in BOOLEAN
    /\ attempts \in Seq(JudgedAttempts)
    /\ number \in 1..(MaxAttempts + 1) /\ resumed \in 0..MaxAttempts
    /\ watchdog \in {"watching", "saving", "reporting"} /\ unsaved \subseteq Attempts

\* The report tells of the workspaces as they are: each attempt it lists was judged, or given up, on
\* the edits that its workspace has now.  Exceptions: an attempt is under way or was cut off since;
\* a run was begun a second time in the directory; the agent of the attempt was resumed by a process
\* that has ended since, and with it the judgement; it has edited on while the watchdog wrote that
\* it had not begun; the sandbox was reset for a later attempt.
ReportIsCurrent ==
    Readable(report) /\ ~dirty /\ ~reran =>
        \A j \in DOMAIN report.attempts :
            LET a == report.attempts[j] IN
            \/ a.edit = tree[a.place]
            \/ a.number \in unsaved
            \/ a.place = Sandbox /\ a.number < Directories

\* What is reported as a success has passed its evaluators, unless the benchmark has none, so that
\* the word of the agent stands, or is a challenge whose agent was left to judge itself by a resume.
\* No attempt is listed twice, or out of order.
ReportIsHonest ==
    Readable(report) =>
        /\ Success(report) => \/ Last(report.attempts).verdict = "passed"
                              \/ kind = "unscored" /\ Last(report.attempts).stop = "success"
                              \/ kind = "challenge" /\ Last(report.attempts).place # Sandbox
                              \/ kind = "challenge" /\ resumes > 0
        /\ ~reran => \A j \in 2..Len(report.attempts) :
                        report.attempts[j - 1].number < report.attempts[j].number

\* The tokens that are reported are within the budget and one completion, however many attempts
\* there were, and one completion more for each resume; unless a run was begun a second time in
\* the directory: it may list an attempt twice.
BudgetKept == Readable(report) /\ ~reran => Tokens(report.attempts) <= Budget + MaxBill * (resumes + 1)

AttemptReportsTruthful == ReportIsCurrent /\ ReportIsHonest /\ BudgetKept
=============================================================================
