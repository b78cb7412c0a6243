----------------------------- MODULE RetriedRun -----------------------------
(***************************************************************************)
(* quorp run: an agent works in the directory of an attempt, what it left  *)
(* is copied into the directory of the run, the evaluator judges, and a    *)
(* failed attempt is followed by another.  quorp run resume continues the  *)
(* agent of a directory, of an attempt or of the run.  The process may be  *)
(* killed, or end with an error, between any two writes, and the user may  *)
(* start it again over the same directory.                                 *)
(*                                                                         *)
(* A directory holds its events twice: events.jsonl, and run-ledger.jsonl, *)
(* whose hashes are chained, so that the hash of an event stands for the   *)
(* ledger up to it.  The durable consumers of RunLedger have one cursor    *)
(* here, and files are written as a whole: what a kill does inside one is  *)
(* RunLedger's.                                                            *)
(*                                                                         *)
(* The agent validates in its workspace, whose verify store has one raw    *)
(* log here, that of the one command it validates with, and is otherwise   *)
(* Validation's.  An agent that works below the workspace has its store    *)
(* where no receipt looks: to this module it validates nothing.            *)
(***************************************************************************)
EXTENDS Integers, Sequences, SequencesExt

CONSTANTS MaxTries,        \* max_retries + 1
          Unset,           \* where a file or a verdict is not there
          Outputs,         \* what the command of a validation may print
          MaxAgentEvents,  \* bound: events of an agent
          MaxValidations,  \* bound: validations in the workspace
          MaxCommands,     \* bound: commands the user starts
          MaxKills         \* bound: kills

ASSUME TriesAssumption == MaxTries \in Nat \ {0}
ASSUME CommandsAssumption == {MaxAgentEvents, MaxValidations, MaxCommands, MaxKills} \subseteq Nat

Top == 0
RunDirs == 0..MaxTries

VARIABLES
    objective, \* "challenge" (evaluator, reset), "script" (evaluator) or "plain"
    dirs,      \* dirs[d]: [trail, ledger, cursor, request, checkpoint, summary]
    point,     \* where the command is
    writing,   \* the directory whose ledger has an event that its trail has not yet, or Unset
    work,      \* the directory the agent works in
    try,       \* the attempt, 0 of a resume
    commands,  \* commands so far
    said,      \* events of this agent
    copied,    \* events of the attempt that are in the ledger of the run
    exit,      \* how the last command ended: Unset, "passed", "failed", "stuck" or "killed"
    stopped,   \* whether the agent stopped with success
    solved,    \* whether what it left is right, as the evaluator sees it
    spoke,     \* its verdict: Unset, "told", "broke", or "stale" when a file from before stood for it
    passed,    \* what the run made of it, or Unset
    evalFile,  \* benchmark-evaluation.json: what it says, or Unset
    proof,     \* proof-receipt.json: the command, and what it has hashed, or Unset
    room,      \* the workspace: "host", or a temporary "copy" for each run, or "none" of these now
    store,     \* its verify store: [log, stage, graph, torn]
    validations,
    kills,
    halves,    \* history: events that a kill kept out of the trail: <<d, event>>
    uncovered, \* history: events that were copied, but not the cursor behind them
    taken,     \* history: events whose effects the consumers have taken
    twice,     \* history: those they took again
    begun,     \* history: begun[d]: commands that began attempt d
    filed,     \* history: attempts whose cursor is copied into the run
    printed,   \* history: what validations in the workspace have printed
    topBy      \* history: the command that changed the directory of the run last

placeVars == <<point, writing, work, try, commands, said, copied, exit>>
judgeVars == <<objective, stopped, solved, spoke, passed, evalFile, proof>>
pastVars == <<kills, halves, uncovered, begun, filed>>
takenVars == <<taken, twice>>
verifyVars == <<room, store, validations, printed>>
runVars == <<dirs, placeVars, judgeVars, pastVars, takenVars, verifyVars, topBy>>

EmptyDir == [trail |-> <<>>, ledger |-> <<>>, cursor |-> <<>>, request |-> Unset,
             checkpoint |-> FALSE, summary |-> Unset]

\* The raw log, and the hash of it that the stage cache and the oldest proof graph have; whether
\* there is a graph that does not parse.
StoreOf(log) == [log |-> log, stage |-> log, graph |-> log, torn |-> FALSE]

RunInit ==
    /\ objective \in {"challenge", "script", "plain"}
    /\ dirs = [d \in RunDirs |-> EmptyDir]
    /\ point = "idle" /\ writing = Unset /\ work = Top /\ try = 0
    /\ commands = 0 /\ said = 0 /\ copied = 0 /\ exit = Unset
    /\ stopped = FALSE /\ solved = FALSE /\ spoke = Unset /\ passed = Unset /\ proof = Unset
    /\ evalFile \in {Unset} \cup (IF objective = "challenge" THEN {TRUE} ELSE {})
    /\ kills = 0 /\ halves = {} /\ uncovered = {} /\ taken = {} /\ twice = {}
    /\ begun = [d \in RunDirs |-> 0] /\ filed = 0 /\ topBy = 0
    /\ room \in {"host", "none"} /\ store = StoreOf(Unset) /\ validations = 0 /\ printed = {}

-----------------------------------------------------------------------------
(* Commands *)

Goes(next) == point' = next

StartCommand ==
    /\ point = "idle" /\ commands < MaxCommands /\ commands' = commands + 1
    /\ exit' = Unset /\ said' = 0 /\ copied' = 0 /\ passed' = Unset /\ spoke' = Unset
    /\ stopped' = FALSE /\ solved' = FALSE
    /\ UNCHANGED <<dirs, writing, objective, evalFile, proof, pastVars, takenVars>>

\* A copy of the workspace has what its store had.
StartRun ==
    /\ StartCommand /\ Goes("beginning") /\ try' = 1 /\ UNCHANGED <<work, validations, printed>>
    /\ IF room = "host" THEN UNCHANGED <<room, store>>
       ELSE room' = "copy" /\ store' \in {StoreOf(log) : log \in Outputs \cup {Unset}}

\* Without request.json, or with the one a run writes at its end, it fails before it changes anything.
ResumeRun(d) ==
    /\ StartCommand /\ Goes("running") /\ try' = 0 /\ work' = d
    /\ dirs[d].request = "agent" /\ dirs[d].checkpoint
    /\ UNCHANGED verifyVars

CommandEnds(how) == Goes("idle") /\ exit' = how

\* A run that returns, as it may, removes its copy of the workspace.
CommandReturns(how) ==
    /\ CommandEnds(how)
    /\ room' = IF room = "copy" /\ try # 0 THEN "none" ELSE room

\* append_event_record: into the ledger, then into the trail.
RecordIn(d) ==
    /\ writing = Unset /\ writing' = d
    /\ LET event == <<commands, d, Len(dirs[d].ledger) + 1>> IN
       dirs' = [dirs EXCEPT ![d].ledger = Append(@, event)]

RecordEnds ==
    /\ writing # Unset /\ writing' = Unset
    /\ dirs' = [dirs EXCEPT ![writing].trail = Append(@, Last(dirs[writing].ledger))]
    /\ UNCHANGED <<point, work, try, commands, said, copied, exit, judgeVars, pastVars, takenVars, verifyVars>>

\* append_named_event, of the run.
Announce(next) ==
    /\ RecordIn(Top) /\ Goes(next)
    /\ UNCHANGED <<work, commands, said, copied, exit, proof, pastVars, takenVars, room, validations, printed>>

CommandGoes(next) ==
    /\ writing = Unset /\ Goes(next)
    /\ UNCHANGED <<writing, work, try, commands, said, exit, verifyVars>>

EventsOf(d) == {dirs[d].ledger[n] : n \in DOMAIN dirs[d].ledger}

\* A kill may cut a proof graph short, and it leaves a copy of the workspace where it is.
CommandDies ==
    /\ point # "idle" /\ kills < MaxKills /\ kills' = kills + 1
    /\ CommandEnds("killed") /\ writing' = Unset /\ UNCHANGED <<work, try, commands, said, copied>>
    /\ halves' = halves \cup
          (IF writing # Unset THEN {<<writing, Last(dirs[writing].ledger)>>}
           ELSE IF point = "copying" THEN {<<Top, dirs[work].ledger[n]>> : n \in 1..copied}
           ELSE {})
    /\ uncovered' = IF point \in {"copying", "filing", "artifacts"} THEN uncovered \cup EventsOf(work) ELSE uncovered
    /\ store' \in {store} \cup
          (IF point = "running" /\ store.stage # Unset THEN {[store EXCEPT !.torn = TRUE]} ELSE {})
    /\ UNCHANGED <<dirs, judgeVars, begun, filed, takenVars, room, validations, printed>>

-----------------------------------------------------------------------------
(* The agent in its directory *)

\* The recorder empties events and ledger; cursor and checkpoint stay.
BeginTry ==
    /\ point = "beginning" /\ writing = Unset /\ Goes("running") /\ work' = try /\ said' = 0
    /\ dirs' = [dirs EXCEPT ![try].trail = <<>>, ![try].ledger = <<>>, ![try].request = "agent"]
    /\ begun' = [begun EXCEPT ![try] = @ + 1]
    /\ UNCHANGED <<writing, try, commands, copied, exit, judgeVars, kills, halves, uncovered, filed, takenVars,
                   verifyVars>>

AgentEmits ==
    /\ point = "running" /\ said < MaxAgentEvents /\ said' = said + 1
    /\ RecordIn(work)
    /\ UNCHANGED <<point, work, try, commands, copied, exit, judgeVars, pastVars, takenVars, verifyVars>>

SaveCheckpoint ==
    /\ point = "running" /\ writing = Unset /\ ~dirs[work].checkpoint
    /\ dirs' = [dirs EXCEPT ![work].checkpoint = TRUE]
    /\ UNCHANGED <<placeVars, judgeVars, pastVars, takenVars, verifyVars>>

\* The raw log of the command is written over.  If it passes, its stage is cached, unless it is
\* already, and a proof graph is written with the hash that the cache has, unless that fails.
Validated(output) ==
    LET stage == IF store.stage = Unset THEN output ELSE store.stage
        graph == IF store.graph = Unset THEN stage ELSE store.graph
    IN {[store EXCEPT !.log = output],
        [store EXCEPT !.log = output, !.stage = stage],
        [store EXCEPT !.log = output, !.stage = stage, !.graph = graph]}

\* The agent validates, or that of another run in the same workspace, or a user.
Validates ==
    /\ (point = "running" /\ room # "none") \/ room = "host"
    /\ validations < MaxValidations /\ validations' = validations + 1
    /\ \E output \in Outputs : store' \in Validated(output) /\ printed' = printed \cup {output}
    /\ UNCHANGED <<dirs, placeVars, judgeVars, pastVars, takenVars, room>>

Follows(d) == IsPrefix(dirs[d].cursor, dirs[d].ledger)

ConsumeTo(n) ==
    LET d == dirs[work]
        events == {d.ledger[i] : i \in Len(d.cursor) + 1 .. n} IN
    /\ dirs' = [dirs EXCEPT ![work].cursor = SubSeq(d.ledger, 1, n)]
    /\ taken' = taken \cup events /\ twice' = twice \cup (taken \cap events)

\* A worker of the fan-out.
FollowEvent ==
    /\ point = "running" /\ Follows(work) /\ dirs[work].cursor # dirs[work].ledger
    /\ ConsumeTo(Len(dirs[work].cursor) + 1)
    /\ UNCHANGED <<placeVars, judgeVars, pastVars, verifyVars>>

\* It has emitted RunFinished at least.  How it stopped counts where nobody evaluates, what it left
\* where somebody does.
AgentStops ==
    /\ point = "running" /\ said > 0 /\ CommandGoes("stopping")
    /\ LET evaluated == try # 0 /\ objective # "plain" IN
       /\ stopped' \in IF evaluated THEN {FALSE} ELSE BOOLEAN
       /\ solved' \in IF evaluated THEN BOOLEAN ELSE {FALSE}
    /\ UNCHANGED <<dirs, copied, objective, spoke, passed, evalFile, proof, pastVars, takenVars>>

\* durable_consumers.stop() catches up; a cursor that is not in the ledger fails the command.
StopConsumers ==
    /\ point = "stopping"
    /\ IF Follows(work)
       THEN ConsumeTo(Len(dirs[work].ledger)) /\ Goes("summing") /\ UNCHANGED <<exit, room>>
       ELSE CommandReturns("stuck") /\ UNCHANGED <<dirs, takenVars>>
    /\ UNCHANGED <<writing, work, try, commands, said, copied, judgeVars, pastVars, store, validations, printed>>

Summary(verdict) == [by |-> commands, stopped |-> stopped, passed |-> verdict]

WriteAgentSummary ==
    /\ point = "summing"
    /\ dirs' = [dirs EXCEPT ![work].summary = Summary(Unset)]
    /\ IF try = 0 THEN CommandReturns(IF stopped THEN "passed" ELSE "failed")
       ELSE Goes("copying") /\ UNCHANGED <<exit, room>>
    /\ copied' = 0
    /\ UNCHANGED <<writing, work, try, commands, said, judgeVars, pastVars, takenVars, store, validations, printed>>

-----------------------------------------------------------------------------
(* What the attempt leaves, copied into the run *)

\* Fault for CopyEvent: the event is recorded anew, as one of the run.
CopyEventAnew ==
    /\ point = "copying" /\ dirs[work].trail # <<>> /\ copied < Len(dirs[work].ledger)
    /\ CommandGoes("copying") /\ copied' = copied + 1
    /\ dirs' = [dirs EXCEPT ![Top].ledger = Append(@, <<commands, Top, Len(@) + 1>>)]
    /\ UNCHANGED <<judgeVars, pastVars, takenVars>>

\* The ledger one event at a time, each chained to what the ledger of the run ends with, then the trail.
CopyEvent ==
    /\ point = "copying" /\ dirs[work].trail # <<>> /\ copied < Len(dirs[work].ledger)
    /\ CommandGoes("copying") /\ copied' = copied + 1
    /\ dirs' = [dirs EXCEPT ![Top].ledger = Append(@, dirs[work].ledger[copied + 1])]
    /\ UNCHANGED <<judgeVars, pastVars, takenVars>>

\* Fault for CopyTrail: a copy of the file.
CopyTrailOver ==
    /\ point = "copying" /\ (dirs[work].trail = <<>> \/ copied = Len(dirs[work].ledger))
    /\ CommandGoes("filing")
    /\ dirs' = [dirs EXCEPT ![Top].trail = dirs[work].trail]
    /\ UNCHANGED <<copied, judgeVars, pastVars, takenVars>>

CopyTrail ==
    /\ point = "copying" /\ (dirs[work].trail = <<>> \/ copied = Len(dirs[work].ledger))
    /\ CommandGoes("filing")
    /\ dirs' = [dirs EXCEPT ![Top].trail = @ \o dirs[work].trail]
    /\ UNCHANGED <<copied, judgeVars, pastVars, takenVars>>

CopyFiles ==
    /\ point = "filing" /\ CommandGoes("artifacts")
    /\ dirs' = [dirs EXCEPT ![Top].request = dirs[work].request, ![Top].summary = dirs[work].summary,
                            ![Top].checkpoint = @ \/ dirs[work].checkpoint]
    /\ UNCHANGED <<copied, judgeVars, pastVars, takenVars>>

\* Fault for CopyArtifacts: they are left behind.
CopyNoArtifacts ==
    /\ point = "artifacts" /\ CommandGoes("phase") /\ filed' = filed + 1
    /\ UNCHANGED <<dirs, copied, judgeVars, kills, halves, uncovered, begun, takenVars>>

\* The cursors among the artifacts; a consumer that has taken nothing has none.
CopyArtifacts ==
    /\ point = "artifacts" /\ CommandGoes("phase")
    /\ dirs' = [dirs EXCEPT ![Top].cursor = IF dirs[work].cursor = <<>> THEN @ ELSE dirs[work].cursor]
    /\ filed' = filed + 1
    /\ UNCHANGED <<copied, judgeVars, kills, halves, uncovered, begun, takenVars>>

-----------------------------------------------------------------------------
(* Evaluation, retry and report *)

Later == UNCHANGED <<try, judgeVars, store>>

AnnouncePhase == point = "phase" /\ Announce("evaluating") /\ Later

Reported == IF try > 1 THEN "retried" ELSE "judged"

\* Fault for Verdict: the file is looked at first.
VerdictOfFile(how, file) ==
    IF file # Unset THEN file ELSE how \in {"stdout", "exit"} /\ solved

\* What it printed, else what is in the file, whoever wrote it, else its exit code.
Verdict(how, file) ==
    CASE how = "stdout" -> solved
      [] how # "stdout" /\ file # Unset -> file
      [] OTHER -> how = "exit" /\ solved

\* The evaluator prints its verdict, writes it, tells it by its exit code alone, or breaks.
\* Only a challenge has a place for the file.
Evaluate ==
    /\ point = "evaluating" /\ objective # "plain" /\ CommandGoes("result")
    /\ \E how \in {"stdout", "exit", "broke"} \cup (IF objective = "challenge" THEN {"file"} ELSE {}) :
          /\ evalFile' = IF how = "file" THEN solved ELSE evalFile
          /\ spoke' = CASE how \in {"exit", "broke"} /\ evalFile # Unset -> "stale"
                        [] how = "broke" /\ evalFile = Unset -> "broke"
                        [] OTHER -> "told"
          /\ passed' = Verdict(how, evalFile')
    /\ UNCHANGED <<dirs, copied, objective, stopped, solved, proof, pastVars, takenVars>>

TakeStopReason ==
    /\ point = "evaluating" /\ objective = "plain" /\ CommandGoes(Reported)
    /\ passed' = stopped
    /\ UNCHANGED <<dirs, copied, objective, stopped, solved, spoke, evalFile, proof, pastVars, takenVars>>

AnnounceResult == point = "result" /\ Announce(Reported) /\ Later
AnnounceRetried == point = "retried" /\ Announce("judged") /\ Later

Conclude ==
    /\ point = "judged"
    /\ CommandGoes(IF passed \/ try = MaxTries THEN "finishing"
                   ELSE IF objective = "challenge" THEN "resetting" ELSE "retrying")
    /\ UNCHANGED <<dirs, copied, judgeVars, pastVars, takenVars>>

AnnounceReset == point = "resetting" /\ Announce("reset") /\ Later

\* The reset command may take the file of the evaluator or the verify store with it, and may fail.
ResetWorkspace ==
    /\ point = "reset" /\ \E ok \in BOOLEAN : Announce(IF ok THEN "retrying" ELSE "bailing")
    /\ evalFile' \in {evalFile, Unset}
    /\ store' \in {store, StoreOf(Unset)}
    /\ UNCHANGED <<try, objective, stopped, solved, spoke, passed>>

BailOut ==
    /\ point = "bailing" /\ writing = Unset /\ CommandReturns("failed")
    /\ UNCHANGED <<dirs, writing, work, try, commands, said, copied, judgeVars, pastVars, takenVars,
                   store, validations, printed>>

RetryStarts ==
    /\ point = "retrying" /\ Announce("beginning") /\ try' = try + 1
    /\ passed' = Unset /\ spoke' = Unset
    /\ UNCHANGED <<objective, stopped, solved, evalFile, store>>

\* Its own request.json, that no resume can parse.
WriteRunFiles ==
    /\ point = "finishing" /\ CommandGoes("closing")
    /\ dirs' = [dirs EXCEPT ![Top].request = "run", ![Top].summary = Summary(passed)]
    /\ UNCHANGED <<copied, judgeVars, pastVars, takenVars>>

AnnounceStop == point = "closing" /\ Announce("receipt") /\ Later

\* Fault for Hashed: the events are left out.
HashedReports(d) == <<d.request, d.summary>>

\* What the receipt has hashes of in the directory of the run, ...
Hashed(d) == <<d.request, d.summary, d.trail, d.ledger>>

\* ... and in the workspace: the raw log, if there is a graph that names it.
HashedLog == IF store.graph = Unset THEN Unset ELSE store.log

\* One graph that does not parse, and there is no receipt.
WriteReceipt ==
    /\ point = "receipt" /\ writing = Unset
    /\ CommandReturns(IF passed /\ ~store.torn THEN "passed" ELSE "failed")
    /\ IF store.torn THEN UNCHANGED proof
       ELSE proof' = [by |-> commands, files |-> Hashed(dirs[Top]), log |-> HashedLog, passed |-> passed]
    /\ UNCHANGED <<dirs, writing, work, try, commands, said, copied, objective, stopped, solved,
                   spoke, passed, evalFile, pastVars, takenVars, store, validations, printed>>

\* "quorp proof verify": the files have the hashes of the receipt; the raw log has that of the
\* receipt and that of the oldest graph.  The copy of a workspace went with its run.
Verifies ==
    /\ Hashed(dirs[Top]) = proof.files
    /\ proof.log # Unset => room = "host" /\ store.log = proof.log /\ store.graph = proof.log

RunStep ==
    \/ StartRun \/ RecordEnds \/ CommandDies
    \/ \E d \in RunDirs : ResumeRun(d)
    \/ BeginTry \/ AgentEmits \/ SaveCheckpoint \/ Validates \/ FollowEvent \/ AgentStops \/ StopConsumers
    \/ WriteAgentSummary \/ CopyEvent \/ CopyTrail \/ CopyFiles \/ CopyArtifacts
    \/ AnnouncePhase \/ Evaluate \/ TakeStopReason \/ AnnounceResult \/ AnnounceRetried \/ Conclude
    \/ AnnounceReset \/ ResetWorkspace \/ BailOut \/ RetryStarts
    \/ WriteRunFiles \/ AnnounceStop \/ WriteReceipt

RunNext == RunStep /\ topBy' = IF dirs'[Top] # dirs[Top] THEN commands' ELSE topBy

RunSpec == RunInit /\ [][RunNext]_runVars

-----------------------------------------------------------------------------
(* Properties *)

\* An event is told by the command that recorded it, the directory and its place in the ledger of it.
RunEvents == (1..MaxCommands) \X RunDirs \X Nat
Requests == {Unset, "agent", "run"}
Summaries == [by : 1..MaxCommands, stopped : BOOLEAN, passed : BOOLEAN \cup {Unset}] \cup {Unset}
RunDirectories == [trail : Seq(RunEvents), ledger : Seq(RunEvents), cursor : Seq(RunEvents),
                   request : Requests, checkpoint : BOOLEAN, summary : Summaries]
Receipts == [by : 1..MaxCommands, files : Requests \X Summaries \X Seq(RunEvents) \X Seq(RunEvents),
             log : Outputs \cup {Unset}, passed : BOOLEAN]

\* What is not there is no other value.
ASSUME UnsetAssumption ==
    /\ Unset \notin RunDirs /\ Unset \notin BOOLEAN /\ Unset \notin Receipts /\ Unset \notin Outputs
    /\ Unset \notin {"agent", "run", "passed", "failed", "stuck", "killed"}

\* What a run knows of itself has its type, ...
RunProgressTypeOK ==
    /\ dirs \in [RunDirs -> RunDirectories] /\ objective \in {"challenge", "script", "plain"}
    /\ writing \in RunDirs \cup {Unset} /\ work \in RunDirs /\ try \in RunDirs
    /\ exit \in {Unset, "passed", "failed", "stuck", "killed"} /\ stopped \in BOOLEAN /\ solved \in BOOLEAN
    /\ spoke \in {Unset, "told", "stale", "broke"}
    /\ passed \in BOOLEAN \cup {Unset} /\ evalFile \in BOOLEAN \cup {Unset} /\ proof \in Receipts \cup {Unset}
    /\ commands \in 0..MaxCommands /\ topBy \in 0..commands /\ kills \in 0..MaxKills
    /\ said \in Nat /\ copied \in Nat /\ filed \in Nat /\ begun \in [RunDirs -> Nat]
    /\ halves \subseteq RunDirs \X RunEvents /\ uncovered \subseteq RunEvents
    /\ taken \subseteq RunEvents /\ twice \subseteq taken

\* ... and so has every variable.
RunTypeOK ==
    /\ RunProgressTypeOK
    /\ room \in {"host", "copy", "none"} /\ validations \in 0..MaxValidations /\ printed \subseteq Outputs
    /\ store \in [log : Outputs \cup {Unset}, stage : Outputs \cup {Unset}, graph : Outputs \cup {Unset},
                  torn : BOOLEAN]

\* The events of a ledger that are not on their way into the trail.
Settled(d) ==
    Len(dirs[d].ledger) - (IF writing = d THEN 1 ELSE IF d = Top /\ point = "copying" THEN copied ELSE 0)

\* Those of them that no kill kept from it.
Told(d) == {n \in 1..Settled(d) : <<d, dirs[d].ledger[n]>> \notin halves}

\* How many of a set of numbers are up to n.
RankIn(numbers, n) == Cardinality({m \in numbers : m <= n})

\* A trail has the events at these places of a ledger, in the same order.
Tells(trail, places, ledger) ==
    /\ Len(trail) = Cardinality(places)
    /\ \A n \in places : trail[RankIn(places, n)] = ledger[n]

\* events.jsonl tells what the ledger tells, in the same order, of an attempt and of the run that
\* copied it; what a kill kept from it stays missing from it alone.
TrailFollowsLedger ==
    \A d \in RunDirs : Tells(dirs[d].trail, Told(d), dirs[d].ledger)

\* The consumers take the effects of an event once, in the attempt or in a run that is resumed,
\* unless a kill fell between the copy of the events and that of the cursor.
EffectsOnce == twice \subseteq uncovered

\* A command fails over consumers that cannot find their cursor in the ledger in two cases only:
\* the run is resumed after a second attempt, whose events have other hashes in the run, or an
\* attempt is begun again over the cursor of an earlier one.
StuckAsKnown == exit = "stuck" => IF work = Top THEN filed > 1 ELSE begun[work] > 1

\* What the run makes of an attempt is what the evaluator found of it, but for an evaluator that
\* broke, which fails the attempt, and for one that left the verdict to a file written before.
PassIsDeserved ==
    passed # Unset /\ spoke # Unset => passed = solved \/ spoke = "stale" \/ (spoke = "broke" /\ ~passed)

\* The receipt of a run verifies from its end until another command changes the run, no longer;
\* unless it has hashed a raw log, and the workspace was a copy, which went with the run, or
\* validations in the workspace, of whatever run, have printed different things.  A run that passed
\* is told so and has a receipt, unless a kill has left a proof graph that does not parse.
ReceiptStands ==
    /\ proof # Unset =>
          /\ Verifies => topBy = proof.by
          /\ topBy = proof.by /\ ~Verifies =>
                proof.log # Unset /\ (room # "host" \/ \E one, other \in printed : one # other)
    /\ exit = "passed" /\ try # 0 => proof # Unset /\ proof.by = commands /\ dirs[Top].summary.passed
    /\ exit = "failed" /\ try # 0 /\ passed = TRUE => store.torn
=============================================================================
