# Quorp: TLA+ models, checks and proofs

This directory models the parts of Quorp that decide whether an agent run is correct: the
loop that turns a model's answers into edits and validations, the events it emits, the
durable consumers of those events, the worktree that edits change and rollbacks restore, the
callers that wait for an answer of somebody else, and the files that several processes keep.
The modules are checked with TLC on small instances and proved about with TLAPS.

`PROJECT.json` lists the components, the runs, the source lines behind every definition
(`map`), the hazards, the findings, the theorems and, for each checked property, a fault of
the code that the property detects (`mutants`).

## Inventory

| Part | Source (crate) | State | Operations | Model |
|---|---|---|---|---|
| event fan-out | `quorp_agent_core/runtime.rs` | bounded queue and condition variable of each subscriber, stop flags | emit, push with eviction, drain, timed wait, stop, join | `EventFanout` |
| agent loop | `quorp_agent_core/runtime/{recovery,turn,path_intel}.rs` | iteration, budgets, turn, cancellation flag | `run_agent_task`, `handle_model_turn`, dispatch, validation drain, checkpoint | `AgentRun` |
| agent task state | `quorp_agent_core/runtime/state_*.rs` | `AgentTaskState` | `observe_outcome`, `allow_action`, queueing of validations, note and loop guards | `AgentTask` |
| run ledger and consumers | `quorp_agent_core/ledger.rs`, `quorp_session/agent_runner.rs` | `run-ledger.jsonl`, one cursor per consumer, workers | append, `read_from`, retried catch-up, cursor commit, stop, resume | `RunLedger` over `DurableDelivery` |
| patch VM | `quorp_patch_vm`, `quorp_tools/{patch,apply}.rs` | plan, pre-images, changes applied | preview, apply, undo | `PatchVm`, `Workspace` |
| rollback stash, validation | `quorp_session/tui/native_backend*` | `SHADOW_WORKTREE` | stash before or after an edit, rollback, clear | `Workspace`; `SharedStash` for several runs |
| verification | `native_backend/actions.rs`, `quorp_verify` | stash, stage cache, receipt, proof graph | run the commands of a plan, roll back, cache, write the receipt | `Validation` |
| repair of a benchmark case | `quorp_agent_core/runtime/*` | case ledger, phase, lease, scaffold, validation policy | phases after a failed fast loop, refusals, the rerun | `CaseRepair` |
| desktop permission broker | `quorp_desktop_core/permission_broker.rs` | map of pending requests | request, resolve, time out, cancel all | `PermissionBroker` |
| desktop run service, event bridge | `quorp_desktop_core/{run_service,event_bridge}.rs` | entries of runs, pipe of events | start, cancel, drain, finish | `RunService` |
| diff applier | `quorp_desktop_core/diff_applier.rs` | the user's workspace | parse, stage, write | `DiffApplier` |
| memory | `quorp_memory*`, `memory_adapter.rs`, `agent_runner.rs` | snapshot, index, a handle for each run, call and desktop | open, record, prune, recall | `RunMemory` |
| rules | `quorp_rule_forge`, `quorp_rule_model` | clusters, candidates, rules | ingest, verify, activate, challenge | `RuleForge` |
| benchmark harness | `quorp_cli/benchmark*`, `quorp_benchmark` | result directory, manifest, reports, lock file | attempts, judging, resume, batch, lock | `BenchmarkAttempts`, `BenchmarkBatch`, `BenchmarkLock` |
| MCP client | `quorp_mcp` | channel, pending ids, two pipes | handshake, call, answer the server | `McpClient` |
| language server session | `quorp_lsp/rust_language_server.rs` | senders by id, opened files, two pipes | open a document, request, reader thread | `LanguageServer` |
| remote completion | `quorp_session/chat_service/{tools_schema,provider}.rs`, `quorp_provider` | attempts, stream buffer, usage, timers | post, retry, back off, fall back from native tools, read the stream | `Completion` |
| managed processes | `native_backend/process_browser.rs` | registry, the process's mutex, output lines | start, read, write, stop, wait for a port, readers, reaper | `ManagedProcess` |
| shell commands | `native_backend/actions.rs` | output of the terminal, deadline | `run_command_streaming`, `run_command_capture`, copier | `ShellCommand` |
| desktop rollback, replay, adapters, application | `quorp_desktop_core`, `apps/desktop` | files of a run | file operations, commands that forward | not modelled |
| `quorp run` | `quorp_cli/cli.rs`, `quorp_session/run_support.rs` | directories of run and attempts, verify store of the workspace, receipt | attempts, copy of events and artifacts, evaluator, reset, receipt, its verification, resume | `RetriedRun` |
| context index | `quorp_context/index.rs` | SQLite database, files | build, test of freshness, quote | `ContextIndex` |
| rest of the command line, one-crate copy | `quorp_cli`, `quorp` | none | arguments, processes | not modelled |
| permissions, sandbox, plan mode | `quorp_permissions`, `quorp_sandbox`, `quorp_plan_mode` | a temporary copy of the workspace | decision tables, making and removing the copy | the table the loop uses is in `AgentTask`, the copy in `RetriedRun` |
| log file | `zlog/sink.rs` | the log, the old log, handle and count of a process | open, write a line, rotate | `LogFile` |
| storage, repository intelligence, support | the other crates | stores | I/O and pure functions | not modelled |

How they interact.  `agent_runner` starts the durable consumers, which subscribe to the
fan-out, and calls `run_agent_task`.  The loop asks the provider, dispatches each action to
the tool executor (`native_backend`), observes the outcome in `AgentTaskState` and emits
events.  The recorder behind the fan-out appends each event to the ledger; the fan-out then
wakes the consumers, which read the ledger and not their queue.  Edits go through the patch
VM and the rollback stash; a validation clears the stash or rolls the worktree back.  A
`CheckpointSaved` event makes the recorder write `checkpoint.json`, from which
`resume_headless_agent` starts a new session of the same run.  Two of the consumers write the
memory and the rule forge.  The desktop starts the same loop on a blocking thread of its run
service, which numbers and batches the runtime events, and later applies the diff of the run
to the user's workspace.  The benchmark harness starts the loop once per attempt, hands it a
case ledger and judges what it left; a batch starts one such process per case.

What is hard here: three kinds of threads (run, recorder and workers, owner) that share
queues and files; a process that may be killed between any two file operations; budgets that
are checked at different places of one loop; a "green" verdict kept in memory about files on
disk; undo logs that are written before or after what they undo; turns that fail in the
middle; answers that race a timeout, a cancellation or the drop of who asked; copies of a
store that outlive a write by another; and files that several processes replace.  The
`hazards` of `PROJECT.json` name each at its line with the properties that watch it.

What makes each part correct.  *Fan-out*: bounded, nothing lost without a marker, newest
event kept, order, a joined worker has handled everything, stopping returns.  *Agent loop*:
success only with a validation after the last edit, queued validations before the model,
every budget and request to stop honoured, no edit on a stale picture.  *Ledger*: effects
before cursors, nothing skipped, a session that ends well left nothing behind.  *Patches and
stash*: a failed patch is undone, a failed validation restores what it says it restores.
*Broker, MCP client, language server*: every call gets its own answer, at most once, and every
caller returns.  *Completion*: an answer is what the model said, whole, or an error; posts are
bounded and nothing waits past its timeouts.  *Managed process, shell command*: the output shows
what the child wrote, in order and without a gap, up to a limit, and where it does not (a reader
that broke off, a character that a read cut) the property says which bytes are missing; a stop or
a deadline ends the child and nothing else; every tool returns.  *Shared stash*: a patch adds its edit and loses
nobody else's, and a verdict of a validation lasts.
*Run service*: events reach the channel in order and before the terminal one, a status tells
where its task is, a run settles.  *Diff applier*: all of a diff or nothing, but for the lines it misreads.  *Memory and
rules*: what was recorded is kept as long as whoever writes has the latest copy, rules follow failures.
*Validation*: what passed was
verified as it is, a failure says what became of the edits.  *Benchmarks*: a report claims
what was judged, or has no verdict where nobody judges, a budget is overshot by one completion, a
lock has one holder among those who take it.  *Quorp run*: trail and ledger agree, effects are
taken once over resumes, a verdict is the evaluator's, a receipt verifies until the run changes or
what it hashed in the workspace does.
*Context index*: what passes as fresh is what the files say, and a build repairs.  *Case repair*: a failed fast loop is run again before
the case is done, and the phase never asks for what the other guards refuse.

## Modules

* `EventFanout` -- `emit` is `EmitDownstream` and one `Deliver` step per subscriber (the fan-out lock is
  held across them); the worker is `CheckStop`, `WaitForEvents`, `Handle` and, once its
  flag is set, `FinalDrain`; the owner stops and joins one worker after the other.  Entries
  are the number of an event or of the events a marker stands for.
* `AgentTask` -- `AgentTaskState` as a record with what reads, edits and validations leave
  behind (`AfterRead`, `AfterWrite`, `AfterValidation`, ...), the verdicts of `allow_action`
  for a mode and a profile, the validation queue, and when a turn only repeats known reads.
  No variables.
* `AgentRun` -- the machine around it.  `LoopStep` has the checks at the top of the loop and
  the validation drain, in their order in the code; `CompletionStep` what a completion may be
  (missing, truncated, plain text, contradictory, repetitive, usable); `BatchStep` one
  dispatched action with its outcome; `EndStep` the cases after the last action.  `Crash` and
  `Resume` keep what is on disk.  The histories `unverified`, `known` and `unread` say what
  no variable of the code says: which files no passing validation covers, which of them the
  agent's own state accounts for, and which file a failed edit left unread.
* `DurableDelivery` -- the abstract promise of the consumers: each takes the events of the
  ledger in order and skips none.  `RunLedger` -- the recorder (a line and its newline are
  two writes), the catch-up pass of a consumer (read, effects, truncate the cursor, write
  it), its retries, the phases of a session and the resume.  `RunLedger` instantiates
  `DurableDelivery`; `Delivers` is the refinement.
* `PatchVm` -- plans, pre-images and undo as operators.  `Workspace` -- one session's
  worktree: `ApplyPatch`, direct edits, each file system operation of the patch VM as a step
  of its own that may fail, the stash, validation, rollback and restart.
* `CallReply` -- the abstract promise of whoever answers calls: at most one reply, never
  revised, returned to the caller it belongs to.  `PermissionBroker` (a step per lock taken:
  register, announce, take the sender, send, time out) and `McpClient` (callers, the loop that
  reads and writes, the server, two bounded pipes) instantiate it with refinement mappings;
  `BrokerReplies` and `McpReplies` are the refinements.  `LanguageServer` (a calling thread, the
  reader thread, the server) is a third instance, `LspReplies`.
* `Completion` -- one completion of the remote model: the retries around it, a post with its
  backoffs, the fallback when native tools are refused, the stream that arrives in chunks cut
  anywhere, and the timers, in units of time that pass while the client waits.
* `ManagedProcess` -- two tools at a time over the mutex of one process, its two readers and its
  reaper, and the child at the other end of three pipes; `ReadBreaks` is a reader that meets what it
  cannot read and drops its pipe.  `ShellCommand` -- the thread that runs a command, the copier of its
  terminal, the shell and a descendant that outlives it; a read may end inside a character, and `Text`
  is what the lossy decoding of each read makes of it.
* `RunService` -- starts under ids that may collide, the task of a run with its drainer; each write
  to a field's lock is a step: `CancelRun` (the flag) and `CancelPhase`, and the three of
  `MarkFinished`, `MarkPhase`, `MarkTime` and `MarkReason`.
* `SharedStash` -- the runs of one process over one file: each read of a patch, each comparison
  of its hash, the write and the two halves of stashing are steps of their own; validations of
  any run end in between, and the user edits.
* `DiffApplier` -- `parse_unified_diff` and the in-process applier as operators, the steps of
  `apply_run_diff` between which the user may edit.  `Parsed` is what the parser makes of a diff, with
  the lines of a hunk that it takes for headers.
* `RunMemory` over `RuleForge` -- snapshot and index; the handles of the run, of other runs that record
  too (`RecordElsewhere`), of the recall tool and of the desktop; the two consumers.
* `Validation` -- one `run_validation` at a time, its cache files, its kills.
* `BenchmarkAttempts`, `BenchmarkBatch`, `BenchmarkLock` -- each step of a process that writes a
  file, the kill between any two, and the process that comes after.  The watchdog of an attempt is a
  thread: `Stalls`, `WatchdogSaves` and `WatchdogExits` come between the agent's steps.  `SkipLock` is
  the case of a batch, which runs without the lock.
* `RetriedRun` -- one action per write of `quorp run` between which it may be killed: the agent in
  the directory of an attempt, `CopyEvent` and `CopyTrail` (`append_event_log`), the artifacts with
  the cursors, evaluator, reset, the run's own files and the receipt; `ResumeRun` and a second
  `StartRun` over what an earlier command left.  `Validates` writes the verify store of the workspace,
  which is the user's or a copy for each run, `HashedLog` is what the receipt hashes of it, and
  `Verifies` is `quorp proof verify`.  `RunLedger` has what happens inside one append.
* `ContextIndex` -- the steps of `build_index` for each builder (load, scan, read, date, store,
  commit), the reader that asks `index_status` and quotes, and the user.
* `LogFile` -- one process is one actor, since its threads log under a mutex; the pieces of a line,
  and the opening, copying and emptying of a rotation, are steps of their own.
* `CaseRepair` -- the benchmark part of `AgentTaskState`: the phase is one variable, the case
  ledger another; `Read`, `Edit`, `Preview`, `Validate` and the fast loop are each one action,
  made of what `allow_action` refuses and what `observe_outcome` and the phase transitions do.
* `MCEventFanout`, `MCAgentRun`, `MCWorkspace`, `MCCalls`, `MCStores` -- the values of the
  instances.  `MCCalls` and `MCStores` join modules that share no state: a variable `part` says
  which one moves in a behaviour, and each property asks of a part what that part's module states.  `RunLedger`'s constants are numbers, its configurations need
  no such module.
* `EventFanout_proofs`, `AgentRun_proofs`, `RunLedger_proofs`, `Workspace_proofs`,
  `Calls_proofs`, `Verdicts_proofs`, `RetriedRun_proofs`, `Stores_proofs` -- theorems.

Definitions whose comment begins "Fault for" are mistakes the code could contain; no
specification uses them.  They are the other half of the mutants.

## Abstractions

* `AgentRun` is a run without benchmark metadata: no case ledger, no repair phases.  Actions
  are reads, edits and validations; commands, MCP, browser actions, previews and compaction
  are left out, and so are hooks of the policy whose flags are all on by default.  Refusals
  that turn on text (size of a write, the third read with the same arguments, redundant reads
  of the scorecard) are nondeterministic.  The count of parser failures saturates at its
  budget and `redundant_inspection_turns` is its sign, because nothing else is compared.  A
  completion bills no or one unit.  `.toml` targets, which want a full reread, are left out.
  A failed validation tells the history that every file is unverified; any plan that passes,
  the format check included, counts as a validation, since that is how the code counts.
* `RunLedger`: the hash chain becomes "every line parses"; wake signals become a count, which
  `NewestSurvives` and `JoinedIsCaughtUp` of `EventFanout` justify; the journal, memory and
  rule forge of one consumer are one effect.  The snapshot and the writing of
  `checkpoint.json` in parts are left out.  A run always emits at least one event.
* `Workspace`: the session is the only writer, so the hashes and preview ids a plan repeats
  always match; paths that name one file twice, parent directories, `SetExecutable` and
  commands are left out; plans are below the limits of files.  A failing rollback write is
  left out.  The reference `base` restarts with the process, as the stash is in memory.
* `EventFanout`: subscribers register before the first event, as the runner does.
* `PermissionBroker`: ids are distinct (nanoseconds).  Nothing but tests calls the broker yet,
  so anyone may, at any time.
* `RunService`: the agent only emits and returns; what an event says is left out.  `status()` has no
  action: it keeps the locks it has taken until it returns, so it returns what the entry is when it
  takes the last of them.  At most `MaxCancelled` runs are cancelled, each as often as one likes.  The number of
  the next batch is a variable, as in the code, and counts batches that nobody received too.
* `McpClient`: the server is external and may answer late, twice, out of order, with an id
  nobody used, or exit.  A message that does not parse is a stray response.
* `LanguageServer`: one thread looks things up at a time, as the session is behind a lock; the
  wait for published diagnostics is left out.  The server is external, as for MCP.
* `Completion`: a chunk ends a line, has whole lines and begins another; a line is one of the
  kinds the parser tells apart.  Texts come in their order and are counted; of the other lines of
  a chunk only which kinds occur matters.  Time saturates beyond the last deadline, delays between two
  calls are not timed.  The provider is external and says nothing after `[DONE]`.
* `ManagedProcess`: one process; the child is external and may fall silent, stop reading or exit, and
  any line may be one that its reader cannot read.
  A `killpg` that fails while the group exists, and poisoned mutexes, are left out.
* `ShellCommand`: what is written, kept and told are sequences of bytes; the child writes a character
  of one byte or of two, or a byte that begins none, a read returns it or a part of it, and the
  replacement character has three bytes; the deadline may pass at any
  time.  The terminal's echo and the environment are left out.
* `SharedStash`: a content is the set of the edits it has, so that a lost edit is one that is
  missing; a patch updates one file, and writes it at once.  `Workspace` has the other kinds of
  patches, the edits that stash late, and failures.
* `DiffApplier`: a line is ordinary, blank, or begins with what makes it look like a header: `-- ` when
  deleted (`Dashed`), `++ ` when added (`Plussed`), `++ b/` and the name of a file when added (`Naming`).  All lines end with a newline.  `git apply` is external.
* `RunMemory`: facts are counted failures, the other tiers only append; ranking is left out.  Of other
  runs there are the handles (`OtherRuns`) and their records (`MaxElsewhere`); their consumers and
  rule forges are as the run's.
* `Validation`: a worktree is the number of its content, and what a command prints depends on
  it; how edits are stashed is `Workspace`'s.
* `BenchmarkAttempts`: a turn of the agent is one edit and one completion, which bills up to `MaxBill`
  tokens, none included; the judge is a predicate of the workspace that may change with each edit, and
  a benchmark of kind "unscored" has none.  `BenchmarkBatch`: a case is a
  process that leaves a report, an illegible one, or none.  `BenchmarkLock`: `BatchCases` are the
  processes that a batch has started.
* `RetriedRun`: the consumers share one cursor and a file is written as a whole, as are the files
  that one call copies or a run writes at its end.  An event is named by who recorded it, and its
  place in a ledger stands for its hash.  The verdict of the agent is open only where nobody
  evaluates; the evaluator is external, and one that prints JSON without `success` is left out.
  A reset command may take the evaluator's file or the verify store with it and may fail.  One raw log
  and its hash in the stage cache and in the oldest proof graph stand for the verify store; of an
  output only whether it is another one matters.  A copy that is kept (`--keep-sandbox`) is a workspace
  like the user's own, and a run may begin with a store that earlier runs have left.
* `ContextIndex`: a row of `files` stands for all the rows of its file, written in one
  transaction.  The database is external: one writer, commits at once, rollback by a kill.
* `LogFile`: sizes are counted in pieces of lines; a new count starts at the size the file has when
  it is opened, or at nothing when it was emptied at the start.
* `CaseRepair`: ranges of lines are around the failure, away from it, or absent.  Which rereads
  the loop guard refuses is left open; budgets are `AgentRun`'s, here a turn that may spend the
  last of one may end the run.  One preview is pending at a time.  The controller's own patches
  for named benchmark cases are left out.

## Runs and bounds

| Run | Shows | Why the bounds suffice |
|---|---|---|
| `event_fanout` | bounds, markers, order, joining and stopping | five events overflow both queues (a capacity of 1 is raised to 2, the other is 3) more than once, so markers are themselves evicted |
| `agent_run` | success is verified, validations drain first, iterations stay in budget | two iterations and one drain beyond them let a drain start before and past the budget; batches of two actions mix edit, read and validation in every order, with any mode and profile; one resume from any checkpoint |
| `agent_limits` | tokens, cancellation, clock, reread | single actions and no resume, since a batch changes none of these; a token budget of one is spent by the first billed turn of any kind; two parser failures spend that budget |
| `run_ledger` | commit order, delivery (refinement), completeness, termination | two consumers and two sessions of two events; a read or write may fail once and the process be killed at any step, so a torn line and a torn cursor both occur |
| `workspace` | stash before change, containment of a failed patch, rollback | three files (text, text or binary, absent); two edits, each a patch of up to two changes of every kind or a direct edit; one failed operation and one restart |
| `calls` | answers are owned and accounted for, streams come whole and in order, callers return, runs settle | two requests make a race between `resolve`, a timer and `cancel_all` of another run; two starts in one millisecond collide; three calls (the opener and two), and three lookups, with pipes of one message let responses cross and both sides fill; two calls of a completion with one retry, and deadlines of one to three units of time, let every timer end it first; two tools of a process, of which one stops it, meet at each step, with pipes of one line and an output of one, and a reader of a stream breaks off before, between and after two lines; five bytes of characters narrow, wide, cut and broken meet a limit of two bytes at, before and inside a character; one run is cancelled before, between and after the three writes of its end |
| `stores` | see the properties below | one or two writers more than the property speaks of, and as many failed writes as it takes to leave a file absent, old or torn |

In `stores`: some eight hundred diffs (every hunk of two lines at every place, two hunks, two
files, new and deleted ones, added lines that read like headers) against ten workspaces with one edit of the user; a failure that
comes back, two consumers, a second run that records once or a pass that fails, and three openings of the
memory (none any more once a record may be lost, `OpensInTime`); plans of one and two commands over
two contents with one failed write and any kill; two attempts, killed once and resumed, standard,
unscored and challenge, under a budget of one token and with bills of one and two (`BillsInTime`), so that the
first attempt stays within it or overshoots; two batches of two cases; three processes at the
lock, one more than a theft needs, and the case of a batch beside them; five case ledgers and six failures, two in a row; two runs
with three patches of one file, one edit of the user and two validations, which is what a
stale stash takes; two builders, one file, two edits and a clock of two milliseconds, so that an
edit falls in the millisecond of another, between read and date, and between two commits; two
commands, one kill and two attempts of one event each, which is a resume after either, a start over
an old directory, and a kill between any two writes of either, with two validations that print the same or
not, while the agent runs or between the commands (`ValidatesInTime`); two processes that log five pieces
into a log of two, one of whose file operations fails, which is two rotations with kills in them.

The two agent runs have one file.  What depends on more files, rereads and verified edits, is
proved for any number of them.

Five runs refute a sentence of the repository; the `findings` quote it.

* `agent_resume` (`NoUnverifiedSuccess`): an edit made after the last checkpoint is forgotten
  by a resume, whose state may be green, and the run reports success.
* `agent_turns` (`RunEnds`): a turn whose message contradicts its actions costs no iteration
  and no parser budget, so a run without a clock need not end.  The counterexample is fair.
* `ledger_resume` (`LedgerValidates`): a kill between a line and its newline, followed by a
  resume, leaves a ledger that never validates again.
* `patch_atomicity` (`FailureIsAtomic`): the undo of a failed patch removes an existing file
  that one of its moves overwrote.
* `rollback_writes` (`RollbackRestores`): direct edits stash their files after they have
  written them, so a rollback restores what they wrote.

Beside each refuted sentence the passing runs check what does hold: `SuccessIsVerified`,
`StopRequestHonoured`, `NothingLostQuietly`, `FailureIsContained` and `PatchesRollBack`, in the
order of the list.

Every configuration disables the check for deadlock except `event_fanout`, where stopping is
a stutter: a run that stopped for good, a session that is done and a workspace whose edits
are spent have nothing left to do.

`calls` and `stores` check what does hold where the code falls short of a comment, and their
properties name the exceptions.  What the code does there:

* Desktop: runs started in one millisecond share an id, so one's end marks the other's entry;
  `cancel_run` of a finished run moves its phase although it is documented as a no-op, and a
  start in flight overwrites an early `Cancelling`.  The end of a run is written field by field, so
  that a status may show its last phase without the time or the outcome, and a cancellation that falls
  between leaves `Cancelling` beside the outcome of a run that had ended.  The broker's entry of a dropped request
  stays until it is resolved, `resolve` then reports `Ok` to nobody; `cancel_all` times out
  the requests of every run.
* Diff applier: deleted lines that begin with `-- ` and deleted files are not parsed; an added line that
  begins with `++ ` is skipped as a header, and one that begins with `++ b/` drops the group so far and
  applies the rest of its hunk to the file it names; a new
  file's hunk is put before what is there, a hunk past the end panics, and the first failing
  write leaves the earlier ones, although the header promises all or nothing.
* Memory and rules: each of the two consumers takes both effects, so that one failure is
  enough for a rule that asks for two; a handle writes its own copy back over what another
  recorded, so two runs of one workspace that record by turns drop each other's records; opening a handle rebuilds the shared index from what it loaded.
* Validation: the key of the stage cache has no trace of the sources, a torn cache file fails
  each later validation of the plan, and the stash is cleared before the receipt is written.
* MCP: the loop does not read while it writes and nothing times out: a server that writes
  while its input is full jams both.  Outside the model: nobody reads the server's stderr
  (`quorp_mcp.rs:415`), which is closed after the handshake, so a server that fills it before does not answer.  A read error ends
  the loop as the end of the stream does.
* Completion: a line of the stream that does not parse, or that carries an error, is skipped, so
  a stream that reported an error and then ended is an answer; each chunk is decoded by itself,
  so a character cut by a chunk is lost; a last `[DONE]` without a newline fails.  The total
  timeout is looked at only when a chunk arrives or the idle timer ends; time spent backing off
  counts against the timeout of the first token; a body without a stream has no timer but the
  connection's; a cancellation is not looked at between retries, and what a failed attempt used
  is not billed.
* Language server: the write of a request has no timeout; when it fails its sender stays in the
  map; `workspace/applyEdit` of the server is answered with `applied: true` and nothing is done.
* Managed process: `process_write` writes with the mutex held that the readers need, and nothing
  has a timeout.  A child that writes while its input is full, or that does not read, jams it, and
  with it every tool of the process, `process_stop` included (`WriteJammed`).  A line that is not UTF-8,
  or any read error, ends its reader like the end of the stream: the rest of the stream is not shown, and
  the child, whose pipe nobody reads any more, gets SIGPIPE when it writes next.
* Shell commands: the copier is joined without a limit of time, so a descendant that keeps the
  terminal open holds the command after its shell has exited or its deadline has passed; the
  command of a validation has no deadline (`HeldOpen`).  The output is cut at a number of bytes,
  and inside a character `truncate` panics: a command that streams returns no output and possibly
  success, the thread of a validation dies, and its caller reads that a channel was closed.  Each read
  of up to 4096 bytes is decoded by itself, so a character that the end of a read cuts becomes a
  replacement character for each of its parts, although the child wrote valid text.
* Several runs: the stash of session 0 is everybody's, so a rollback undoes what other runs have
  not validated and a pass keeps what other runs are going to fail; a stash read before a
  verdict and entered after it, and a patch whose file changed between its read and its hash or
  after its last comparison, lose or bring back edits (`excused`).
* Benchmarks: an attempt whose evaluators passed but whose agent stopped otherwise is followed
  by another; an attempt killed with its agent is skipped by a resume that says "resuming"; a
  resume treats a challenge as a standard benchmark; a challenge with no limits goes on for ever;
  the watchdog's exit leaves the lock; the agent of an attempt that the watchdog has given up edits on until
  the process exits, while the report says that nothing was edited; a retry without a report is listed with the first run's
  summary; a starter may remove a lock that is being written or has changed hands.  A batch takes no lock
  and lets its cases run without one, so two batches, or a batch and a benchmark, run at once.  A
  standard benchmark without evaluator scripts is reported as a success with no verdict when its agent
  says so.  The tokens of a completion are compared with the budget when they are spent: an attempt
  overshoots it by one completion, and by one more for each resume.
* Quorp run: a finished run writes a `request.json` of another shape over the agent's, so it cannot
  be resumed; after a second attempt, killed before that, the run directory cannot be resumed
  either, because the copied cursor has the hash of another ledger (`StuckAsKnown`).  `quorp run`
  over an old result directory empties the ledgers of its attempts and keeps their cursors, so it
  fails when its agent has ended.  A kill between the copy of the events and that of the cursors
  makes a resume take their effects again (`uncovered`), and one between ledger and trail leaves
  the trail without them (`halves`).  A `benchmark-evaluation.json` left by an earlier attempt is
  the verdict of an evaluator that prints none (`stale`).  The receipt hashes the raw logs of the
  workspace, which the next validation of whatever run writes over, while stage cache and proof graphs
  keep the hash of the first pass: it does not verify once a validation has printed something else, and
  without `--keep-sandbox` never, since a copy of the workspace is removed with its run.  A proof graph
  that a kill has torn fails each later receipt, and the command of a run that passed.  Outside the model: a relative result
  directory is joined twice when the receipt is verified, and a trail cut inside a character
  makes every later event fail.
* Context index: two texts of one millisecond, or an edit between the read and the date of a
  build, pass as fresh for good (`misdated`); what is quoted is read after the check.
* Log file: after a rotation a process writes at its own offset, over what other processes append
  or beyond the end of a log they emptied, and the second to rotate replaces the old log by what is
  left.  A rotation that cannot open the log leaves the process without one.
* Desktop rollback and replay: the header of `rollback.rs` says that checkpoints are persisted into
  `events.jsonl`, but the recorder returns before it appends them, and writes its events one level
  below where both readers look: no checkpoint is found, and a replay fails at its first line.
* Case repair: the repair has no way on when the failing fast loop names no line
  (`NoLineToRead`), when the leased file is not the one in sight (`TargetOutOfSight`), when
  the owner is outside a narrow scope (`OutOfScope`), or when the only file to edit is a test that
  the case does not list as touched (`TestToEdit`).  After the first rerun the flag
  `post_fast_loop_validation_rerun_attempted` stays set, so a later cycle does not queue the
  fast loop and another plan's pass may end the run.

Smaller things met on the way.  `PendingValidationBlocked` lists the queue without the plan
that was popped.  After a failed queue, a passing format check the model asks for itself
grants green.  If a turn edits, fails a read and then switches to Ask, the next drain is
refused and the run ends as fatal with the edit unvalidated.  Resuming a run whose token
budget is spent makes one more request.

## Fairness

* `EventFanout`: weak fairness of the emitter, each worker and the owner.  They are threads,
  the lock is held for bounded work and the wait has a timeout, which is why `StopReturns`
  needs no notification.
* `AgentRun`: weak fairness of `RunStep`, the loop as a whole.  This assumes that completions and
  tools return: `Completion` shows it of a completion, while a validation has no deadline
  and a command may be held, as `ManagedProcess` and `ShellCommand` say.  Which answer comes
  is not fair, so a model may give the same useless answer for ever.  Cancellation, the clock,
  crashes and resumes have no fairness.
* `RunLedger`: weak fairness of recorder and owner, and of each consumer.  Crashes, failures
  and resumes have none.
* `Workspace` and `stores` state no liveness property.
* `calls`: one weak fairness condition per part: of the steps that do not depend on somebody's
  wish, one is taken while any can be.  Every behaviour of a part has finitely many of them, so this
  is enough, and weaker than a condition per thread.  The steps are those of tasks of an async runtime,
  timers and threads: polled requests and their timers; the task of a run and its drainer; the
  MCP loop, polled calls and a server that serves; the calling thread, the reader and a language
  server that reads and writes; the client of a completion and the passing of time; the tools,
  readers and reaper of a process, a child that reads and writes, the death of one that is
  killed; the threads of a command and the death of its shell.  There is none for an agent that
  emits, cancellations, a server's or a child's exit, a frontend that closes, chunks of a stream
  and their end, a command's deadline, or a descendant.  `CallersReturn` is one formula for all
  of them: again and again nobody waits, except in a jam that the list above names.

## Proofs

All theorems hold for every value of the constants that satisfies the named assumptions.

* `EventFanout_proofs`: `TypeOK`, `QueueBounded`, `NoSilentLoss`, `NewestSurvives`,
  `JoinedIsCaughtUp`, `HandledInOrder`.  The core is a lemma on `PushBoundedEvent`: a full queue gives up two
  entries for marker and event, which fits because no capacity is below 2.  The invariant adds
  where each thread stands (`Control`), that what is delivered grows with what is recorded
  (`Progress`) and that batches end with the newest event (`NewestEnds`), which joining needs.
  The order is that of one sequence per subscriber, handled, batch and queue put together, which
  a drain leaves as it is and a push only shortens in the middle and extends at the end (`Ordered`).
* `AgentRun_proofs`: `TypeOK`, `SuccessIsVerified`, `DrainedBeforeModel`,
  `IterationsBounded`, `RereadBeforeEdit`, and `TokenBudgetRespected` for a budget other than
  zero (a budget of zero is looked at only after the first turn).  None is inductive alone.
  `IInv` says in addition that streaks are below their limits while the run goes on, in
  memory and in the checkpoint (`Streaks`); that a green verdict covers every edit accounted
  for, in both (`Accounted`; a resume would otherwise restore a verdict older than the edits);
  that iterations past the budget were paid for by drains (`Budgets`); that the requirement
  names the file of the failed edit (`RereadKept`); that the loop is entered with tokens left
  (`TokensLeft`).  Each way a step may end (`EndTurn`, `EndRun`, `EndDrain`, a guard, a step
  within a batch) has a lemma, and each action is one case that instantiates one of them.
* `RunLedger_proofs`: `TypeOK`, `CommittedAfterEffects`, `DoneIsCaughtUp`, `NothingLostQuietly` and
  `Delivers`, the refinement.  The invariant fixes, for each place of a pass, how its copy of the cursor, the
  cursor on disk and the last effect lie to one another (`Place`).  For loss it adds that, while
  nothing has failed, a missing event leaves a ledger that does not parse, which no session
  catches up with (`Marked`).
* `Workspace_proofs`: `TypeOK`, `StashedBeforeChange`, `FailureIsContained`,
  `PatchesRollBack`.  The invariant says what the stash holds (`StashAgrees`), that a patch
  under way touches only what is stashed (`EditCovered`) and how its pre-images relate to the
  worktree it began with (`EditInProgress`).
* `Calls_proofs`, the desktop core: the types of broker and run service, `AnswersAccounted`, the
  refinement `BrokerReplies`, `StatusTracksTask` and `StreamInOrder`.  For the broker the invariant
  says in whose hands the sender of a request is (`OneHand`) and that it is used once (`SentOnce`):
  with both, who hears what follows.  For run status it says that the registry has an entry for
  every task (`RegistryAgrees`), where a task stands before its end (`BeforeTheEnd`), and what an entry
  has between the three writes of its end.  For
  streams it says how far agent, drainer and task are (`RunCounts`: a real run is marked only when
  its drainer has numbered everything) and that a channel that is open has `RunStarted` and every
  batch so far, the last of which ends where the next one begins (`RunStream`).
* `Calls_proofs`, the clients: the refinements `McpReplies` and `LspReplies`, and `CallsTypeOK`
  and `CallsAccounted` of everything that `calls` puts together.
  - MCP: every message in a pipe is genuine, an id is in one place only, and the numbers of ids
    grow.  Language server: a request that was written is of the call that waits or of one that is
    over (`RequestsAreOfCalls`), so a result finds its own sender or none (`FoundOnce`).
  - Managed process: who holds the mutex (`ToolsKnow`), that the process is marked as exited only
    when its child was reaped (`ExitIsReaped`), and that the kept lines are the end of what was
    read (`TailIsShown`), which the lemma `PushedIsTail` carries over each push; of a stream whose reader
    broke off what is lost is what comes after.
  - Shell command: the copier has kept the beginning of the text it has read and told all of it, and
    that text shows every byte read: the history `origin` says of which byte each part of the text is,
    and the places where reads ended say which could not be shown (`CopierKnows`); who waits has reaped the shell (`WaiterKnows`).
  - Completion: posts are counted per call and round (`PostsCounted`), the client does not wait
    longer than the first timer that is due (`WaitBounded`), and what it read is what was said
    since the stream began (`TextsRead`).
  - A step of `MCCalls` is a step of one part, and a stutter of the others (`CallsParts`).
* `Verdicts_proofs`, verdicts: of `Validation` the types, `PassIsCurrent` and `FailureIsExplained`, the last
  under the assumption `PlansAreSets` that no plan names a command twice.  The stash holds what was
  there before the edits (`StashIsClean`), the outputs are those of the content (`CommandsSoFar`),
  and the stages of a receipt are those of this run or of a cache (`ReceiptSoFar`).  Of
  `SharedStash` the invariant (`SharedInv`) says which edits the disk, the stash, and each text that
  is about to be written have (`EditsWritten`, `StashIsJudged`, `PatchInv`), up to those that
  the history excuses.  Of `CaseRepair` it says that phase and ledger agree, what each phase knows
  (`PhaseKnows`), what is left of a turn (`RestFits`) and that the rerun of the fast loop comes
  before any other validation (`RerunComesFirst`); `StuckInFourWays` then goes through the phases.
  The fourth way, `TestToEdit`, was found by the proof: no instance had had a case without a file
  to edit but a test, so one was added to the ledgers of `stores`.
* `Verdicts_proofs`, diffs: `AppliesTheDiff`, for diffs of any number of groups, hunks and lines and
  for any workspaces: the types of `DiffApplier`, `RefusalChangesNothing` and `AppliedIsTheDiff`, which
  compares what `apply_run_diff` reports as applied with git's patch of what it read.
  The applier and the reference go over a hunk line by line and over a group hunk by hunk.  Both are
  recursive functions, and the proof is an induction over the number of lines, then of hunks
  (`LineMeans`, `HunkMeans`): if a set has zero and with each number the next, it has them all,
  because a least number outside it (`WFMin` of the library) would have a predecessor inside.
  This needs no theorem that takes an operator.  The comparison is about the groups that the parser sees whole (`Seen`), for which the parsed group is the
  group itself, in files that no other group is misread for (`Misread`); what is said of refusals, and of the files that
  are not written, is about all groups.
  `ApplyInv` then says that a staged text is that
  of the text read (`StagedAsRead`), that a commit begins with every group staged (`CommitsWhole`), and what
  the writes done so far have left (`WrittenAsStaged`, `GitApplied`).
* `Stores_proofs`: `LockExclusive`, which is mutual exclusion unless a lock was removed that its
  remover had not read: what was read of a dead holder stays stale (`StaleStaysStale`) and the file
  named is owned by who created it (`FileIsOwned`); it is about those who take the lock, whatever the cases of batches
  do beside them.  `RecordsKept`, for any number of runs that record, and `RulesFollowFailures`: a
  handle that is fresh has what the snapshot has (`FreshIsSnapshot`), what is being loaded is all
  there is (`LoadedIsTotal`), and a rule that is active has had no false positive (`RuleInv`); the
  model's assumption that there are finitely many consumers is needed to count who has still to
  decide.  Of `ContextIndex`, `FreshIsCurrent` and `BuildRepairs`: a row with the time of a file has
  its text (`RecordsDated`) unless the file is misdated, and what an undisturbed builder has
  collected is what the disk has (`BuilderKnows`).  Of `BenchmarkBatch`, `SummaryIsTruthful`: the
  list in memory tells of the cases before the one that is run (`AtCase`), and so does the summary
  that was written of it.  Of `LogFile`, `RecentLinesKept` and `LogBounded`: while processes log one
  after the other, the log, with the old one before it or alone, is an end of what was written
  (`RecentKept`); of those that log at the same time each can add what is left to it (`RoomLeft`).  The model's
  assumption that there are finitely many processes is needed to count them.  From
  these, `Verdicts_proofs` and `RetriedRun_proofs` follows every invariant of `stores` about
  all twelve parts that it puts together: `StoresTypeOK`, `AppliedOrRefused`, `RecordsKept`,
  `RulesFollowFailures`, `VerdictsExplained` (under `PlansAreSets`, which the instance satisfies),
  `RepairKeepsMoving` and `ReportsTruthful`.  A step of `MCStores` is a step of one part and a stutter of the
  others (`PartSteps`).
* `RetriedRun_proofs`, `quorp run`: `TrailFollowsLedger`, `EffectsOnce`, `StuckAsKnown`, `PassIsDeserved` and
  `ReceiptStands`, for any numbers of attempts, events, commands and kills.  `RunInv` says of every
  event in a ledger, a cursor or a trail that its command was not later than this one (`Recorded`)
  and that no ledger has one twice (`Once`); that a cursor either reaches into its ledger or has another
  beginning (`Followed`), that what is past it was not taken (`Untaken`), and what
  a run has of the attempt that is being copied (`InCopy`).  `FiledFirst` relates how often an attempt
  began and how many were filed to the cursors, from which `StuckAsKnown` follows; `Proven` says that
  a receipt has the hashes of the run, or the ledger of the run has grown since, and `StoreKept` that
  the logs and hashes of the user's workspace, and of the receipt, are of what validations have printed, so that they are
  one while all print the same.
  The proof found that the model let an agent stop that had said nothing, which no way through
  `runtime.rs` does: every stop records an event first.
* `RetriedRun_proofs`, benchmarks: `AttemptReports`, the types of `BenchmarkAttempts` and
  `ReportIsCurrent`, `ReportIsHonest` and `BudgetKept`, for any numbers of attempts, tokens, edits and
  processes.  `AttemptsInv` says of every judged attempt, in memory, in its directory and in the report,
  what made it a success (`AttemptsSound`); a success without a verdict is one of a benchmark that nobody judges, or of a
  challenge that was resumed.  Until a run is begun a second time it says (`FirstRun`) that directories
  are those of the first attempts, that attempts are known in their order, that what was judged is
  what the workspace has (`AttemptsCurrent`), and that an agent is allowed what the saved attempts
  before its own have left (`HeldInBudget`).
  The tokens are summed, and the saved attempts collected, by recursive functions; the lemmas on them are
  inductions of the kind above (`EveryNumber`).
  TLC has checked the invariant on two attempts, three edits and two processes, and the
  properties also on three attempts and three processes.  `BudgetKept` allows for the completion that ends an attempt
  and for one more of each resume, whatever a completion bills, and has an exception, a second run in
  the directory, after which an attempt may be listed twice.  The proof found that two cases of
  `Workspace` overlapped, so that only TLC's order of evaluation chose between them.

Model-checked only:

* the liveness properties (`StopReturns`, `StopRequestHonoured`, `SessionEnds`, `CallersReturn`),
  since the prover has no rule for fairness;
* what a fault would do: the mutants are TLC's.

Every invariant and every safety property of the passing runs is stated by a theorem, two of them under a
condition: `VerdictsExplained` for plans that name no command twice, and `TokenBudgetRespected` for a budget
other than zero.  What TLC adds for these is that the instances reach the interesting cases.

## Not modelled

Most of the implementation's lines are outside what a model of behaviour can stand for.
`crates/quorp` repeats the sources of `quorp_cli` and `quorp_session`; the map names the latter.
Terminal rendering, prompts, tool schemas, the recovery of tool calls from free text
(`turn_parse.rs`), scoring and scripts of the benchmark, ranking of context and the parsing of
compiler output are functions from text to text whose properties are about wording.  The
browser tools are not modelled because they cannot run: the driver script that
`process_browser.rs` writes declares `networkErrors` with `let` (line 1017) and again as a
function (line 1076), which node rejects before the first line runs.  The
desktop application forwards to the desktop core, whose rollback and replay find nothing in what a
run writes.  Support crates are configuration, paths and the filter of log scopes.

## Plan

Done, in this order: event fan-out, agent loop, ledger, workspace; then broker, run service and
MCP client with their abstract statement; stores, validation, benchmarks and case repair;
language server, completion and the shared stash; managed processes and shell commands; context
index, `quorp run` and the log file.  Next:

1. Commands and previews among the actions of `AgentRun`, and its composition with `CaseRepair`.
2. Proofs: that `EventFanout` implements the wake count of `RunLedger`.
