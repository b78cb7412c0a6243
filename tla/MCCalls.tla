------------------------------ MODULE MCCalls ------------------------------
(* Whoever waits for an answer of another, for TLC: the permission broker and the run service of *)
(* the desktop core, the clients of an MCP server, of a language server and of the remote model, *)
(* the tools of a managed process and a command in a shell.  They share no state, so a behaviour *)
(* is one of one part: the others stay in their initial states.                                  *)
EXTENDS PermissionBroker, RunService, McpClient, LanguageServer, Completion, ManagedProcess, ShellCommand

VARIABLE part

\* One real and one demo run, or two demo runs.
MCKinds == <<{"demo", "real"}, {"demo"}>>

\* The tools that two threads run.
MCJobs == {<<"write", "stop">>, <<"port", "stop">>, <<"stop", "stop">>, <<"read", "stop">>}

desktopVars == <<brokerVars, runVars>>
remoteVars == <<mcpVars, lspVars, completionVars>>
childrenVars == <<processVars, commandVars>>

\* The part chooses among the initial states; the others take one of theirs.
MCInit ==
    /\ part \in {"broker", "runs", "mcp", "lsp", "completion", "process", "command"}
    /\ BrokerInit /\ RunInit /\ McpInit /\ LspInit /\ CompletionInit /\ ProcessInit /\ CommandInit
    /\ part # "process" => job = <<"write", "stop">>
    /\ part # "command" => how = "streaming"

MCVars == <<part, desktopVars, remoteVars, childrenVars>>

MCNext ==
    \/ part = "broker" /\ BrokerNext /\ UNCHANGED <<part, runVars, remoteVars, childrenVars>>
    \/ part = "runs" /\ RunNext /\ UNCHANGED <<part, brokerVars, remoteVars, childrenVars>>
    \/ part = "mcp" /\ McpNext /\ UNCHANGED <<part, desktopVars, lspVars, completionVars, childrenVars>>
    \/ part = "lsp" /\ LspNext /\ UNCHANGED <<part, desktopVars, mcpVars, completionVars, childrenVars>>
    \/ part = "completion" /\ CompletionNext /\ UNCHANGED <<part, desktopVars, mcpVars, lspVars, childrenVars>>
    \/ part = "process" /\ ProcessNext /\ UNCHANGED <<part, desktopVars, remoteVars, commandVars>>
    \/ part = "command" /\ CommandNext /\ UNCHANGED <<part, desktopVars, remoteVars, processVars>>

\* What runs on: a polled request() and its timer; the task of a run and its drainer; the task of the
\* MCP loop, a polled call, a server that serves; the thread that looks up, the one that reads its
\* results, a language server that reads and writes; the client of a completion, and time; the threads
\* of a managed process, a child that reads and writes, the death of one that is killed; the threads of
\* a command and the death of its shell.  Nobody of a part runs on for ever, so it is enough
\* that one of those that can run does.
MCFairness ==
    /\ WF_brokerVars(part = "broker" /\ \E r \in Requests : AskerRuns(r))
    /\ WF_runVars(part = "runs" /\ \E s \in Starts : RunTask(s) \/ Drainer(s))
    /\ WF_mcpVars(part = "mcp" /\ (LoopStep \/ ServerServes \/ \E c \in Callers : CallerRuns(c)))
    /\ WF_lspVars(part = "lsp" /\ (CallingThread \/ Reader \/ PeerServes))
    /\ WF_completionVars(part = "completion" /\ (ClientRuns \/ TimePasses))
    /\ WF_processVars(/\ part = "process"
                      /\ \/ ChildServes \/ ChildDies
                         \/ (\E t \in Tools : ToolRuns(t)) \/ (\E s \in Streams : LineReader(s)))
    /\ WF_commandVars(part = "command" /\ (Copier \/ Waiter \/ ShellDies))

MCSpec == MCInit /\ [][MCNext]_<<part, desktopVars, remoteVars, childrenVars>> /\ MCFairness

-----------------------------------------------------------------------------
\* Every variable of them keeps its type.
CallsTypeOK ==
    /\ BrokerTypeOK /\ RunTypeOK /\ McpTypeOK /\ LspTypeOK /\ CompletionTypeOK
    /\ ProcessTypeOK /\ CommandTypeOK

\* What comes in pieces comes whole, in order and in time: the events of a run; the answer of the
\* remote model, which no retry mixes with another; the output of a managed process and of a command.
StreamsWhole ==
    /\ StreamInOrder
    /\ AnswerIsWhole /\ PostsBounded /\ StreamTimely
    /\ OutputIsTail /\ OutputIsWhole

\* What a call took is given back when it is over: a language server's sender, the child of a managed
\* process that was stopped, which nothing else than its own stop signals, and a command's processes.
NothingLeftBehind == NoSenderLeaks /\ StopsItsChild /\ TimeoutEndsGroup

\* Both of them.
CallsAccounted == StreamsWhole /\ NothingLeftBehind

\* Whoever waits returns, again and again: the requests of the broker, the runs, the calls to MCP
\* and language servers, the completions, the tools of a managed process and the commands.
CallersReturn ==
    []<>(NobodyAsks /\ RunsSettled /\ NoCallWaits /\ NoLookupWaits /\ CompletionOver /\ NoToolWaits /\ CommandOver)
=============================================================================
