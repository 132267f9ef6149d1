------------------------------ MODULE ClaudeCli ------------------------------
(***************************************************************************)
(* The Claude CLI subprocess behind one ClaudeSDKClient, as the daemon     *)
(* uses it (the SDK is a library: nothing here is daemon code).            *)
(*                                                                         *)
(* Queries queue up in cliIn; the CLI runs one thing at a time and pushes  *)
(* what it produces on one shared message stream:                          *)
(*   "asst"       an AssistantMessage                                      *)
(*   "result"     a ResultMessage that ends a run (success, error, abort)  *)
(*   "retryable"  a ResultMessage with one of _RETRYABLE_API_STATUSES      *)
(*   "started", "progress", "done"  Task{Started,Progress,Notification}    *)
(*   "eof"        the stream is closed; every later read sees it again     *)
(* When a background task finishes, the CLI may run a turn nobody asked    *)
(* for (run id Agent): the model reacts to the finished task.              *)
(*                                                                         *)
(* Faults says which failures of the CLI and the network may happen:       *)
(*   "lost_terminal"  an interrupted run ends without a ResultMessage      *)
(*   "lost_notice"    a task ends without a TaskNotification               *)
(*   "slow_cli"       the CLI may need longer than a drain is waited for   *)
(*   "cli_exit"       the subprocess may exit                              *)
(*   "db_error"       a transcript write may raise (AgentSession)          *)
(***************************************************************************)
EXTENDS Naturals, Sequences

CONSTANTS Turns,      \* the user turns, each enqueued at most once
          Tasks,      \* background tasks a run may launch
          Faults,
          MaxErrors,  \* bound: retryable API errors in a behaviour
          MaxStream   \* bound: messages buffered on the stream

Agent  == "agent"    \* the run id of an agent-initiated turn
NoRun  == "no_run"
NoTask == "no_task"
FaultKinds == {"lost_terminal", "lost_notice", "slow_cli", "cli_exit", "db_error"}

ASSUME CliAssumption ==
    /\ Faults \subseteq FaultKinds
    /\ {Agent, NoRun} \cap Turns = {}
    /\ NoTask \notin Tasks
    /\ MaxErrors \in Nat /\ MaxStream \in Nat

Runs == Turns \union {Agent, NoRun}

VARIABLES cliUp,     \* the subprocess is running and connected
          cliIn,     \* queries written and not yet taken up
          cliInt,    \* an interrupt request was written
          cliRun,    \* what the CLI is running
          cliSaid,   \* the current run produced its (one) AssistantMessage
          cliTasks,  \* tasks running in the CLI
          cliUsed,   \* tasks launched so far
          cliReact,  \* a finished task still has to be reacted to
          cliErrors, \* retryable errors so far
          stream     \* messages produced and not yet read

cliVars == <<cliUp, cliIn, cliInt, cliRun, cliSaid, cliTasks, cliUsed,
             cliReact, cliErrors, stream>>

TaskKinds   == {"started", "progress", "done"}
ResultKinds == {"result", "retryable"}
Msg == [kind : TaskKinds, by : {NoRun}, task : Tasks]
       \union [kind : ResultKinds \union {"asst", "eof"}, by : Runs, task : {NoTask}]

RunMsg(kind, r)  == [kind |-> kind, by |-> r, task |-> NoTask]
TaskMsg(kind, k) == [kind |-> kind, by |-> NoRun, task |-> k]
Eof == RunMsg("eof", NoRun)

\* What is left to read once the head of the stream was read: "eof" stays.
Rest == IF Head(stream) = Eof THEN stream ELSE Tail(stream)

CliTypeOK ==
    /\ cliUp \in BOOLEAN /\ cliInt \in BOOLEAN
    /\ cliSaid \in BOOLEAN /\ cliReact \in BOOLEAN
    /\ cliIn \in Seq(Turns) /\ cliRun \in Runs
    /\ cliTasks \subseteq Tasks /\ cliUsed \subseteq Tasks
    /\ cliErrors \in Nat /\ stream \in Seq(Msg)

CliInit ==
    /\ cliUp = FALSE /\ cliIn = <<>> /\ cliInt = FALSE /\ cliRun = NoRun
    /\ cliSaid = FALSE /\ cliTasks = {} /\ cliUsed = {} /\ cliReact = FALSE
    /\ cliErrors = 0 /\ stream = <<>>

Emit(m) == /\ cliUp
           /\ Len(stream) < MaxStream
           /\ stream' = Append(stream, m)

(***************************************************************************)
(* What the CLI does by itself.                                            *)
(***************************************************************************)
CliTakeQuery ==
    /\ cliUp /\ cliRun = NoRun /\ cliIn # <<>>
    /\ cliRun' = Head(cliIn)
    /\ cliIn' = Tail(cliIn)
    /\ cliSaid' = FALSE
    /\ UNCHANGED <<cliUp, cliInt, cliTasks, cliUsed, cliReact, cliErrors, stream>>

CliReactToTask ==
    /\ cliUp /\ cliRun = NoRun /\ cliReact
    /\ cliRun' = Agent
    /\ cliReact' = FALSE
    /\ cliSaid' = FALSE
    /\ UNCHANGED <<cliUp, cliIn, cliInt, cliTasks, cliUsed, cliErrors, stream>>

CliSay ==
    /\ cliRun # NoRun /\ ~cliSaid
    /\ Emit(RunMsg("asst", cliRun))
    /\ cliSaid' = TRUE
    /\ UNCHANGED <<cliUp, cliIn, cliInt, cliRun, cliTasks, cliUsed, cliReact, cliErrors>>

CliFinishRun ==
    /\ cliRun # NoRun
    /\ Emit(RunMsg("result", cliRun))
    /\ cliRun' = NoRun
    /\ UNCHANGED <<cliUp, cliIn, cliInt, cliSaid, cliTasks, cliUsed, cliReact, cliErrors>>

CliApiError ==
    /\ cliRun \in Turns /\ cliErrors < MaxErrors
    /\ Emit(RunMsg("retryable", cliRun))
    /\ cliRun' = NoRun
    /\ cliErrors' = cliErrors + 1
    /\ UNCHANGED <<cliUp, cliIn, cliInt, cliSaid, cliTasks, cliUsed, cliReact>>

\* An interrupt aborts the current run; with nothing running it does nothing.
CliInterrupt ==
    /\ cliUp /\ cliInt
    /\ cliInt' = FALSE
    /\ cliRun' = NoRun
    /\ \/ cliRun # NoRun /\ Emit(RunMsg("result", cliRun))
       \/ (cliRun = NoRun \/ "lost_terminal" \in Faults) /\ UNCHANGED stream
    /\ UNCHANGED <<cliUp, cliIn, cliSaid, cliTasks, cliUsed, cliReact, cliErrors>>

CliLaunchTask(k) ==
    /\ cliRun # NoRun /\ k \notin cliUsed
    /\ Emit(TaskMsg("started", k))
    /\ cliTasks' = cliTasks \union {k}
    /\ cliUsed' = cliUsed \union {k}
    /\ UNCHANGED <<cliUp, cliIn, cliInt, cliRun, cliSaid, cliReact, cliErrors>>

CliTaskProgress(k) ==
    /\ k \in cliTasks
    /\ Emit(TaskMsg("progress", k))
    /\ UNCHANGED <<cliUp, cliIn, cliInt, cliRun, cliSaid, cliTasks, cliUsed, cliReact, cliErrors>>

CliTaskDone(k) ==
    /\ k \in cliTasks
    /\ cliTasks' = cliTasks \ {k}
    /\ \/ Emit(TaskMsg("done", k)) /\ cliReact' \in {cliReact, TRUE}
       \/ cliUp /\ "lost_notice" \in Faults /\ UNCHANGED <<stream, cliReact>>
    /\ UNCHANGED <<cliUp, cliIn, cliInt, cliRun, cliSaid, cliUsed, cliErrors>>

CliExit ==
    /\ cliUp /\ "cli_exit" \in Faults
    /\ cliUp' = FALSE
    /\ cliIn' = <<>> /\ cliInt' = FALSE /\ cliRun' = NoRun
    /\ cliTasks' = {} /\ cliReact' = FALSE
    /\ stream' = Append(stream, Eof)
    /\ UNCHANGED <<cliSaid, cliUsed, cliErrors>>

CliNext ==
    \/ CliTakeQuery \/ CliReactToTask \/ CliSay \/ CliFinishRun \/ CliApiError
    \/ CliInterrupt \/ CliExit
    \/ \E k \in Tasks : CliLaunchTask(k) \/ CliTaskProgress(k) \/ CliTaskDone(k)

(***************************************************************************)
(* What the daemon does to the CLI, for the modules that use this one.     *)
(***************************************************************************)
\* connect(): a fresh subprocess with an empty stream.
CliOpen == /\ cliUp' = TRUE
           /\ UNCHANGED <<cliIn, cliInt, cliRun, cliSaid, cliTasks, cliUsed,
                          cliReact, cliErrors, stream>>

\* disconnect(): the subprocess, its tasks and its stream are gone.
CliClose == /\ cliUp' = FALSE
            /\ cliIn' = <<>> /\ cliInt' = FALSE /\ cliRun' = NoRun
            /\ cliTasks' = {} /\ cliReact' = FALSE /\ stream' = <<>>
            /\ UNCHANGED <<cliSaid, cliUsed, cliErrors>>

\* Requests written to a subprocess that has exited are lost.
CliWriteQuery(t) ==
    /\ cliIn' = IF cliUp THEN Append(cliIn, t) ELSE cliIn
    /\ UNCHANGED <<cliUp, cliInt, cliRun, cliSaid, cliTasks, cliUsed,
                   cliReact, cliErrors, stream>>

CliWriteInterrupt ==
    /\ cliInt' = cliUp
    /\ UNCHANGED <<cliUp, cliIn, cliRun, cliSaid, cliTasks, cliUsed,
                   cliReact, cliErrors, stream>>

\* One message is read off the stream.
CliRead == /\ stream # <<>>
           /\ stream' = Rest
           /\ UNCHANGED <<cliUp, cliIn, cliInt, cliRun, cliSaid, cliTasks,
                          cliUsed, cliReact, cliErrors>>
=============================================================================
