---------------------------- MODULE AgentSession ----------------------------
(***************************************************************************)
(* One chat session of the daemon: the owner task of AgentSession          *)
(* (daemon/agent_session.py) and the handlers that run beside it on the    *)
(* event loop, over the Claude CLI of module ClaudeCli.                    *)
(*                                                                         *)
(* A step is what the code does between two awaits at which another task   *)
(* can run.  pc says at which await the owner task is:                     *)
(*   "connect"   ClaudeSDKClient.__aenter__ in _serve                      *)
(*   "loop"      about to start a pass of the serve loop                   *)
(*   "idle"      asyncio.wait on {queue.get(), _recv_one()} in _await_work *)
(*   "expired"   that wait timed out, its two tasks are being cancelled    *)
(*   "dequeued"  holds turn cur, the idle read is being cancelled          *)
(*   "starting"  recording the user's line of turn cur                     *)
(*   "query"     about to write the query of cur to the CLI                *)
(*   "stream"    reading the response of cur                               *)
(*   "backoff"   sleeping between two attempts                             *)
(*   "bgstart", "bg"  relaying an agent-initiated turn                     *)
(*   "drain"     discarding the rest of an interrupted turn                *)
(*   "report"    recording "turn error" after a relay raised               *)
(*   "finish"    in the finally clause of a turn                           *)
(*   "reopen"    _serve returned _RECONNECT                                *)
(*   "closing"   _serve returned or raised, the session is winding down    *)
(*   "done"      the owner task has ended                                  *)
(***************************************************************************)
EXTENDS ClaudeCli

CONSTANTS Recording,     \* the turns with record_user (typed messages)
          MaxAttempts,   \* _MAX_TURN_ATTEMPTS
          MaxStops,      \* bound: clicks on Stop
          MaxReconnects, \* bound: reconnect requests
          None           \* Python's None

Wake == "wake"             \* the _RECONNECT marker on the queue
Unprompted == "unprompted" \* what an agent-initiated reply is relayed under

ASSUME SessionAssumption ==
    /\ Recording \subseteq Turns
    /\ None \notin Turns \union Msg \union {Wake} /\ Wake \notin Turns
    /\ Unprompted \notin Turns
    /\ MaxAttempts \in Nat \ {0}
    /\ MaxStops \in Nat /\ MaxReconnects \in Nat

VARIABLES
    queue,      \* _queue: the transport of turns and wake markers
    pending,    \* _pending: the turns shown as waiting (their order is queue's)
    skipped,    \* _skipped
    deferred,   \* _deferred
    heldBack,   \* _held_back
    got,        \* the result of the idle wait's queue.get(), None while it runs
    recvd,      \* the result of the idle wait's stream read, None while it runs
    tasks,      \* _tasks
    stalled,    \* _tasks_stalled
    indicator,  \* _indicator_on
    interrupting,      \* _interrupting
    reconnectPending,  \* _reconnect_pending
    asking,     \* a reconnect() is awaiting its interrupt()
    resume,     \* the current _serve was given a resume id
    sdk,        \* _sdk_session_id is set
    pc, cur,    \* the owner task and the turn it holds
    attempt, relayed,  \* locals of _run_turn and _attempt_turn
    \* history and bounds
    submitted,  \* the turns enqueued, in order
    ran,        \* the turns started, in order
    skipOk,     \* the turns skip() reported as skipped
    relays,     \* <<run that wrote a reply, what it was relayed under>>
    noticed,    \* tasks whose TaskNotification the owner has read
    stops, reconnects

turnVars == <<queue, pending, skipped, deferred, got, submitted, ran, skipOk>>
taskVars == <<tasks, stalled, indicator>>
flagVars == <<interrupting, reconnectPending, asking, stops, reconnects>>
runVars  == <<pc, cur, attempt, relayed, heldBack, recvd>>
talkVars == <<resume, sdk, relays, noticed>>
vars == <<turnVars, taskVars, flagVars, runVars, talkVars, cliVars>>

Elems(s) == {s[i] : i \in DOMAIN s}

TurnTypeOK ==
    /\ queue \in Seq(Turns \union {Wake})
    /\ pending \subseteq Turns /\ skipped \subseteq Turns /\ skipOk \subseteq Turns
    /\ deferred \in Turns \union {None}
    /\ got \in Turns \union {Wake, None}
    /\ submitted \in Seq(Turns) /\ ran \in Seq(Turns)

TaskTypeOK ==
    /\ tasks \subseteq Tasks
    /\ stalled \in BOOLEAN /\ indicator \in BOOLEAN

FlagTypeOK ==
    /\ interrupting \in BOOLEAN /\ reconnectPending \in BOOLEAN /\ asking \in BOOLEAN
    /\ stops \in Nat /\ reconnects \in Nat

RunTypeOK ==
    /\ pc \in {"connect", "loop", "idle", "expired", "dequeued", "starting", "query",
               "stream", "backoff", "bgstart", "bg", "drain", "report", "finish",
               "reopen", "closing", "done"}
    /\ cur \in Turns \union {None}
    /\ pc \in {"dequeued", "starting", "query", "stream", "backoff"} => cur \in Turns
    /\ attempt \in 0 .. MaxAttempts /\ relayed \in BOOLEAN
    /\ heldBack \in Msg \union {None} /\ recvd \in Msg \union {None}
    /\ pc = "backoff" => attempt < MaxAttempts

TalkTypeOK ==
    /\ resume \in BOOLEAN /\ sdk \in BOOLEAN
    /\ relays \subseteq Runs \X (Turns \union {Unprompted})
    /\ noticed \subseteq Tasks

TypeOK == /\ CliTypeOK /\ TurnTypeOK /\ TaskTypeOK
          /\ FlagTypeOK /\ RunTypeOK /\ TalkTypeOK

Init ==
    /\ CliInit
    /\ queue = <<>> /\ pending = {} /\ skipped = {}
    /\ deferred = None /\ heldBack = None /\ got = None /\ recvd = None
    /\ tasks = {} /\ stalled = FALSE /\ indicator = FALSE
    /\ interrupting = FALSE /\ reconnectPending = FALSE /\ asking = FALSE
    /\ resume \in BOOLEAN /\ sdk = resume
    /\ pc = "connect" /\ cur = None /\ attempt = 0 /\ relayed = FALSE
    /\ submitted = <<>> /\ ran = <<>> /\ skipOk = {}
    /\ relays = {} /\ noticed = {}
    /\ stops = 0 /\ reconnects = 0

\* _turn_active holds exactly while the owner is at one of these awaits.
TurnActive == pc \in {"query", "stream", "backoff", "bg", "drain", "report", "finish"}
IsLive     == pc # "done"

(***************************************************************************)
(* Handlers: they run on the event loop whenever the owner task awaits.    *)
(***************************************************************************)
Enqueue(t) ==
    /\ IsLive
    /\ t \notin Elems(submitted)
    /\ queue' = Append(queue, t)
    /\ pending' = pending \union ({t} \cap Recording)
    /\ submitted' = Append(submitted, t)
    /\ UNCHANGED <<skipped, deferred, got, ran, skipOk>>
    /\ UNCHANGED <<taskVars, flagVars, runVars, talkVars, cliVars>>

DropPending_Forgotten(t) == UNCHANGED pending
DropPending(t) == pending' = pending \ {t}

Skip(t) ==
    /\ t \in pending
    /\ DropPending(t)
    /\ skipped' = skipped \union {t}
    /\ skipOk' = skipOk \union {t}
    /\ UNCHANGED <<queue, deferred, got, submitted, ran>>
    /\ UNCHANGED <<taskVars, flagVars, runVars, talkVars, cliVars>>

Interrupt ==
    /\ TurnActive
    /\ stops < MaxStops
    /\ stops' = stops + 1
    /\ interrupting' = TRUE
    /\ CliWriteInterrupt
    /\ UNCHANGED <<reconnectPending, asking, reconnects>>
    /\ UNCHANGED <<turnVars, taskVars, runVars, talkVars>>

ArmReconnect == /\ reconnectPending' = TRUE
                /\ queue' = Append(queue, Wake)
                /\ UNCHANGED <<pending, skipped, deferred, got, submitted, ran, skipOk>>

\* reconnect(): with a turn running it first awaits interrupt() ...
Reconnect ==
    /\ IsLive /\ ~asking
    /\ reconnects < MaxReconnects
    /\ reconnects' = reconnects + 1
    /\ IF TurnActive
       THEN /\ interrupting' = TRUE /\ asking' = TRUE
            /\ CliWriteInterrupt
            /\ UNCHANGED <<reconnectPending, turnVars>>
       ELSE /\ ArmReconnect
            /\ UNCHANGED <<interrupting, asking, cliVars>>
    /\ UNCHANGED stops
    /\ UNCHANGED <<taskVars, runVars, talkVars>>

\* ... and only then asks the serve loop for it.
ReconnectInterrupted ==
    /\ asking
    /\ asking' = FALSE
    /\ ArmReconnect
    /\ UNCHANGED <<interrupting, stops, reconnects>>
    /\ UNCHANGED <<taskVars, runVars, talkVars, cliVars>>

(***************************************************************************)
(* Background tasks and their indicator.                                   *)
(***************************************************************************)
\* The running set after a task message (started, progress: in; done: out).
TasksAfter_KeepsDone(m) == tasks \union {m.task}
TasksAfter(m) ==
    IF m.kind = "done" THEN tasks \ {m.task} ELSE tasks \union {m.task}

\* _track_task_message, then _set_indicator.
Track(m) ==
    /\ tasks' = TasksAfter(m)
    /\ stalled' = (m.kind = "done" /\ stalled)
    /\ indicator' = (tasks' # {} /\ ~stalled')
    /\ noticed' = IF m.kind = "done" THEN noticed \union {m.task} ELSE noticed

NoTrack == UNCHANGED <<taskVars, noticed>>

\* A message whose content is thrown away; noticed is history, not code.
Drop(m) == /\ UNCHANGED taskVars
           /\ noticed' = IF m.kind = "done" THEN noticed \union {m.task} ELSE noticed

AbandonTasks_IndicatorLeft == tasks' = {} /\ stalled' = FALSE /\ UNCHANGED indicator
AbandonTasks ==
    /\ tasks' = {}
    /\ stalled' = (stalled /\ tasks = {})
    /\ indicator' = (indicator /\ tasks = {})

(***************************************************************************)
(* The serve loop.                                                         *)
(***************************************************************************)
Connect ==
    /\ pc = "connect"
    /\ CliOpen
    /\ pc' = "loop"
    /\ UNCHANGED <<cur, attempt, relayed, heldBack, recvd>>
    /\ UNCHANGED <<turnVars, taskVars, flagVars, talkVars>>

\* _serve raised.  With a resume id the failure is recorded, the tasks are
\* abandoned and a fresh session is served; without one, or when that record
\* raises, it is a session error.
ServeFails ==
    /\ CliClose
    /\ got' = None
    /\ \/ resume /\ pc' = "connect" /\ AbandonTasks
       \/ (~resume \/ "db_error" \in Faults) /\ pc' = "closing" /\ UNCHANGED taskVars
    /\ resume' = FALSE
    /\ cur' = None /\ recvd' = None
    /\ UNCHANGED <<attempt, relayed, relays, noticed>>
    /\ UNCHANGED <<queue, pending, skipped, submitted, ran, skipOk, flagVars>>

ServeRaises == ServeFails /\ UNCHANGED sdk

ConnectFails ==
    /\ pc = "connect" /\ "cli_exit" \in Faults
    /\ ServeRaises
    /\ UNCHANGED <<deferred, heldBack>>

ClearReconnect_Forgotten == UNCHANGED reconnectPending
ClearReconnect == reconnectPending' = FALSE

LeaveForReconnect ==
    /\ pc = "loop" /\ reconnectPending
    /\ ClearReconnect
    /\ CliClose
    /\ pc' = "reopen"
    /\ UNCHANGED <<interrupting, asking, stops, reconnects>>
    /\ UNCHANGED <<cur, attempt, relayed, heldBack, recvd>>
    /\ UNCHANGED <<turnVars, taskVars, talkVars>>

Reopen ==
    /\ pc = "reopen"
    /\ AbandonTasks
    /\ resume' = sdk
    /\ pc' = "connect"
    /\ UNCHANGED <<cur, attempt, relayed, heldBack, recvd, sdk, relays, noticed>>
    /\ UNCHANGED <<turnVars, flagVars, cliVars>>

WasSkipped_Ignored(t) == FALSE
WasSkipped(t) == t \in skipped

Unmark_Forgotten(t) == UNCHANGED skipped
Unmark(t) == skipped' = skipped \ {t}

\* The head of _run_turn: a skipped turn is discarded, any other starts.
StartTurn(t) ==
    /\ Unmark(t)
    /\ DropPending(t)
    /\ IF WasSkipped(t)
       THEN /\ pc' = "loop" /\ cur' = None
            /\ UNCHANGED ran
       ELSE /\ pc' = "starting" /\ cur' = t
            /\ ran' = Append(ran, t)
    /\ UNCHANGED <<queue, got, submitted, skipOk, tasks, stalled, indicator>>
    /\ UNCHANGED <<attempt, relayed, heldBack, recvd>>
    /\ UNCHANGED <<flagVars, talkVars, cliVars>>

ClearDeferred_Forgotten == UNCHANGED deferred
ClearDeferred == deferred' = None

RunDeferred ==
    /\ pc = "loop" /\ ~reconnectPending
    /\ deferred # None
    /\ StartTurn(deferred)
    /\ ClearDeferred

RunDequeued ==
    /\ pc = "dequeued"
    /\ StartTurn(cur)
    /\ UNCHANGED deferred

(***************************************************************************)
(* _await_work                                                             *)
(***************************************************************************)
\* Only an AssistantMessage starts an agent-initiated turn.
StartsTurn_AnyMessage(m) == m.kind \notin TaskKinds
StartsTurn(m) == m.kind = "asst"

\* _handle_idle_message for a message read while no turn runs.
HandleIdle(m) ==
    /\ cur' = None
    /\ IF m.kind \in TaskKinds THEN Track(m) ELSE NoTrack
    /\ sdk' = (sdk \/ m.kind \in ResultKinds)
    /\ IF StartsTurn(m)
       THEN pc' = "bgstart" /\ relays' = relays \union {<<m.by, Unprompted>>}
       ELSE pc' = "loop" /\ UNCHANGED relays
    /\ UNCHANGED <<attempt, relayed, resume>>

HandleHeldBack ==
    /\ pc = "loop" /\ ~reconnectPending /\ deferred = None
    /\ heldBack # None
    /\ HandleIdle(heldBack)
    /\ heldBack' = None
    /\ UNCHANGED <<recvd, turnVars, flagVars, cliVars>>

BeginWait ==
    /\ pc = "loop" /\ ~reconnectPending /\ deferred = None /\ heldBack = None
    /\ pc' = "idle"
    /\ UNCHANGED <<cur, attempt, relayed, heldBack, recvd>>
    /\ UNCHANGED <<turnVars, taskVars, flagVars, talkVars, cliVars>>

GetTask ==
    /\ pc = "idle" /\ got = None
    /\ queue # <<>>
    /\ got' = Head(queue)
    /\ queue' = Tail(queue)
    /\ UNCHANGED <<pending, skipped, deferred, submitted, ran, skipOk>>
    /\ UNCHANGED <<taskVars, flagVars, runVars, talkVars, cliVars>>

RecvTask ==
    /\ pc = "idle" /\ recvd = None
    /\ CliRead
    /\ recvd' = Head(stream)
    /\ UNCHANGED <<pc, cur, attempt, relayed, heldBack>>
    /\ UNCHANGED <<turnVars, taskVars, flagVars, talkVars>>

\* A turn that came off the queue in the same wait is kept for the next loop.
Defer_Dropped == deferred' = None
Defer == deferred' = IF got \in Turns THEN got ELSE None

\* A message came: a turn that came with it is deferred, a wake marker dropped.
WakeWithMessage ==
    /\ pc = "idle" /\ recvd \notin {None, Eof}
    /\ Defer
    /\ got' = None
    /\ HandleIdle(recvd)
    /\ recvd' = None
    /\ UNCHANGED <<queue, pending, skipped, submitted, ran, skipOk>>
    /\ UNCHANGED <<heldBack, flagVars, cliVars>>

\* Bookkeeping a lone result raised: _handle_idle_message has no try, and
\* _remember_sdk_session sets the id before it writes the row.
IdleResultFails ==
    /\ "db_error" \in Faults
    /\ \/ /\ pc = "idle" /\ recvd # None /\ recvd.kind \in ResultKinds
          /\ Defer
          /\ UNCHANGED heldBack
       \/ /\ pc = "loop" /\ ~reconnectPending /\ deferred = None
          /\ heldBack # None /\ heldBack.kind \in ResultKinds
          /\ heldBack' = None
          /\ UNCHANGED deferred
    /\ sdk' = TRUE
    /\ ServeFails

\* The stream ended (the session winds down) or the read raised.
WakeWithEof ==
    /\ pc = "idle" /\ recvd = Eof
    /\ Defer
    /\ UNCHANGED heldBack
    /\ \/ /\ CliClose /\ pc' = "closing"
          /\ got' = None /\ recvd' = None
          /\ UNCHANGED <<cur, attempt, relayed, resume, sdk, relays, noticed>>
          /\ UNCHANGED <<queue, pending, skipped, submitted, ran, skipOk>>
          /\ UNCHANGED <<taskVars, flagVars>>
       \/ ServeRaises

\* Cancelling the idle read: if the stream handed over a message in that
\* instant, _recv_one stashes it.
CancelRecv ==
    \/ UNCHANGED <<heldBack, cliVars>>
    \/ /\ CliRead /\ Head(stream) # Eof
       /\ heldBack' = Head(stream)

WakeWithTurn ==
    /\ pc = "idle" /\ got # None /\ recvd = None
    /\ CancelRecv
    /\ got' = None
    /\ IF got = Wake THEN pc' = "loop" /\ UNCHANGED cur
                     ELSE pc' = "dequeued" /\ cur' = got
    /\ UNCHANGED <<attempt, relayed, recvd>>
    /\ UNCHANGED <<queue, pending, skipped, deferred, submitted, ran, skipOk>>
    /\ UNCHANGED <<taskVars, flagVars, talkVars>>

\* Nothing arrived within the window.
TimerFires ==
    /\ pc = "idle" /\ got = None /\ recvd = None
    /\ queue = <<>> /\ stream = <<>>
    /\ pc' = "expired"
    /\ UNCHANGED <<cur, attempt, relayed, heldBack, recvd>>
    /\ UNCHANGED <<turnVars, taskVars, flagVars, talkVars, cliVars>>

MarkStalled_Forgotten == UNCHANGED stalled
MarkStalled == stalled' = TRUE

\* First silent window with a task outstanding: dim the indicator.
StallTasks ==
    /\ pc = "expired" /\ tasks # {} /\ ~stalled
    /\ CancelRecv
    /\ MarkStalled /\ indicator' = FALSE
    /\ pc' = "loop"
    /\ UNCHANGED <<tasks, cur, attempt, relayed, recvd>>
    /\ UNCHANGED <<turnVars, flagVars, talkVars>>

IdleClose ==
    /\ pc = "expired" /\ (tasks = {} \/ stalled)
    /\ CliClose
    /\ pc' = "closing"
    /\ UNCHANGED <<cur, attempt, relayed, heldBack, recvd>>
    /\ UNCHANGED <<turnVars, taskVars, flagVars, talkVars>>

(***************************************************************************)
(* A turn: _run_turn and _attempt_turn, _run_background_turn.              *)
(***************************************************************************)
Goto(label) == pc' = label /\ UNCHANGED <<cur, heldBack, recvd>>

BeginTurn ==
    /\ pc = "starting"
    /\ Goto("query")
    /\ interrupting' = FALSE
    /\ attempt' = 1 /\ relayed' = FALSE
    /\ UNCHANGED <<reconnectPending, asking, stops, reconnects>>
    /\ UNCHANGED <<turnVars, taskVars, talkVars, cliVars>>

\* record_activity raised: this is before _run_turn's try.  A picker answer
\* is not recorded.
RecordFails ==
    /\ pc = "starting" /\ cur \in Recording /\ "db_error" \in Faults
    /\ ServeRaises
    /\ UNCHANGED <<deferred, heldBack>>

SendQuery ==
    /\ pc = "query"
    /\ CliWriteQuery(cur)
    /\ Goto("stream")
    /\ UNCHANGED <<attempt, relayed, turnVars, taskVars, flagVars, talkVars>>

\* Where the turn goes on a message seen after an interrupt: a terminal one
\* ends the response, any other starts the drain.
AfterInterrupt_Abandons(m) == "finish"
AfterInterrupt_KeepsReading(m) == IF m.kind = "eof" THEN "finish" ELSE pc
AfterInterrupt(m) ==
    IF m.kind \in ResultKinds \union {"eof"} THEN "finish" ELSE "drain"

\* The first message seen after an interrupt is discarded, the rest drained.
InterruptSeen ==
    /\ pc \in {"stream", "bg"} /\ interrupting
    /\ CliRead
    /\ Drop(Head(stream))
    /\ Goto(AfterInterrupt(Head(stream)))
    /\ UNCHANGED <<attempt, relayed, resume, sdk, relays, turnVars, flagVars>>

StreamTaskMessage ==
    /\ \/ pc \in {"stream", "bg"} /\ ~interrupting
       \/ pc = "drain"
    /\ CliRead
    /\ Head(stream).kind \in TaskKinds
    /\ Track(Head(stream))
    /\ UNCHANGED <<runVars, resume, sdk, relays, turnVars, flagVars>>

\* What a relayed reply is shown as: the answer to cur, or an own entry.
Under == IF pc = "stream" THEN cur ELSE Unprompted

StreamAssistant ==
    /\ pc \in {"stream", "bg"} /\ ~interrupting
    /\ CliRead
    /\ Head(stream).kind = "asst"
    /\ relays' = relays \union {<<Head(stream).by, Under>>}
    /\ relayed' = (relayed \/ pc = "stream")
    /\ UNCHANGED <<pc, cur, attempt, heldBack, recvd, resume, sdk, noticed>>
    /\ UNCHANGED <<turnVars, taskVars, flagVars>>

\* A retryable error of a user turn is retried while nothing was relayed.
MayRetry_AfterReply == pc = "stream" /\ attempt < MaxAttempts
MayRetry_Unbounded  == pc = "stream" /\ ~relayed
MayRetry == pc = "stream" /\ ~relayed /\ attempt < MaxAttempts

StreamResult ==
    /\ pc \in {"stream", "bg"} /\ ~interrupting
    /\ CliRead
    /\ LET m == Head(stream) IN
       /\ m.kind \in {"result", "eof"} \/ (m.kind = "retryable" /\ ~MayRetry)
       /\ sdk' = (sdk \/ m.kind = "result" \/ (pc = "bg" /\ m.kind = "retryable"))
    /\ Goto("finish")
    /\ UNCHANGED <<attempt, relayed, resume, relays, noticed>>
    /\ UNCHANGED <<turnVars, taskVars, flagVars>>

\* A database call raised while a message was relayed: the turn ends with the
\* rest of the response unread.  The store has the segment already, and the
\* session has the id.
RelayFails ==
    /\ "db_error" \in Faults
    /\ pc \in {"stream", "bg"} /\ ~interrupting
    /\ CliRead
    /\ LET m == Head(stream) IN
       /\ m.kind \in ResultKinds \union {"asst"}
       /\ ~(m.kind = "retryable" /\ MayRetry)
       /\ relays' = relays \union (IF m.kind = "asst" THEN {<<m.by, Under>>} ELSE {})
       /\ sdk' = (sdk \/ m.kind = "result" \/ (pc = "bg" /\ m.kind = "retryable"))
    /\ Goto(IF pc = "stream" THEN "report" ELSE "finish")
    /\ UNCHANGED <<attempt, relayed, resume, noticed>>
    /\ UNCHANGED <<turnVars, taskVars, flagVars>>

\* "turn error" is recorded inside the except clause ...
ReportError ==
    /\ pc = "report"
    /\ Goto("finish")
    /\ UNCHANGED <<attempt, relayed, talkVars, turnVars, taskVars, flagVars, cliVars>>

\* ... where nothing catches what it raises.
ReportFails ==
    /\ pc = "report" /\ "db_error" \in Faults
    /\ ServeRaises
    /\ UNCHANGED <<deferred, heldBack>>

StreamRetry ==
    /\ ~interrupting
    /\ CliRead
    /\ Head(stream).kind = "retryable"
    /\ MayRetry
    /\ Goto("backoff")
    /\ UNCHANGED <<attempt, relayed, talkVars, turnVars, taskVars, flagVars>>

BackoffOver ==
    /\ pc = "backoff"
    /\ Goto("query")
    /\ attempt' = attempt + 1
    /\ relayed' = FALSE
    /\ UNCHANGED <<turnVars, taskVars, flagVars, talkVars, cliVars>>

\* The first message is relayed before the rest is read; a failure of it is
\* only logged.
BeginBackground ==
    /\ pc = "bgstart"
    /\ Goto("bg") \/ ("db_error" \in Faults /\ Goto("finish"))
    /\ interrupting' = FALSE
    /\ UNCHANGED <<attempt, relayed, reconnectPending, asking, stops, reconnects>>
    /\ UNCHANGED <<turnVars, taskVars, talkVars, cliVars>>

DrainMessage ==
    /\ pc = "drain"
    /\ CliRead
    /\ Head(stream).kind \notin TaskKinds
    /\ Goto(IF Head(stream).kind = "asst" THEN "drain" ELSE "finish")
    /\ UNCHANGED <<attempt, relayed, talkVars, turnVars, taskVars, flagVars>>

\* _INTERRUPT_DRAIN_SECONDS elapsed with no terminal result: nothing more
\* will come, or the CLI is slow.
DrainTimeout ==
    /\ pc = "drain" /\ stream = <<>>
    /\ "slow_cli" \in Faults \/ (cliRun = NoRun /\ cliIn = <<>>)
    /\ AbandonTasks
    /\ Goto("finish")
    /\ UNCHANGED <<attempt, relayed, talkVars, turnVars, flagVars, cliVars>>

FinishTurn ==
    /\ pc = "finish"
    /\ pc' = "loop" /\ cur' = None
    /\ UNCHANGED <<attempt, relayed, heldBack, recvd>>
    /\ UNCHANGED <<turnVars, taskVars, flagVars, talkVars, cliVars>>

(***************************************************************************)
(* The end of the session.                                                 *)
(***************************************************************************)
\* aclose() cancels the owner task at whatever await it is.
Shutdown ==
    /\ pc \notin {"closing", "done"}
    /\ CliClose
    /\ pc' = "closing" /\ cur' = None /\ recvd' = None /\ got' = None
    /\ UNCHANGED <<attempt, relayed, heldBack>>
    /\ UNCHANGED <<queue, pending, skipped, deferred, submitted, ran, skipOk>>
    /\ UNCHANGED <<taskVars, flagVars, talkVars>>

EndSession ==
    /\ pc = "closing"
    /\ indicator' = FALSE
    /\ pc' = "done"
    /\ UNCHANGED <<tasks, stalled, cur, attempt, relayed, heldBack, recvd>>
    /\ UNCHANGED <<turnVars, flagVars, talkVars, cliVars>>

Ended == pc = "done" /\ UNCHANGED vars

Handlers == \/ \E t \in Turns : Enqueue(t) \/ Skip(t)
            \/ Interrupt \/ Reconnect \/ ReconnectInterrupted

Owner == \/ Connect \/ ConnectFails \/ LeaveForReconnect \/ Reopen
         \/ RunDeferred \/ RunDequeued \/ HandleHeldBack \/ BeginWait
         \/ GetTask \/ RecvTask \/ WakeWithMessage \/ IdleResultFails
         \/ WakeWithEof \/ WakeWithTurn
         \/ TimerFires \/ StallTasks \/ IdleClose
         \/ BeginTurn \/ RecordFails \/ SendQuery \/ InterruptSeen
         \/ StreamTaskMessage \/ StreamAssistant \/ StreamResult \/ RelayFails
         \/ ReportError \/ ReportFails \/ StreamRetry
         \/ BackoffOver \/ BeginBackground \/ DrainMessage \/ DrainTimeout
         \/ FinishTurn \/ EndSession

SessVars == <<turnVars, taskVars, flagVars, runVars, talkVars>>
Cli  == CliNext /\ UNCHANGED SessVars
Next == Handlers \/ Owner \/ Shutdown \/ Cli \/ Ended
Spec == Init /\ [][Next]_vars

(***************************************************************************)
(* Fairness.  The owner task is never starved by the event loop and every  *)
(* one of its awaits other than a stream read is bounded.  queue.get() is  *)
(* created before the stream read and asyncio runs ready tasks in FIFO     *)
(* order, so it cannot lose to a busy stream forever.  Of the CLI: it      *)
(* takes up queries, obeys interrupts and ends what it runs.               *)
(***************************************************************************)
Fairness ==
    /\ WF_vars(Owner)
    /\ SF_vars(GetTask)
    /\ WF_vars(ReconnectInterrupted)
    /\ WF_vars(CliTakeQuery /\ UNCHANGED SessVars)
    /\ SF_vars(CliInterrupt /\ UNCHANGED SessVars)
    /\ SF_vars(CliFinishRun /\ UNCHANGED SessVars)

FairSpec == Spec /\ Fairness

(***************************************************************************)
(* Properties.                                                             *)
(***************************************************************************)
Closed == pc \in {"closing", "done"}

\* The turns still to run, wherever the session keeps them: in the hand of the
\* owner task, deferred, as the result of the idle wait, or in the queue.
InHand(t) == pc = "dequeued" /\ cur = t
Held(t)   == t \in Elems(queue) \/ t = got \/ t = deferred \/ InHand(t)
Waiting   == {t \in Turns : Held(t)}

\* A turn the user was told is skipped is never started, whatever the owner
\* task was doing with it when the skip came (skip, _run_turn).
SkippedNeverRuns == skipOk \cap Elems(ran) = {}

\* No turn is started twice, although it moves through the queue, the idle
\* wait's result, a deferral and a reconnect (_serve, _await_work).
RunsOnce == \A i, j \in DOMAIN ran : ran[i] = ran[j] => i = j

\* The list the browser is shown is what will still run: the typed turns the
\* session holds somewhere, less the skipped ones (_pending vs _queue).
PendingIsWaiting ==
    ~Closed => pending = (Waiting \cap Recording) \ skipped

\* Skip marks are consumed: each belongs to a turn that is still to be popped.
SkipMarksConsumed == ~Closed => skipped \subseteq Waiting

\* The "working in background" indicator shows iff a task is believed to be
\* running and its stream is not silent; a session that ended has it off.
IndicatorTruth ==
    /\ ~Closed => (indicator <=> tasks # {} /\ ~stalled)
    /\ pc = "done" => ~indicator

\* Every reply shown as the answer to a prompt was written for that prompt
\* ("so the transcript always pairs this prompt with the reply that follows it",
\* _run_turn): false once a relay raised; ReplyPairing says when it holds.
RepliesMatchPrompt == \A x \in relays : (x[1] \in Turns \/ x[2] \in Turns) => x[1] = x[2]

\* A task whose completion was read from the stream is not kept as running
\* (_drain_interrupted: it "must clear the running set").
CompletionsTracked == tasks \cap noticed = {}

\* A prompt is not sent again once some of its reply was shown (_run_turn).
NoResendAfterReply ==
    [][pc = "query" /\ pc' = "stream" => \A u \in Turns : <<cur, u>> \notin relays]_vars

\* Stop ends the turn in flight: its prompt is not sent to the model again
\* ("Stop the in-flight turn", interrupt).
StoppedNotResent ==
    [][pc = "query" /\ pc' = "stream" /\ attempt > 1 => ~interrupting]_vars

\* A reopened client resumes the conversation (reconnect).
ReconnectKeepsConversation ==
    [][pc = "reopen" /\ pc' = "connect" /\ ran # <<>> => resume']_vars

\* A turn dequeued together with a stream message is kept ("this one runs
\* next (not lost)", _deferred).
DeferredNotLost ==
    [][WakeWithEof /\ pc' = "closing" => deferred' \in skipped \union {None}]_vars

\* The session implements the turn queue it promises.
TQ == INSTANCE TurnQueue WITH
        Skippable <- Recording,
        waiting <- IF Closed THEN {} ELSE Waiting \ skipped,
        served  <- ran,
        told    <- skipOk,
        closed  <- Closed
ImplementsTurnQueue == TQ!Spec

\* Every turn that waits is run or discarded, unless the session ends.
EveryTurnServed ==
    \A t \in Turns : t \in Waiting ~> (t \notin Waiting \/ Closed)

\* Stop takes effect: the interrupted turn ends and the thinking flag clears.
StopEndsTurn == (TurnActive /\ interrupting) ~> ~TurnActive

\* A requested reconnect is carried out.
ReconnectServed == reconnectPending ~> (~reconnectPending \/ Closed)

\* A relayed agent-initiated turn ends ("a ResultMessage that isn't coming").
BackgroundTurnEnds == pc = "bg" ~> pc # "bg"

\* A task whose completion was lost does not keep the session open or the
\* indicator lit forever (the stall watchdog).
PhantomTasksReaped == []<>(tasks = {} \/ cliTasks # {} \/ Closed)
=============================================================================
