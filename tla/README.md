# claude-visual-interface in TLA+

`claude-visual-interface` puts a browser front end on the Claude CLI: a Python
daemon (one process, one asyncio event loop) keeps one long-lived Claude session
per chat ("surface"), stores the transcript in SQLite and pushes live events over
a WebSocket to every open tab. This directory models the parts of it whose
correctness depends on the order in which things happen, checks the models with
TLC and proves the main results with TLAPS.

Paths below are relative to `src/`.

## 1. The system and its components

| component | code | state | operations |
|---|---|---|---|
| chat session | `daemon/agent_session.py` `AgentSession` | transport queue, list of pending turns, skip marks, a deferred turn, a held-back message, outstanding background tasks, indicator, interrupt and reconnect flags | enqueue, skip, interrupt, reconnect, aclose; the owner task: connect, idle wait, turn with retries, agent-initiated turn, drain of a stopped turn, stall watchdog, idle close, reopen, wind-down |
| session registry | `AgentSessionRegistry` | surface -> session | send, skip, interrupt, reconnect, answer, snapshots, discard, shutdown_all |
| Claude CLI (external) | used through `ClaudeSDKClient` | run in progress, queries, interrupt, tasks, message stream | query, interrupt, stream, exit |
| surface state | `daemon/view_state.py`, `daemon/hub.py`, `daemon/mcp_server.py` | transcript in memory, flags, token total, subscribers | record_activity, broadcasts, hydrate_surface, snapshot |
| connect protocol | `daemon/main.py` `ws_surface` | one handler per socket | accept, hydrate, snapshot + register, receive loop, unregister |
| repositories | `daemon/messages.py`, `daemon/token_usage.py` | SQLite rows | appends, reads, sums |
| session rows | `daemon/sessions.py`, the routes of `daemon/main.py`, the titling task of `daemon/agent_session.py`, `daemon/session_sidecar.py` | a row per chat, a label file per conversation | launch, create, archive, delete, star, sweep, resurface, rename, title, remember the conversation's id |
| migrations and backups | `daemon/db.py`, `daemon/migrations/` | the database file, its WAL, `_migration`, snapshots | snapshot, run the pending scripts, record each |
| message relay | `daemon/activity_relay.py` | none | cut a reply into prose, pages and notes; dispatch blocks |
| picker answers | `web/src/askAnswer.ts`, `AskPicker` in `ActivityFeed.tsx` | the picks and texts of a card | gate, fold into one string, read back |
| MCP OAuth keeper | `daemon/mcp_auth.py` | token, live flag, futile mark, proxy process, token file | supervise loop, current_token, aclose |
| browser socket | `web/src/useSurfaceSocket.ts` | WebSocket, buffer of unsent frames, timer, backoff | send, stop, reconnect, unmount |
| view reducer | `web/src/viewState.ts` | what a tab shows | apply snapshot and events |
| screenshots, config, tab indicator, rendering | the other files | | see section 9 |

A start runs the migrations before anything else. How the parts interact then: a tab's
frame goes through `ws_surface` to the registry, which finds or creates the surface's
session and enqueues the turn. The session's owner
task talks to the CLI, records entries through `record_activity` (memory, then row,
then broadcast) and sets the flags the tabs show. Handlers of other sockets, HTTP
routes, title tasks and the owner tasks are all tasks of one event loop: they
interleave at every `await` and nowhere else, except for the SQLite calls, which run
in threads. The keeper is one more task; sessions read its token when they connect. Routes, titling
tasks and turns write the same session rows, each statement a transaction of its own
in a thread, so what a coroutine read may be old when it writes, broadcasts or files it.

What is hard here: a pending turn lives in four places; a stop, a skip or a reconnect
can arrive at any await of the owner task; the CLI starts turns of its own; messages get
lost; checks are made before an await and used after it (`send`, `hydrate_surface`,
`broadcast_answer`); the daemon can die between a change in memory, its row and its
event; any database call may raise, and a raising one in the middle of a reply leaves
the rest of it on the shared stream; sockets break with frames under way; processes are
cancelled between spawn, signal and exit. `PROJECT.json` lists each at its line
("hazards") with the properties about it.

What makes each component correct:

* session: turns run in order, once, and never after being reported as skipped; the
  list and the indicator the browser shows are true; replies appear under their
  prompt; stops, reconnects and queued turns are served;
* registry: one session per surface, reachable until it ends, none left at shutdown;
* surface state: the transcript survives restarts, and every tab shows each of its entries
  as often as it has it;
* keeper: one proxy, no leftover process, no restart loop, always a token in the end;
* browser socket: frames in order and once, a gap is bridged, a stop is not delayed;
* session rows: a chat is listed as its user last had it, launches leave no pile of
  empty chats, the first words name a chat, and the title the tabs and the token
  monitor are told is the one the row has;
* migrations: no row is lost, the daemon serves only on its schema, a fresh snapshot
  precedes every change;
* relay and picker: what the model wrote is what the feed shows, what the user answered
  is what the card shows again.

## 2. Modules

| module | models | how |
|---|---|---|
| `ClaudeCli` | the CLI as the session sees it (external) | Queries, an interrupt flag, running tasks and a bounded message stream. It answers, fails with an API error, starts a turn of its own after a task, exits, or loses a message; `Faults` selects which of these it may do. |
| `AgentSession` | `AgentSession`, one session | EXTENDS `ClaudeCli`. `pc` is the await the owner task is at; a step is the code between two awaits. Handlers (`Enqueue`, `Skip`, `Interrupt`, `Reconnect`, `Shutdown`) are enabled at every await. |
| `ReplyPairing` | under which prompt `AgentSession` shows a reply | EXTENDS `AgentSession` with one history variable, `leaked`: the connected client's stream may hold what a later turn takes for its own response. The steps that set it are spelled out (`LeftUnread`, `SpokenAhead`); a new client clears it. |
| `TurnQueue` | what a session promises about turns (abstract) | submit, start the oldest, report a waiting one as skipped, close. `AgentSession` implements it: what waits is what the session holds in any of four places and did not mark as skipped, until it closes; no turn leaves it unless it runs or was reported as skipped. |
| `SessionRegistry` | the registry for one surface | `Callers` are the sockets in `send()`, with the `await get_session` between check and creation as a place; sessions are reduced to the phases of their owner task; `flag` is the indicator kept for browsers. |
| `SurfaceView` | `record_activity`, broadcasts, `hydrate_surface`, `ws_surface`, the rows behind them and the browser's reducer | `Procs` are the owner task and the sockets' handlers; an entry goes to memory, its row, the subscribers of that moment one by one. What a tab shows is a sequence to which every activity is appended. Every database call may raise (`CallFails`, `HydrationFails`), an insert also after its commit. `Restart` keeps only the database. |
| `AuthKeeper` | `RemoteMcpAuthKeeper` | the keeper's task by its awaits, one proxy process, the token file with the writes numbered and the estimates of expiry passing at any time. |
| `SurfaceSocket` | the socket part of `useSurfaceSocket` and the order in which the daemon handles its frames | frames are numbered; the page, the user, the daemon and faults take steps. |
| `SessionRows` | the `session` table and each statement of `daemon/sessions.py` | one operator per statement, each atomic; a title is the number of the request that supplied it. |
| `ChatDesk` | what runs those statements: routes, the titling task, the recorded line, `_remember_sdk_session`, the sidecar, a tab's title | EXTENDS `SessionRows`. A coroutine is a record in `jobs`, `at` says which await it is at; launching is two transactions, a rename four steps. Every database call and the label file may fail (`RecordFails`, `ApplyFails`, `ReadFails`, `RememberFails`, `LaunchFails`, `SidecarFails`). `Restart` keeps rows and sidecars. |
| `Migrations` | `apply_migrations_sync` and `_backup_if_stale` | the database as committed (`db`), as in the main file (`file`) and as in the open transaction (`tx`); a script is its statements. `Crash` between any two steps; the snapshot, its pruning, opening the file and each statement may raise (`SnapshotFails`, `OpenFails`, `FailStatement`, `RecordFails`); upgrades, days. |
| `RenderSegments` | `split_render_segments` | a text is a sequence of tokens (a backtick, a tag, a word); the scanner is a recursive function over positions. |
| `AskAnswer` | `formatGroupAnswer`, `parseGroupAnswer`, `isAddressed` | a line is the tags it starts with and its text. |
| `TurnTranscript` | `relay_message_activity` and a picker answered once | EXTENDS both. The reference is the document the model means: its pieces and the entries they stand for, against which the scanner's result on their text is checked. |
| `MC*` | | instances for TLC: small sets as model values. |
| `*_proofs` | | theorems, see section 6. |

Every definition that stands for code is in `PROJECT.json` under "map" with its lines.
Definitions named `X_Something` next to an `X` are mistaken versions of `X`; section 5
says what they are for.

Abstractions. Turns, tasks, entries and frames are model values or numbers. Of a
message the model keeps what the control flow tests: kind, task, run it belongs to.
Texts, images, prompts, HTML and logging are left out. Timers fire at any moment
they are armed. Threaded SQLite calls are one step between two awaits.

Composition. `AgentSession` runs over `ClaudeCli` (shared stream variables).
`SessionRegistry` uses the phases of `AgentSession`'s `pc` (serving, closing, done) and
nothing else of it: what a session does inside "serving" cannot change the registry.
`SurfaceView` takes the owner task only as the source of entries. `SurfaceSocket`'s
`handled` frames are the inputs of `SessionRegistry` (`Send`, `Skip`). `ChatDesk` keeps of
a session whether it is up, whether it still needs a title, and the conversation's id;
its `Send` is the registry's, its `RecordUserLine` the first step of a turn. The feed of
`TurnTranscript` is the content of the entries `SurfaceView` orders.

## 3. Runs

All sizes are of the complete reachable state space.

| run | instance | shows |
|---|---|---|
| `as_session` (`MCReplyPairing`) | two typed turns (alike: symmetry), one background task, one stop, one reconnect, stream of 2, CLI exits, interrupted runs that end without a result, failing connects and raising database calls, in mid-reply too (4.1 M states) | SkippedNeverRuns, RunsOnce, PendingIsWaiting, IndicatorTruth; refinement of `TurnQueue`; MisplacedOnlyAfterLeak |
| `as_live` | a typed turn and a picker answer, two API errors, two attempts, one stop, one reconnect, no tasks (88 k) | NoResendAfterReply; EveryTurnServed, StopEndsTurn, ReconnectServed under fairness |
| `as_watchdog` | one turn, one stop, one task whose completion may be lost, CLI exits, a slow CLI, raising database calls (40 k) | BackgroundTurnEnds, PhantomTasksReaped under fairness |
| `reg_tabs` | two sockets, three messages, three sessions (77 k) | DiscardOwn; OneSession, SpinnerTruth, NothingLeaks, AllPendingShown while no two callers overlapped |
| `sv_tabs` | two tabs, a picker and its answer, one billed call, failing calls, one daemon restart; the tabs are alike (symmetry) (4.9 M) | RecordedStays, ViewConverges, BubbleOnce while no socket connected during another's hydration |
| `keeper` | three writes of the token file, two faults, three delays (110 k) | OneProxy, NoneLeftBehind, RefreshOnce; PickedUp, Settles under fairness |
| `sock` | four frames, two faults, three delays (92 k) | HandledInOrder, StopNotLate, UnmountIsFinal; GapServed under fairness |
| `desk` | two chats, a tab, three requests or faults, one conversation id (2.9 M) | ListedAsMeant, NoPile, FirstWordsName, TabTitleTrue, SidecarTrue |
| `migr` | three scripts of which the second rebuilds, two rows, two faults, two snapshots kept, four ticks of half a day (5.6 M) | RowsKept, SchemaReady, RefusedOnlyAfterGap, SnapshotFirst |
| `transcript` | replies of up to three of eighteen pieces and a cut end, two questions with one header, all their answers with four texts (254 k) | FeedAsWritten, AnswerReadBack |

The remaining two runs end in a violation on purpose; they are findings (section 4).

Why the bounds are enough. Two turns give every pair of places a turn can be in (queue,
idle wait, deferred, running); a third only repeats them. One reconnect and one fault of
a kind suffice for each window, since the flags they set are cleared before the next
use; the proofs remove these bounds for the properties they cover, and let any of the
turns answer a picker (`Recording`), completions get lost and a drain give up on a slow
CLI, which `as_session` leaves to `as_live` and `as_watchdog`. A stream of two holds the
message at which an idle wait ends and the one behind it. Three sessions allow a dying
one, its successor and the one that follows. Two sockets are the smallest number that
can overlap. Three writes of the token file give a token, its reuse and its renewal,
before and after a restart. Four frames are one handled, one on the wire, and two
buffered in order. Three requests let a message, a rename and an archiving (or two
launches and a message) overlap on one chat while another is there to be confused with
it; the proofs remove the bound. Three scripts are one before the rebuild, the rebuild
and one after it, and two releases may ship any of them; two snapshots kept are the
fewest that tell the newest from the oldest. Three pieces put every kind of segment
before, inside and after every other. `as_watchdog` has one turn because two and a raising
write reach the behaviour of `as_held_back_wedge`.

`CHECK_DEADLOCK FALSE` appears where the modelled part may stop: when every message of
the bound has been handled and the daemon is down (registry), or when nothing is left
to record (view).

History variables: `submitted`, `ran`, `skipOk`, `relays`, `noticed` (AgentSession),
`leaked` (ReplyPairing), `sent`, `raced` (SessionRegistry), `said`, `unsaved`, `unseeded`,
`doubled`, `raced` (SurfaceView), `tried`,
`stray` (AuthKeeper), `inGap`, `lost`, `handled` (SurfaceSocket), `wish`, `owed`, `spoilt`
(ChatDesk), `since`, `stranded`, `gap`, `failing` (Migrations), `meant`, `given`
(TurnTranscript). They influence no step.

`raced` needs a word. In `SessionRegistry` it is set when a second caller enters
`send()`'s lookup while another is in it, in `SurfaceView` when a socket connects while
another hydrates. Both are the windows of findings below: with them open the
properties fail, so they are stated for behaviours in which the window was never hit.
The others of `SurfaceView` name what a failing call or a connection in mid-write leaves
behind, which `ViewConverges` and `RecordedStays` then state exactly: an entry is `unsaved`
when its insert raised after it had entered the memory (it is in every later snapshot and
was in no broadcast; it may have a row), and `doubled` for a tab that connected while it
was being written (it came with the snapshot and is sent again after its row, and the
reducer appends it a second time, `web/src/viewState.ts:127`). The surface is `unseeded`
when a hydration raised between marking it and reading the sum of its tokens.
`leaked` is not an exception but the subject of `MisplacedOnlyAfterLeak`: the property says
that nothing else can put a reply under the wrong prompt, and that a reopened client is
clean again.
`spoilt` plays the part of `raced` in `ChatDesk`, for one chat and one claim at a time:
"tab" when a rename commits while another coroutine holds a title it is about to
broadcast, "tab" and "label" when a titling task could not read the row it had written,
"label" when two sidecar updates overlap, one fails or the daemon dies in one, "away"
when a chat is archived between a line's insert and its resurfacing, "pile" when
launches overlap or the user makes, unarchives or restores an empty chat. A tab is
`missed` when a title was broadcast while it was not subscribed: the connect snapshot
carries no title, so nothing tells it, although the comment at
`web/src/useSurfaceSocket.ts:64` counts on the snapshot.

## 4. Findings

With a run of their own:

* `as_stop_in_backoff`: a stop during the sleep between two attempts does not stop the
  next attempt (`daemon/agent_session.py:739`).
* `sv_answer_unsaved`: an answer that arrives before the picker's row id is known is
  never written to the row (`daemon/mcp_server.py:207`).

Seen with TLC, each with a configuration of that name for whoever looks into it, not
among the runs of `PROJECT.json`:

| configuration (module) | property | what happens |
|---|---|---|
| `reg_two_sessions` (`MCSessionRegistry`) | NeverTwoSessions | `send()` tests for a live session, awaits the session row and creates one without testing again: two tabs create two, the first is orphaned (`daemon/agent_session.py:990`). |
| `sv_hydrate_clobbers` (`MCSurfaceView`) | HydrationKeepsLive | `hydrate_surface` tests before it awaits the rows; a second tab loads older rows over entries recorded live (`daemon/mcp_server.py:107`). |
| `as_relay_leak` (`MCAgentSession`) | RepliesMatchPrompt | A database call that raises while a reply is relayed ends the turn with the rest of the reply unread, and the next prompt shows it as its own (`daemon/agent_session.py:742`), although a turn is recorded "so the transcript always pairs this prompt with the reply that follows it" (`daemon/agent_session.py:678`). |
| `as_lost_terminal` (`MCAgentSession`) | StopEndsTurn | After a stop the turn loop waits for one more message before it enters the bounded drain. |
| `as_dropped_completion` (`MCAgentSession`) | CompletionsTracked | The message at which the stop is noticed is thrown away before task tracking sees it. |
| `as_reconnect_forgets` (`MCAgentSession`) | ReconnectKeepsConversation | A reconnect in the first turn of a chat reopens the client without a resume id. |
| `as_held_back_wedge` (`MCAgentSession`) | BackgroundTurnEnds | A reply held back from the old client starts a turn that waits for a result on the new one. It survives any reopening: a line that cannot be recorded (`daemon/agent_session.py:702`) brings it about as well, once a second turn is waiting. |
| `desk_unarchive` (`MCChatDesk`) | UnarchiveSticks | "Archiving is reversible (it just files the session away)" (`daemon/config.py:39`), but the list the page fetches after unarchiving an old chat sweeps it away again (`daemon/sessions.py:110`). |
| `desk_rename_lost` (`MCChatDesk`) | RenameShown | A rename between the titling task's read of the row and its broadcast is overtaken by the generated title, which `_broadcast_effective_title` says it avoids (`daemon/agent_session.py:936`). |
| `migr_wedged` (`MCMigrations`) | StartsAgain | A crash between a script's commit and its record makes every later start fail on that script; `daemon/db.py:4` says scripts are applied "exactly once each". |
| `migr_daily` (`MCMigrations`) | OnceADay | `copy2` keeps the mtime of the database, so an idle database is copied at every start, not "at most once per 24h" (`daemon/db.py:85`). |
| `migr_wal` (`MCMigrations`) | SnapshotHasAll | A snapshot copies the main file only; rows a crash left in the WAL are not in it. |
| `transcript_marker` (`MCTurnTranscript`) | TextIsNoMarker | A second line that is exactly a tag of the group is taken for a field, although "free text that merely looks like a marker" is said not to confuse the parser (`web/src/askAnswer.ts:56`). |
| `transcript_open_fence` (`MCTurnTranscript`) | FeedShown | A fence that is never closed protects nothing: a page shown in it is rendered. |

More properties are stated, found violated, and have no configuration: in `SurfaceSocket`,
`GapNeverLost` (frames flushed to a connection that breaks at once are lost); in
`SurfaceView`, `AnswerSeen` (the answer's event overtakes the picker's own); in
`SessionRegistry`, `NoDeadEnqueue` (`is_live()` is still true while the session winds
down); in `AuthKeeper`, `RefreshNeverBlanks` (a refresh restart withdraws the proxy's word
for the token until the next proxy is up, `daemon/mcp_auth.py:366`); in `AgentSession`,
`DeferredNotLost` (a turn dequeued in the wait in which the stream ends goes down with the
session). The passing runs leave out exactly the fault or the overlap that leads to these,
or except what it leaves behind, and section 3 says which.

Two behaviours are no violation of anything written and still worth knowing: the entry a
connecting tab shows twice, and the token total that stays wrong until the next start after
a hydration that raised (`daemon/mcp_server.py:111`).

## 5. Mistaken versions

Each property of a passing run has a mistaken version of a modelled definition that
breaks it, a bug that could be made in that line: a dropped test (`WasSkipped_Ignored`),
a forgotten reset (`ClearDeferred_Forgotten`), a wrong column (`Label_Generated`), a
wrong order (`Buffered_Newest`, `Unlinked_Newest`), a missing alternative
(`CodeEnd_FenceOnly`), an early return that skips a cleanup (`CancelTry_Ends`).
"mutants" in `PROJECT.json` pairs them. They show that each property depends on the code
it is about.

## 6. Proofs

`tlapm <module>_proofs.tla` proves, for every value of the constants:

| theorem | states |
|---|---|
| `TypeCorrect` | AgentSession stays typed; attempts stay bounded and the owner task holds a turn wherever the code uses one |
| `SkippedTurnsNeverRun` | a turn reported as skipped is never started |
| `TurnsRunOnce` | no turn is started twice |
| `IndicatorIsTrue` | the indicator agrees with the tracked tasks |
| `PendingShowsWaiting`, `MarksGoWithTheirTurns` | the list shown in the browser is what will still run; a skip mark goes with its turn |
| `RefinesTurnQueue` | AgentSession implements `TurnQueue`: turns run in the order they came, wherever they were held, and none is left out that was not reported as skipped |
| `NeverResentAfterReply` | a prompt is not sent again once some of its reply was shown |
| `MisplacedReplies` | a reply is shown under another prompt only by a client on whose stream a response was left unread or the CLI spoke ahead of a prompt |
| `RegistryReachesATask`, `DiscardsOnlyItself` | the registered session is alive; only its own end removes it; any number of sockets |
| `OneSessionUnlessRaced`, `SpinnerTruthUnlessRaced`, `NothingLeaksUnlessRaced`, `AllPendingShownUnlessRaced` | the registry until two callers overlap |
| `RecordedEntriesStay`, `ViewsConverge`, `BubbleAppendedOnce` | the three properties of `sv_tabs`, for any number of tabs, entries and restarts |
| `TokensAreTrue`, `ShownIsWritten` | the token total is the persisted sum (`TokensTrue`); also while hydrations race, what is in memory has its row, is about to get it, or its insert raised (`MemoryIsWritten`) |
| `RestartedOnce`, `NeverTwoProxies`, `CloseLeavesNone` | the keeper: one refresh restart per token, one proxy, none left unsignalled |
| `FramesInOrder`, `StopsStayWithTheirConnection`, `LeftForGood` | the browser socket: order, no late stop, no connection from a page that was left |
| `ListsAsMeant`, `LeavesNoPile`, `WordsName`, `SidecarTells`, `TabsTell` | the five properties of `desk`, for any number of chats, tabs and requests |
| `RowsAreKept`, `ServesOnItsSchema`, `RefusesOnlyAfterGap`, `SnapshotsComeFirst` | the four properties of `migr`, for any number of scripts, rows, faults and days |
| `FeedIsAsWritten` | the feed shows the pages, notes and prose of what the model wrote, for documents of any length and content |
| `AnswerIsReadBack` | an answered card is parsed back to what the user gave, for any group of questions, picks and texts |

The arguments.

* `AgentSession`: `SkippedNeverRuns` is not inductive. A turn is in at most one place
  (submitted and not yet there, queue, result of the idle wait, held by the owner task,
  deferred, ran), and a turn reported as skipped keeps its mark until the owner task pops
  it; `PlacesInv` and `SkipInv` say so, with the elements of `queue` without duplicates.
  `RunsOnce` follows from the places alone, `IndicatorTruth` from an invariant on the
  tracking of tasks. Each step is one case of `Next`.
  `PendingIsWaiting` and the refinement also need to know which of those places is ahead
  of which: `AheadInv` (a turn is off the queue only at certain awaits, and in one place),
  `OrderInv` (what is off the queue came before all that is on it, and the queue is in
  order) and `MarksInv` (only submitted turns are marked or listed). With them every step
  is one of eight kinds (`TurnSteps`), and each kind changes the set of waiting turns in
  one way (`WaitingSteps`), from which the steps of `TurnQueue` are read off.
* `AgentSession` and the CLI: whether a retry resends a prompt that was answered depends on
  what the CLI may still say of it. `SaidInv`: whatever the CLI runs, has queued or has
  said belongs to a turn that was started, so one that starts has no reply, and it has
  none either while `relayed` is false. `MatchInv` follows the stream, for a client that is
  not `leaked`. Outside a response neither the CLI nor the stream holds a message of any
  turn (`Quiet`); in one all of them belong to the current turn, and nothing of the run
  follows its terminal message (`Answering`), so that the drain leaves nothing behind.
  `PairInv` is `leaked \/ MatchInv`: the steps that break `MatchInv` are those `LeftUnread`
  and `SpokenAhead` list, and each of them happens (a raising relay, an interrupted run
  without a result, a drain given up, a turn the CLI starts of its own). Tasks, lost
  messages, API errors, exits, stops, retries and reconnects are unrestricted.
* `SessionRegistry`: `RegInv` holds with any callers; `UnlessRaced` adds that at most one
  caller is in the lookup and that a live session is the registered one, which
  makes the check before the await still true after it. `DiscardOwn` needs no such condition.
* `SurfaceView`: `ViewInv` holds until a socket connects during another's hydration. Then
  there is at most one hydration after each start, and nothing else runs before it ends
  (`PhaseInv`), so the rows and the total it read are the current ones when it uses them.
  `MemInv` ties memory to the rows: they differ by the entries whose insert is under way or
  raised, and the total by a bill between its row and its addition. `SeenInv` counts, for
  each tab and entry: what the tab shows and what broadcasts still owe it add up to what
  the memory has, plus one if the entry is doubled for that tab; and the indicator it shows
  is the true one or on its way. `BubbleInv`: one coroutine at most owes a bubble, only once
  the picker is answered, and none owes it when it is there. `OneInv` says that no two
  coroutines carry the same entry, and that what is carried or doubled is in memory, so an
  entry is broadcast at most once. `MemoryIsWritten` needs none of this and no condition. The
  properties are what is left when nothing is in flight.
* `AuthKeeper`: `TriedKnown` is the strengthening. A token that was restarted for is older
  than the held one, or the keeper knows it: marked as futile, being renewed, or the
  reason of the restart in progress. Tokens are issued in order (`IssueOrder`), so a
  proxy cannot hand back a token older than the held one.
* `SurfaceSocket`: `Ordered` orders the three places of a frame (handled, wire, buffer).
  That nothing is buffered while a connection exists (`OneConnection`), and that the
  timer belongs to a page with a closed socket (`TimerOwned`), keep a frame from
  overtaking another.
* `ChatDesk`: each property needs to know which coroutine is on its way to make it true.
  `Words`: a session that no longer needs a title has one, its task is still to write
  it, or the write failed in it (`owed` is "failed"), which the next session does not
  inherit. `Shelved`: a spoken chat is out of the archive, or its resurfacing is to
  come. `Pile`: at most one unmarked empty chat, none while a launch is about to create
  one. `Side`: the sidecar is right, or an update that will reread the row is under way;
  an update that already read it holds the current title (`Told`). `Shows`: a tab shows
  the title, has yet to take what it asked for, or is about to be told. The frame lemmas
  (`TitleFrame`, `ShelfFrame`, `JobKept`, ...) say once which steps can disturb what.
* `Migrations`: the schema of the committed database is the recorded scripts, and one more
  exactly between a script's commit and its record or after a crash there; the rows of
  the open transaction are in `session`, in `session_new` or in both according to the
  statement reached. A call that raises ends the start where the committed database has no
  more than its records say, so only a cut between a script and its record is met by a
  later start. The snapshots are in the order of their names and times, and only the newest
  matters: unlinking keeps it, and a failed copy leaves it torn or whole and new.
* `TurnTranscript`: the answer string is built from the fields of all questions one after
  the other (`FlattenPlaces`, `FormatBases`). Its lines that start a field are the first
  lines of the fields that are not empty (`PartRead`), so each field is read up to where
  the next one begins, and the picks are found again because no label occurs twice
  (`ChosenRead`). `Clear` is the condition, and each part of it is needed: no later line of
  a text is a tag of the group, no label of a multi-select question contains ", ", no two
  options of a question have one label. That the card holds the string built from the
  user's answer (`Inv`) needs the type of what a text is cut into (`SplitType`): the scanner
  makes no picker.
  For `FeedAsWritten`, the scanner's function is shown to exist (`ScanExists`) and to read
  each piece where it stands (`PieceRead`): prose token by token, a span or a fence in one
  jump, a page or a note as one, and what a cut reply left open as prose up to the end
  (`OpenRead`). `DocumentRead` adds the pieces up: before piece i the scanner has made the
  entries of the pieces before, except the prose since the last page or note. `Closed` is
  the condition: a piece does not hold the end of itself, prose opens no tag, and a cut end
  holds no complete page or note. It depends on the constants only; it is true in
  `transcript` and false in `transcript_open_fence`, where the feed is not what was meant.
  These proofs are inductions over the length of a text or a group; they
  use the least element of a set of numbers (`Least`, from `WFMin`), since the library's
  induction theorems, which take an operator, cannot be instantiated.

The assumptions are the named ones on the constants (`SessionAssumption`, `CliAssumption`,
`RegistryAssumption`, `ViewAssumption`, `KeeperAssumption`, `SocketAssumption`, `DeskAssumption`,
`MigrationsAssumption`, `TranscriptAssumption`): bounds are natural
numbers, model values are distinct, and `TranscriptAssumption` gives pieces, texts and
questions their shape. TLC evaluates them in the runs.

Only model-checked: all liveness (the prover has no fairness reasoning). Every other
property of a passing run is proved: `FeedAsWritten` with `Closed`, `AnswerReadBack` with
`Clear` in its statement, `OneSession`, `SpinnerTruth`, `NothingLeaks`, `AllPendingShown` and
those of `sv_tabs` until their race. Some properties are proved or stated and are in no run:
the type invariants, `SkipMarksConsumed` (`MarksGoWithTheirTurns`), `RegisteredIsAlive`
(`RegistryReachesATask`), `TokensTrue` (`TokensAreTrue`), `MemoryIsWritten` (`ShownIsWritten`), `HydrationKeepsLive`,
`CompletionsTracked`.

## 7. Fairness

* `AgentSession`: the owner task is a task of an event loop that never starves one, and each
  of its awaits except a stream read has a bound, hence weak fairness of `Owner`. The
  idle wait's `queue.get()` is created before the stream read and the loop runs ready
  tasks in order, so a busy stream cannot beat it for ever: strong fairness of `GetTask`.
  Of the CLI it is assumed that it takes up queries, obeys interrupts and ends its runs;
  nothing is assumed about its messages when `Faults` says they may be lost.
* `AuthKeeper`: each wait of the task is a timer. The proxy need not do anything.
* `SurfaceSocket`: browser timers and events fire, a running daemon handles frames, and
  a daemon that went down is started again (the claim about the gap is about restarts).

`ChatDesk`, `Migrations` and `TurnTranscript` are checked for safety only.

## 8. What the checks do not show

`AgentSession` leaves out `_prompt_epoch` and `_latest_task_epoch`, which decide on the
dimming of an entry and on no step. `MisplacedOnlyAfterLeak` does not say that a leak never
happens; section 4 shows one. `SurfaceView` models one picker and one billed call; the
totals are counted, not summed, and the order of entries is modelled but claimed of no tab.
Its thinking flag and queue event are left out: both replace a value, as the indicator
does. A session's inside is abstracted in `SessionRegistry`. The `CLI` is a model of an
external program, as general as the daemon's own comments about it suggest. `AuthKeeper`
takes a killed process for dead at once. `ChatDesk` leaves out the order of the list, the
length of a title and toggles that are already as asked; what is in flight when a socket
drops counts as sent after the drop; a request that fails before its only statement
changes nothing and is no step. `Migrations` has one daemon at a time, takes a start
to last no time, and knows two shapes of scripts; a torn snapshot counts as fresh, as it
does for the code. In `TurnTranscript` a tag is one token,
attributes are a tag of their own; a text is three pieces at most in the runs. In
`AskAnswer` a tag is one token as well: a question without a header is tagged by its own
text (`labelFor`), and if that text has a line break the code would not find the tag again,
which the model does not show.

## 9. Not modelled

| part | why, or when |
|---|---|
| tab title and turn-end indicator | next: `TabIndicator`, a small machine of thinking, focus and the flash |
| configuration of MCP servers, screenshots | read a file, or write files under fresh names; no state that two actors share |
| backfill of sidecars | a script run once by hand, over the function that is modelled |
| validation of frames, HTTP status codes | one test and one answer each |
| rendering, CSS, markdown, the keyboard of the picker | no state of their own worth a model |

Plan, in order: what a hydration still guarantees when two sockets race (each entry is in
memory or in the rows), the action properties `StopNotLate` and `RefreshOnce` as refinements
of small abstract machines, `TabIndicator`, liveness of the titling coroutines.
