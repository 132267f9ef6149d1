------------------------------ MODULE ChatDesk ------------------------------
(***************************************************************************)
(* What the daemon does with the rows of the `session` table while chats   *)
(* are opened, spoken in, renamed, archived and listed: the HTTP routes of *)
(* main.py, the titling tasks and the recorded SDK id of agent_session.py, *)
(* the user line of messages.append_message, the sidecar a token monitor   *)
(* reads, and the title a browser tab shows (useSurfaceSocket).            *)
(*                                                                         *)
(* Each of these is a coroutine that goes through several awaits; between  *)
(* two of them any other may run.  A job is one such coroutine and at says *)
(* which step comes next.                                                  *)
(***************************************************************************)
EXTENDS SessionRows

CONSTANTS
    Tabs,         \* browser tabs; each shows one chat for as long as it lives
    MaxEvents,    \* bound: requests of users, faults, times auto_archive_days go by
    MaxIds        \* bound: SDK session ids the CLI hands out to a chat

ASSUME DeskAssumption == MaxEvents \in Nat /\ MaxIds \in Nat

NoTitle == MaxEvents + 1   \* a title the browser does not know yet: null

VARIABLES
    jobs,    \* the coroutines under way
    live,    \* the in-memory session of each chat: does it need a title, its SDK id
    topic,   \* the sidecar of each SDK id of a chat, Untitled while there is none
    tab,     \* each browser tab
    events,  \* number of the latest event
    wish,    \* history: the last word on whether a chat is archived
    owed,    \* history: an untitled chat was given words since the daemon started,
             \* or its titling failed in the session that runs
    spoilt   \* history: what of a chat a known race or a fault may have left behind

ghosts == <<wish, owed, spoilt>>
vars   == <<row, jobs, live, topic, tab, events, ghosts>>

Job == [do : {"rename", "title", "remember", "record", "launch"}, chat : Chats, req : Nat,
        at : {"write", "read", "send", "label", "file", "second"},
        got : Nat,   \* the title read from the row
        sdk : Nat]   \* the SDK id read with it

TypeOK ==
    /\ row \in [Chats -> Row]
    /\ jobs \subseteq Job
    /\ live \in [Chats -> [up : BOOLEAN, needs : BOOLEAN, sdk : Nat]]
    /\ topic \in [Chats -> [1 .. MaxIds -> Nat]]
    /\ tab \in [Tabs -> [chat : Chats, open : BOOLEAN, title : Nat,
                         seed : {"asked", "read", "done"}, got : Nat,
                         sub : BOOLEAN, missed : BOOLEAN]]
    /\ events \in 0 .. MaxEvents
    /\ wish \in [Chats -> {"none", "away", "back", "spoken"}]
    /\ owed \in [Chats -> {"no", "yes", "failed"}]
    /\ spoilt \in [Chats -> SUBSET {"tab", "label", "away", "pile"}]

Down == [up |-> FALSE, needs |-> FALSE, sdk |-> 0]

Init ==
    /\ RowInit
    /\ jobs = {}
    /\ live = [c \in Chats |-> Down]
    /\ topic = [c \in Chats |-> [s \in 1 .. MaxIds |-> Untitled]]
    /\ tab \in [Tabs -> [chat : Chats, open : {FALSE}, title : {NoTitle}, seed : {"done"},
                         got : {Untitled}, sub : {FALSE}, missed : {FALSE}]]
    /\ events = 0
    /\ wish = [c \in Chats |-> "none"]
    /\ owed = [c \in Chats |-> "no"]
    /\ spoilt = [c \in Chats |-> {}]

Of(c)      == {j \in jobs : j.chat = c}
Doing(d)   == {j \in jobs : j.do = d}
Sending(c) == {j \in Of(c) : j.at = "send"}
Titlers(c) == {j \in Of(c) : j.do = "title" /\ j.at = "write"}
\* A recorded line is about to bring the chat back.
Bringing(c) == \E j \in Of(c) : j.do = "record" /\ j.at = "second"

Event == events < MaxEvents /\ events' = events + 1

New(d, c, where) == [do |-> d, chat |-> c, req |-> events + 1, at |-> where,
                     got |-> Untitled, sdk |-> 0]
Step(j, where)   == jobs' = (jobs \ {j}) \cup {[j EXCEPT !.at = where]}
Keep(j, where, t, s) ==
    jobs' = (jobs \ {j}) \cup {[j EXCEPT !.at = where, !.got = t, !.sdk = s]}
Finish(j)        == jobs' = jobs \ {j}

Spoil(what, where) == spoilt' = [c \in Chats |-> IF c \in where THEN spoilt[c] \cup {what}
                                                                ELSE spoilt[c]]
Wish(c, w) == wish' = [wish EXCEPT ![c] = w]

(***************************************************************************)
(* Launching: the landing page posts /chats/open, "New chat" posts /chats. *)
(***************************************************************************)
\* The chats that launches under way will create: they saw no empty chat.
Launching == {j.chat : j \in Doing("launch")}

\* open_or_create_chat finds an empty chat and the browser goes there: no
\* row changes.  It finds none: the chat is created in a second transaction.
Reusable_Recent == {c \in Empty : row[c].fresh}
Reusable == Empty
OpenChat(c) ==
    /\ Reusable = {} /\ ~row[c].made /\ c \notin Launching
    /\ Event
    /\ jobs' = jobs \cup {New("launch", c, "second")}
    /\ UNCHANGED <<row, live, topic, tab, ghosts>>

FinishLaunch(j) ==
    /\ j.do = "launch"
    /\ CreateChat(j.chat)
    /\ Finish(j)
    /\ Spoil("pile", Launching \ {j.chat})
    /\ UNCHANGED <<live, topic, tab, events, wish, owed>>

LaunchFails(j) ==
    /\ j.do = "launch" /\ Event
    /\ Finish(j)
    /\ UNCHANGED <<row, live, topic, tab, ghosts>>

NewChat(c) ==
    /\ c \notin Launching
    /\ Event
    /\ CreateChat(c)
    /\ Spoil("pile", Launching \cup {c})
    /\ UNCHANGED <<jobs, live, topic, tab, wish, owed>>

(***************************************************************************)
(* The home page: lifecycle toggles, and the sweep every listing starts    *)
(* with.  After a toggle the page lists again.  A toggle that is on        *)
(* already changes nothing here and is left out.                           *)
(***************************************************************************)
Archive(c) ==
    /\ row[c].made /\ ~row[c].archived /\ Event
    /\ SetArchived(c, TRUE)
    /\ Wish(c, "away")
    /\ Spoil("away", {j.chat : j \in {k \in Doing("record") : k.at = "second"}} \cap {c})
    /\ UNCHANGED <<jobs, live, topic, tab, owed>>

Unarchive(c) ==
    /\ row[c].made /\ row[c].archived /\ Event
    /\ SetArchived(c, FALSE)
    /\ Wish(c, "back")
    /\ Spoil("pile", Launching \cup {c})
    /\ UNCHANGED <<jobs, live, topic, tab, owed>>

Delete(c) ==
    /\ row[c].made /\ ~row[c].deleted /\ Event
    /\ SetDeleted(c, TRUE)
    /\ Wish(c, "none")
    /\ UNCHANGED <<jobs, live, topic, tab, owed, spoilt>>

Restore(c) ==
    /\ row[c].made /\ row[c].deleted /\ Event
    /\ SetDeleted(c, FALSE)
    /\ Spoil("pile", Launching \cup {c})
    /\ UNCHANGED <<jobs, live, topic, tab, wish, owed>>

Star(c, on) ==
    /\ row[c].made /\ row[c].starred # on /\ Event
    /\ SetStarred(c, on)
    /\ UNCHANGED <<jobs, live, topic, tab, ghosts>>

ListSessions ==
    /\ Stale # {}
    /\ ArchiveStale
    /\ UNCHANGED <<jobs, live, topic, tab, events, ghosts>>

Age ==
    /\ Event
    /\ GrowOld
    /\ wish' = [c \in Chats |-> IF wish[c] = "away" THEN "away" ELSE "none"]
    /\ UNCHANGED <<jobs, live, topic, tab, owed, spoilt>>

(***************************************************************************)
(* A message: a session starts if none is live, the chat's first words     *)
(* spawn the titling task, and the turn records the user's line when it    *)
(* runs, which brings an archived chat back.                               *)
(***************************************************************************)
NeedsTitle(c) == IF live[c].up THEN live[c].needs ELSE EffectiveTitle(c) = Untitled
Titling(c, words) == words /\ NeedsTitle(c)
StillNeeds_AnyPromptSpends(c, words) == FALSE
StillNeeds(c, words) == NeedsTitle(c) /\ ~words

\* A failed titling is not tried again, but only by the session it failed in.
Promised(c) == IF owed[c] = "failed" /\ ~live[c].up THEN "no" ELSE owed[c]
Owing(c, words) == IF words /\ EffectiveTitle(c) = Untitled /\ Promised(c) # "failed"
                   THEN "yes" ELSE Promised(c)

Send(c, words) ==
    /\ row[c].made /\ Event
    /\ live' = [live EXCEPT ![c] = [up |-> TRUE, needs |-> StillNeeds(c, words),
                                    sdk |-> IF live[c].up THEN live[c].sdk ELSE row[c].sdk]]
    /\ jobs' = jobs \cup {New("record", c, "write")}
                    \cup IF Titling(c, words) THEN {New("title", c, "write")} ELSE {}
    /\ owed' = [owed EXCEPT ![c] = Owing(c, words)]
    /\ UNCHANGED <<row, topic, tab, wish, spoilt>>

\* Turns of a chat run one after the other.
Begins(j) ==
    /\ j.do = "record" /\ j.at = "write"
    /\ \A k \in Of(j.chat) : k.do = "record" => k.req >= j.req
    /\ \A k \in Of(j.chat) : k.do # "remember"

RecordUserLine(j) ==
    /\ Begins(j)
    /\ InsertMessage(j.chat)
    /\ Step(j, "second")
    /\ Wish(j.chat, IF row[j.chat].deleted THEN "none" ELSE "spoken")
    /\ UNCHANGED <<live, topic, tab, events, owed, spoilt>>

ResurfaceChat(j) ==
    /\ j.do = "record" /\ j.at = "second"
    /\ Resurface(j.chat)
    /\ Finish(j)
    /\ UNCHANGED <<live, topic, tab, events, ghosts>>

\* append_message raises, before the line is committed or after: the session
\* ends with its turns.
RecordFails(j) ==
    /\ Begins(j) \/ (j.do = "record" /\ j.at = "second")
    /\ Event
    /\ jobs' = {k \in jobs : ~(k.do = "record" /\ k.chat = j.chat)}
    /\ live' = [live EXCEPT ![j.chat] = Down]
    /\ Wish(j.chat, IF Bringing(j.chat) /\ wish[j.chat] = "spoken" THEN "none" ELSE wish[j.chat])
    /\ UNCHANGED <<row, topic, tab, owed, spoilt>>

\* The CLI names the conversation, or a new one after a failed resume.
NewId(c) ==
    /\ live[c].up /\ live[c].sdk < MaxIds /\ row[c].said
    /\ \A j \in Of(c) : j.do # "remember" /\ (j.do = "record" => j.at # "second")
    /\ live' = [live EXCEPT ![c].sdk = @ + 1]

Remember(c) ==
    /\ NewId(c)
    /\ SetSdk(c, live[c].sdk + 1)
    /\ jobs' = jobs \cup {New("remember", c, "label")}
    /\ UNCHANGED <<topic, tab, events, ghosts>>

\* The session knows the id, its row does not, and it is not written again.
RememberFails(c) ==
    /\ NewId(c) /\ Event
    /\ UNCHANGED <<row, jobs, topic, tab, ghosts>>

\* The session is dropped after its idle time; its titling task is not.
Reap(c) ==
    /\ live[c].up
    /\ \A j \in Of(c) : j.do \notin {"record", "remember"}
    /\ live' = [live EXCEPT ![c] = Down]
    /\ UNCHANGED <<row, jobs, topic, tab, events, ghosts>>

(***************************************************************************)
(* Titles.  A rename that commits while another coroutine holds a title it *)
(* is about to broadcast may be overtaken by it: known, and marked.        *)
(***************************************************************************)
Rename(c) ==
    /\ row[c].made /\ Event
    /\ SetUserTitle(c, events + 1)
    /\ jobs' = jobs \cup {[New("rename", c, "send") EXCEPT !.got = events + 1]}
    /\ Spoil("tab", IF Sending(c) # {} THEN {c} ELSE {})
    /\ UNCHANGED <<live, topic, tab, wish, owed>>

\* _apply_title: the conditional write; a write that changed nothing ends it.
ApplyTitle(j) ==
    /\ j.do = "title" /\ j.at = "write"
    /\ SetGeneratedTitle(j.chat, j.req)
    /\ IF TakesTitle(j.chat) THEN Step(j, "read") ELSE Finish(j)
    /\ UNCHANGED <<live, topic, tab, events, ghosts>>

\* "a failure leaves the chat on its default title (not retried ...)": the flag
\* of the session, which may be a later one, stays as it is.
Spent(c) == IF live[c].up /\ ~live[c].needs THEN "failed" ELSE "no"
ApplyFails(j) ==
    /\ j \in Titlers(j.chat) /\ Event
    /\ Finish(j)
    /\ owed' = IF Titlers(j.chat) = {j} THEN [owed EXCEPT ![j.chat] = Spent(j.chat)] ELSE owed
    /\ UNCHANGED <<row, live, topic, tab, wish, spoilt>>

\* _broadcast_effective_title reads the row it just wrote, and what came after.
Announced_Generated(j) == row[j.chat].title
Announced(j) == EffectiveTitle(j.chat)
ReadTitle(j) ==
    /\ j.at = "read"
    /\ Keep(j, "send", Announced(j), 0)
    /\ UNCHANGED <<row, live, topic, tab, events, ghosts>>

\* The title is in the row, and nobody is told.
ReadFails(j) ==
    /\ j.at = "read" /\ Event
    /\ Finish(j)
    /\ spoilt' = [spoilt EXCEPT ![j.chat] = @ \cup {"tab", "label"}]
    /\ UNCHANGED <<row, live, topic, tab, wish, owed>>

Hears(t, c, title) ==
    IF ~tab[t].open \/ tab[t].chat # c THEN tab[t]
    ELSE IF tab[t].sub THEN [tab[t] EXCEPT !.title = title, !.missed = FALSE]
    ELSE [tab[t] EXCEPT !.missed = @ \/ tab[t].seed # "asked" \/ tab[t].title # NoTitle]

BroadcastTitle(j) ==
    /\ j.at = "send"
    /\ tab' = [t \in Tabs |-> Hears(t, j.chat, j.got)]
    /\ Keep(j, "label", Untitled, 0)
    /\ UNCHANGED <<row, live, topic, events, ghosts>>

\* update_sidecar_for_session: nothing to write before the chat has both.
Label_Generated(c) == row[c].title
Label(c) == EffectiveTitle(c)
Labelled(c) == row[c].sdk # 0 /\ EffectiveTitle(c) # Untitled
ReadLabel(j) ==
    /\ j.at = "label"
    /\ IF Labelled(j.chat) THEN Keep(j, "file", Label(j.chat), row[j.chat].sdk)
                           ELSE Finish(j)
    /\ Spoil("label", {k.chat : k \in {i \in Of(j.chat) : i.at = "file"}})
    /\ UNCHANGED <<row, live, topic, tab, events, wish, owed>>

WriteSidecar(j) ==
    /\ j.at = "file"
    /\ topic' = [topic EXCEPT ![j.chat][j.sdk] = j.got]
    /\ Finish(j)
    /\ UNCHANGED <<row, live, tab, events, ghosts>>

\* The row cannot be read; or the file cannot be written, which is only logged.
SidecarFails(j) ==
    /\ j.at \in {"label", "file"} /\ Event
    /\ Finish(j)
    /\ Spoil("label", {j.chat})
    /\ UNCHANGED <<row, live, topic, tab, wish, owed>>

(***************************************************************************)
(* A browser tab.  A broadcast reaches it while it is subscribed; what is  *)
(* in flight when the socket drops counts as broadcast after the drop.     *)
(***************************************************************************)
Sets(t, r) == tab' = [tab EXCEPT ![t] = r]
TabOnly == UNCHANGED <<row, jobs, live, topic, events, ghosts>>

OpenTab(t) ==
    /\ ~tab[t].open /\ row[tab[t].chat].made
    /\ Sets(t, [tab[t] EXCEPT !.open = TRUE, !.seed = "asked"])
    /\ TabOnly

Subscribe(t) ==
    /\ tab[t].open /\ ~tab[t].sub
    /\ Sets(t, [tab[t] EXCEPT !.sub = TRUE])
    /\ TabOnly

Drop(t) ==
    /\ tab[t].sub
    /\ Sets(t, [tab[t] EXCEPT !.sub = FALSE])
    /\ TabOnly

\* GET /sessions/{id} is answered, and the answer arrives.
AnswerSeed(t) ==
    /\ tab[t].seed = "asked"
    /\ Sets(t, [tab[t] EXCEPT !.seed = "read", !.got = EffectiveTitle(tab[t].chat)])
    /\ TabOnly

Seeded(t) == IF tab[t].title = NoTitle THEN tab[t].got ELSE tab[t].title
TakeSeed(t) ==
    /\ tab[t].seed = "read"
    /\ Sets(t, [tab[t] EXCEPT !.seed = "done", !.got = Untitled,
                            !.title = Seeded(t)])
    /\ TabOnly

(***************************************************************************)
(* The daemon stops at any point and starts again: the rows and the        *)
(* sidecars are all that is left.                                          *)
(***************************************************************************)
Cut == {j.chat : j \in jobs}
Restart ==
    /\ Event
    /\ jobs' = {}
    /\ live' = [c \in Chats |-> Down]
    /\ tab' = [t \in Tabs |-> [tab[t] EXCEPT !.sub = FALSE,
                 !.seed = IF @ = "asked" THEN "done" ELSE @,
                 !.missed = @ \/ (tab[t].open /\ (tab[t].seed = "asked" \/ Of(tab[t].chat) # {}))]]
    /\ wish' = [c \in Chats |-> IF c \in Cut THEN "none" ELSE wish[c]]
    /\ owed' = [c \in Chats |-> "no"]
    /\ Spoil("label", Cut)
    /\ UNCHANGED <<row, topic>>

Next ==
    \/ \E c \in Chats :
          \/ OpenChat(c) \/ NewChat(c) \/ Archive(c) \/ Unarchive(c)
          \/ Delete(c) \/ Restore(c) \/ Remember(c) \/ RememberFails(c)
          \/ Reap(c) \/ Rename(c)
          \/ \E on \in BOOLEAN : Star(c, on)
          \/ \E words \in BOOLEAN : Send(c, words)
    \/ ListSessions \/ Age \/ Restart
    \/ \E j \in jobs :
          \/ FinishLaunch(j) \/ LaunchFails(j)
          \/ RecordUserLine(j) \/ ResurfaceChat(j) \/ RecordFails(j)
          \/ ApplyTitle(j) \/ ApplyFails(j) \/ ReadTitle(j) \/ ReadFails(j)
          \/ BroadcastTitle(j)
          \/ ReadLabel(j) \/ WriteSidecar(j) \/ SidecarFails(j)
    \/ \E t \in Tabs :
          OpenTab(t) \/ Subscribe(t) \/ Drop(t) \/ AnswerSeed(t) \/ TakeSeed(t)

Spec == Init /\ [][Next]_vars

(***************************************************************************)
(* Properties.                                                             *)
(***************************************************************************)
Speaking(c) == \E j \in Of(c) : j.do = "record"
Retitling(c) == \E j \in Of(c) : j.do \in {"rename", "title"}

\* A chat the user spoke in is in the list (unless bringing it back failed) and
\* one put away stays away, whatever the sweep, the turns and the other requests
\* do meanwhile; except that a line recorded before the archiving may still
\* bring the chat back after it (append_message resurfaces in a second
\* transaction).
ListedAsMeant ==
    \A c \in Made : ~Speaking(c) /\ ~row[c].deleted =>
        /\ wish[c] = "spoken" => ~row[c].archived
        /\ wish[c] = "back" /\ row[c].fresh => ~row[c].archived
        /\ wish[c] = "away" /\ "away" \notin spoilt[c] => row[c].archived

\* Launching again and again leaves one empty chat, not one per launch, apart
\* from those the user asked for or brought back and from launches that
\* overlapped.
NoPile == Cardinality({c \in Empty : "pile" \notin spoilt[c]}) <= 1

\* The first words said to an untitled chat name it, also when pictures came
\* first, the session was dropped or failed, or the chat was renamed meanwhile.
\* Only the write of the title may fail (_apply_title): then no other words of
\* that session name the chat, but the first ones of the next session do.
FirstWordsName ==
    \A c \in Made : owed[c] = "yes" /\ Of(c) = {} => EffectiveTitle(c) # Untitled

\* Once the writers of its title are done and none failed to read the row it
\* had written, a connected tab that missed no broadcast shows the title the row
\* has: a rename between the titling task's write and its broadcast is
\* announced, and a late seed does not undo it.
TabTitleTrue ==
    \A t \in Tabs : LET c == tab[t].chat IN
        /\ tab[t].open /\ tab[t].seed = "done" /\ tab[t].sub /\ ~tab[t].missed
        /\ ~Retitling(c) /\ "tab" \notin spoilt[c]
        => tab[t].title = EffectiveTitle(c)

\* The token monitor is told the title of the conversation the chat runs
\* under, whichever of title and id came last, unless two updates overlapped,
\* one failed or the daemon died in between.
SidecarTrue ==
    \A c \in Made : Of(c) = {} /\ Labelled(c) /\ "label" \notin spoilt[c]
        => topic[c][row[c].sdk] = EffectiveTitle(c)

(***************************************************************************)
(* What the documents say and the code does not do.                        *)
(***************************************************************************)
\* "Archiving is reversible": a chat the user took out of the archive stays
\* out until it is put away again or the days have passed.
UnarchiveSticks ==
    \A c \in Made : wish[c] = "back" /\ ~row[c].deleted => ~row[c].archived

\* "re-broadcasts a user's manual rename rather than visually clobbering it":
\* once all is done, no connected tab shows the generated title of a chat
\* the user renamed.
RenameShown ==
    \A t \in Tabs : LET c == tab[t].chat IN
        /\ tab[t].open /\ tab[t].sub /\ ~tab[t].missed
        /\ ~Retitling(c) /\ row[c].userTitle # Untitled /\ row[c].title # Untitled
        => tab[t].title # row[c].title
=============================================================================
