-------------------------- MODULE ChatDesk_proofs --------------------------
(***************************************************************************)
(* What holds of the chats' rows and of what is derived from them, for any *)
(* number of chats, tabs and requests.                                     *)
(***************************************************************************)
EXTENDS ChatDesk, FiniteSetTheorems, TLAPS

(***************************************************************************)
(* Types.                                                                  *)
(***************************************************************************)
\* What a coroutine becomes keeps its kind, its chat and its request.
LEMMA JobFacts ==
  ASSUME NEW j \in Job, NEW t \in Nat, NEW s \in Nat,
         NEW w \in {"write", "read", "send", "label", "file", "second"}
  PROVE  /\ [j EXCEPT !.at = w] \in Job
         /\ [j EXCEPT !.at = w].do = j.do /\ [j EXCEPT !.at = w].chat = j.chat
         /\ [j EXCEPT !.at = w].req = j.req /\ [j EXCEPT !.at = w].at = w
         /\ [j EXCEPT !.at = w, !.got = t, !.sdk = s] \in Job
         /\ [j EXCEPT !.at = w, !.got = t, !.sdk = s].do = j.do
         /\ [j EXCEPT !.at = w, !.got = t, !.sdk = s].chat = j.chat
         /\ [j EXCEPT !.at = w, !.got = t, !.sdk = s].req = j.req
         /\ [j EXCEPT !.at = w, !.got = t, !.sdk = s].at = w
         /\ [j EXCEPT !.at = w, !.got = t, !.sdk = s].got = t
         /\ [j EXCEPT !.at = w, !.got = t, !.sdk = s].sdk = s
BY DEF Job

\* A coroutine that starts.
LEMMA NewFacts ==
  ASSUME TypeOK, NEW c \in Chats,
         NEW d \in {"rename", "title", "remember", "record", "launch"},
         NEW w \in {"write", "read", "send", "label", "file", "second"}
  PROVE  /\ New(d, c, w) \in Job /\ New(d, c, w).do = d /\ New(d, c, w).chat = c
         /\ New(d, c, w).at = w /\ New(d, c, w).req = events + 1
BY DEF New, Job, TypeOK, Untitled

\* A new row is untitled, silent, recent and in the list.
LEMMA NewRowFacts ==
  /\ NewRow.made = TRUE /\ NewRow.title = Untitled /\ NewRow.userTitle = Untitled
  /\ NewRow.sdk = 0 /\ NewRow.archived = FALSE /\ NewRow.deleted = FALSE
  /\ NewRow.fresh = TRUE /\ NewRow.said = FALSE /\ NewRow \in Row
<1>1. /\ NoRow.title = Untitled /\ NoRow.userTitle = Untitled /\ NoRow.sdk = 0
      /\ NoRow.archived = FALSE /\ NoRow.deleted = FALSE /\ NoRow.said = FALSE
      /\ NoRow \in Row
  BY DEF NoRow, Row, Untitled
<1>2. QED
  BY <1>1 DEF NewRow, Row

\* Numbers of the state.
LEMMA Numbers ==
  ASSUME TypeOK
  PROVE  /\ events \in Nat /\ MaxEvents \in Nat /\ MaxIds \in Nat
         /\ \A c \in Chats : /\ row[c] \in Row /\ EffectiveTitle(c) \in Nat
                             /\ row[c].title \in Nat /\ row[c].userTitle \in Nat
                             /\ row[c].sdk \in Nat
BY DeskAssumption DEF TypeOK, EffectiveTitle, Row

\* A request counts.
LEMMA EventFacts ==
  ASSUME TypeOK, Event
  PROVE  events' \in 0 .. MaxEvents /\ events' = events + 1
BY DeskAssumption DEF TypeOK, Event

\* A coroutine that goes on is still one.
LEMMA StepType ==
  ASSUME TypeOK, NEW j \in jobs, NEW t \in Nat, NEW s \in Nat,
         NEW w \in {"write", "read", "send", "label", "file", "second"},
         Step(j, w) \/ Keep(j, w, t, s) \/ Finish(j)
  PROVE  jobs' \subseteq Job
<1>1. jobs \subseteq Job /\ j \in Job
  BY DEF TypeOK
<1>2. [j EXCEPT !.at = w] \in Job /\ [j EXCEPT !.at = w, !.got = t, !.sdk = s] \in Job
  BY <1>1 DEF Job
<1>3. QED
  BY <1>1, <1>2 DEF Step, Keep, Finish

\* Marking chats keeps the marks' type.
LEMMA SpoilType ==
  ASSUME TypeOK, NEW what \in {"tab", "label", "away", "pile"}, NEW S, Spoil(what, S)
  PROVE  spoilt' \in [Chats -> SUBSET {"tab", "label", "away", "pile"}]
BY DEF TypeOK, Spoil

TabRecord == [chat : Chats, open : BOOLEAN, title : Nat, seed : {"asked", "read", "done"},
              got : Nat, sub : BOOLEAN, missed : BOOLEAN]

\* The initial states have the types.
LEMMA TypeInit == Init => TypeOK
<1> SUFFICES ASSUME Init PROVE TypeOK
  OBVIOUS
<1>1. NoRow \in Row /\ NewRow \in Row
  BY DEF NoRow, NewRow, Row, Untitled
<1>2. row \in [Chats -> Row]
  BY <1>1 DEF Init, RowInit
<1>3. /\ live \in [Chats -> [up : BOOLEAN, needs : BOOLEAN, sdk : Nat]]
      /\ jobs \subseteq Job /\ events \in 0 .. MaxEvents
  BY DeskAssumption DEF Init, Down
<1>4. topic \in [Chats -> [1 .. MaxIds -> Nat]]
  BY DEF Init, Untitled
<1>5. tab \in [Tabs -> TabRecord]
  <2>1. NoTitle \in Nat /\ Untitled \in Nat
    BY DeskAssumption DEF NoTitle, Untitled
  <2>2. [chat : Chats, open : {FALSE}, title : {NoTitle}, seed : {"done"},
         got : {Untitled}, sub : {FALSE}, missed : {FALSE}] \subseteq TabRecord
    BY <2>1 DEF TabRecord
  <2>3. QED
    BY <2>2 DEF Init
<1>6. /\ wish \in [Chats -> {"none", "away", "back", "spoken"}]
      /\ owed \in [Chats -> {"no", "yes", "failed"}]
      /\ spoilt \in [Chats -> SUBSET {"tab", "label", "away", "pile"}]
  BY DEF Init
<1>7. QED
  BY <1>2, <1>3, <1>4, <1>5, <1>6 DEF TypeOK, TabRecord

\* A flag of one row changes and the rows stay rows.
LEMMA FlagType ==
  ASSUME row \in [Chats -> Row], NEW c \in Chats, NEW on \in BOOLEAN
  PROVE  /\ [row EXCEPT ![c].deleted = on] \in [Chats -> Row]
         /\ [row EXCEPT ![c].starred = on] \in [Chats -> Row]
<1>1. row[c] \in Row
  OBVIOUS
<1>2. [row[c] EXCEPT !.deleted = on] \in Row /\ [row[c] EXCEPT !.starred = on] \in Row
  BY <1>1 DEF Row
<1>3. QED
  BY <1>2

\* A step of a user's request or of the world keeps the types.
LEMMA TypeStep ==
  ASSUME TypeOK, [Next]_vars
  PROVE  TypeOK'
<1> USE DeskAssumption
<1>0. /\ row \in [Chats -> Row] /\ jobs \subseteq Job
      /\ live \in [Chats -> [up : BOOLEAN, needs : BOOLEAN, sdk : Nat]]
      /\ events \in 0 .. MaxEvents /\ events \in Nat
      /\ NewRow \in Row /\ tab \in [Tabs -> TabRecord]
  <2>1. NoRow \in Row /\ NewRow \in Row
    BY DEF NoRow, NewRow, Row, Untitled
  <2>2. QED
    BY <2>1, Numbers DEF TypeOK, TabRecord
<1>1. ASSUME NEW c \in Chats, OpenChat(c) PROVE TypeOK'
  <2>1. jobs' \subseteq Job
    BY <1>0, <1>1, NewFacts DEF OpenChat
  <2>2. events' \in 0 .. MaxEvents
    BY <1>1, EventFacts DEF OpenChat
  <2>3. QED
    BY <1>1, <2>1, <2>2 DEF OpenChat, TypeOK, ghosts
<1>2. ASSUME NEW c \in Chats, NewChat(c) PROVE TypeOK'
  <2>1. row' \in [Chats -> Row]
    BY <1>0, <1>2 DEF NewChat, CreateChat
  <2>2. events' \in 0 .. MaxEvents
    BY <1>2, EventFacts DEF NewChat
  <2>3. QED
    BY <1>2, <2>1, <2>2, SpoilType DEF NewChat, TypeOK
<1>3. ASSUME NEW c \in Chats, Archive(c) \/ Unarchive(c) PROVE TypeOK'
  <2>1. row' \in [Chats -> Row]
    <3>1. \A on \in BOOLEAN : [row EXCEPT ![c].archived = on] \in [Chats -> Row]
      BY <1>0 DEF Row
    <3>2. QED
      BY <1>3, <3>1 DEF Archive, Unarchive, SetArchived
  <2>2. events' \in 0 .. MaxEvents
    BY <1>3, EventFacts DEF Archive, Unarchive
  <2>3. wish' \in [Chats -> {"none", "away", "back", "spoken"}]
    BY <1>3 DEF TypeOK, Archive, Unarchive, Wish
  <2>4. spoilt' \in [Chats -> SUBSET {"tab", "label", "away", "pile"}]
    BY <1>3, SpoilType DEF Archive, Unarchive
  <2>5. UNCHANGED <<jobs, live, topic, tab, owed>>
    BY <1>3 DEF Archive, Unarchive
  <2>6. QED
    BY <2>1, <2>2, <2>3, <2>4, <2>5 DEF TypeOK
<1>4. ASSUME NEW c \in Chats, Delete(c) PROVE TypeOK'
  <2>1. row' \in [Chats -> Row]
    BY <1>0, <1>4, FlagType DEF Delete, SetDeleted
  <2>2. events' \in 0 .. MaxEvents
    BY <1>4, EventFacts DEF Delete
  <2>3. QED
    BY <1>4, <2>1, <2>2 DEF Delete, TypeOK, Wish
<1>5. ASSUME NEW c \in Chats, Restore(c) PROVE TypeOK'
  <2>1. row' \in [Chats -> Row]
    BY <1>0, <1>5, FlagType DEF Restore, SetDeleted
  <2>2. events' \in 0 .. MaxEvents
    BY <1>5, EventFacts DEF Restore
  <2>3. QED
    BY <1>5, <2>1, <2>2, SpoilType DEF Restore, TypeOK
<1>6. ASSUME NEW c \in Chats, NEW on \in BOOLEAN, Star(c, on) PROVE TypeOK'
  <2>1. row' \in [Chats -> Row]
    BY <1>0, <1>6, FlagType DEF Star, SetStarred
  <2>2. events' \in 0 .. MaxEvents
    BY <1>6, EventFacts DEF Star
  <2>3. UNCHANGED <<jobs, live, topic, tab, wish, owed, spoilt>>
    BY <1>6 DEF Star, ghosts
  <2>4. QED
    BY <2>1, <2>2, <2>3 DEF TypeOK
<1>7. CASE ListSessions
  <2>1. row' \in [Chats -> Row]
    <3>1. \A c \in Chats : [row[c] EXCEPT !.archived = TRUE] \in Row
      BY <1>0 DEF Row
    <3>2. QED
      BY <1>0, <1>7, <3>1 DEF ListSessions, ArchiveStale
  <2>2. QED
    BY <1>7, <2>1 DEF ListSessions, TypeOK, ghosts
<1>8. CASE Age
  <2>1. row' \in [Chats -> Row]
    BY <1>0, <1>8 DEF Age, GrowOld, Row
  <2>2. events' \in 0 .. MaxEvents
    BY <1>8, EventFacts DEF Age
  <2>3. QED
    BY <1>8, <2>1, <2>2 DEF Age, TypeOK
<1>9. ASSUME NEW c \in Chats, NEW words \in BOOLEAN, Send(c, words) PROVE TypeOK'
  <2>1. jobs' \subseteq Job
    BY <1>0, <1>9, NewFacts DEF Send
  <2>2. StillNeeds(c, words) \in BOOLEAN
    BY DEF StillNeeds
  <2>3. live' \in [Chats -> [up : BOOLEAN, needs : BOOLEAN, sdk : Nat]]
    BY <1>0, <1>9, <2>2, Numbers DEF Send
  <2>4. events' \in 0 .. MaxEvents
    BY <1>9, EventFacts DEF Send
  <2>5. owed' \in [Chats -> {"no", "yes", "failed"}]
    <3>1. Owing(c, words) \in {"no", "yes", "failed"}
      BY DEF TypeOK, Owing, Promised
    <3>2. QED
      BY <1>9, <3>1 DEF Send, TypeOK
  <2>6. QED
    BY <1>9, <2>1, <2>3, <2>4, <2>5 DEF Send, TypeOK
<1>10. ASSUME NEW c \in Chats, Remember(c) PROVE TypeOK'
  <2>1. jobs' \subseteq Job
    BY <1>0, <1>10, NewFacts DEF Remember
  <2>2. live' \in [Chats -> [up : BOOLEAN, needs : BOOLEAN, sdk : Nat]]
    BY <1>0, <1>10 DEF Remember, NewId
  <2>3. row' \in [Chats -> Row]
    BY <1>0, <1>10 DEF Remember, SetSdk, Row
  <2>4. QED
    BY <1>10, <2>1, <2>2, <2>3 DEF Remember, TypeOK, ghosts
<1>11. ASSUME NEW c \in Chats, Reap(c) PROVE TypeOK'
  BY <1>0, <1>11 DEF Reap, Down, TypeOK, ghosts
<1>12. ASSUME NEW c \in Chats, Rename(c) PROVE TypeOK'
  <2>1. [New("rename", c, "send") EXCEPT !.got = events + 1] \in Job
    <3>1. New("rename", c, "send") \in Job /\ events + 1 \in Nat
      BY <1>0, NewFacts
    <3> HIDE DEF New
    <3>2. QED
      BY <3>1 DEF Job
  <2>2. row' \in [Chats -> Row]
    BY <1>0, <1>12 DEF Rename, SetUserTitle, Row
  <2>3. events' \in 0 .. MaxEvents
    BY <1>12, EventFacts DEF Rename
  <2>4. spoilt' \in [Chats -> SUBSET {"tab", "label", "away", "pile"}]
    BY <1>12, SpoilType DEF Rename
  <2>5. QED
    BY <1>0, <1>12, <2>1, <2>2, <2>3, <2>4 DEF Rename, TypeOK
<1>13. ASSUME NEW j \in jobs, FinishLaunch(j) PROVE TypeOK'
  <2>1. row' \in [Chats -> Row]
    BY <1>0, <1>13 DEF FinishLaunch, CreateChat, Job
  <2>2. QED
    BY <1>0, <1>13, <2>1, SpoilType DEF FinishLaunch, Finish, TypeOK
<1>14. ASSUME NEW j \in jobs, RecordUserLine(j) PROVE TypeOK'
  <2>1. row' \in [Chats -> Row]
    <3>1. j.chat \in Chats /\ row[j.chat] \in Row
      BY <1>0 DEF Job
    <3>2. row' = [row EXCEPT ![j.chat].said = TRUE, ![j.chat].fresh = TRUE]
      BY <1>14 DEF RecordUserLine, InsertMessage
    <3>3. [row[j.chat] EXCEPT !.said = TRUE, !.fresh = TRUE] \in Row
      BY <3>1 DEF Row
    <3>4. QED
      BY <1>0, <3>1, <3>2, <3>3
  <2>2. jobs' \subseteq Job
    BY <1>14, StepType, 0 \in Nat DEF RecordUserLine
  <2>3. QED
    BY <1>14, <2>1, <2>2 DEF RecordUserLine, Wish, TypeOK
<1>15. ASSUME NEW j \in jobs, ResurfaceChat(j) PROVE TypeOK'
  <2>1. row' \in [Chats -> Row]
    <3>1. j.chat \in Chats /\ row[j.chat] \in Row
      BY <1>0 DEF Job
    <3> DEFINE a == row[j.chat].archived /\ row[j.chat].deleted
    <3>2. a \in BOOLEAN
      OBVIOUS
    <3>3. row' = [row EXCEPT ![j.chat].archived = a]
      BY <1>15 DEF ResurfaceChat, Resurface
    <3> HIDE DEF a
    <3>4. QED
      BY <1>0, <3>1, <3>2, <3>3 DEF Row
  <2>2. QED
    BY <1>0, <1>15, <2>1 DEF ResurfaceChat, Finish, TypeOK, ghosts
<1>16. ASSUME NEW j \in jobs, ApplyTitle(j) PROVE TypeOK'
  <2>1. row' \in [Chats -> Row]
    BY <1>0, <1>16 DEF ApplyTitle, SetGeneratedTitle, Row, Job
  <2>2. jobs' \subseteq Job
    BY <1>16, StepType, 0 \in Nat DEF ApplyTitle
  <2>3. QED
    BY <1>16, <2>1, <2>2 DEF ApplyTitle, TypeOK, ghosts
<1>17. ASSUME NEW j \in jobs, ReadTitle(j) PROVE TypeOK'
  <2>1. Announced(j) \in Nat
    BY <1>0, Numbers DEF Announced, Job
  <2>2. jobs' \subseteq Job
    BY <1>17, <2>1, StepType, 0 \in Nat DEF ReadTitle
  <2>3. QED
    BY <1>17, <2>2 DEF ReadTitle, TypeOK, ghosts
<1>18. ASSUME NEW j \in jobs, BroadcastTitle(j) PROVE TypeOK'
  <2>1. jobs' \subseteq Job
    BY <1>18, StepType, 0 \in Nat DEF BroadcastTitle, Untitled
  <2>2. \A t \in Tabs : Hears(t, j.chat, j.got) \in TabRecord
    <3>1. j.got \in Nat
      BY <1>0 DEF Job
    <3>2. ASSUME NEW t \in Tabs PROVE Hears(t, j.chat, j.got) \in TabRecord
      <4>1. tab[t] \in TabRecord
        BY <1>0
      <4>2. [tab[t] EXCEPT !.title = j.got, !.missed = FALSE] \in TabRecord
        BY <3>1, <4>1 DEF TabRecord
      <4>3. ASSUME NEW b \in BOOLEAN PROVE [tab[t] EXCEPT !.missed = b] \in TabRecord
        BY <4>1 DEF TabRecord
      <4>4. [tab[t] EXCEPT !.missed = @ \/ tab[t].seed # "asked" \/ tab[t].title # NoTitle]
              \in TabRecord
        BY <4>1, <4>3 DEF TabRecord
      <4>5. QED
        BY <4>1, <4>2, <4>4 DEF Hears
    <3>3. QED
      BY <3>2
  <2>3. tab' \in [Tabs -> TabRecord]
    BY <1>18, <2>2 DEF BroadcastTitle
  <2>4. UNCHANGED <<row, live, topic, events, wish, owed, spoilt>>
    BY <1>18 DEF BroadcastTitle, ghosts
  <2>5. QED
    BY <2>1, <2>3, <2>4 DEF TypeOK, TabRecord
<1>19. ASSUME NEW j \in jobs, ReadLabel(j) PROVE TypeOK'
  <2>1. Label(j.chat) \in Nat /\ row[j.chat].sdk \in Nat
    BY <1>0, Numbers DEF Label, Job
  <2>2. jobs' \subseteq Job
    BY <1>19, <2>1, StepType, 0 \in Nat DEF ReadLabel
  <2>3. QED
    BY <1>19, <2>2, SpoilType DEF ReadLabel, TypeOK
<1>20. ASSUME NEW j \in jobs, WriteSidecar(j) PROVE TypeOK'
  <2>1. topic' \in [Chats -> [1 .. MaxIds -> Nat]]
    BY <1>0, <1>20 DEF WriteSidecar, TypeOK, Job
  <2>2. QED
    BY <1>0, <1>20, <2>1 DEF WriteSidecar, Finish, TypeOK, ghosts
<1>21. ASSUME NEW j \in jobs, SidecarFails(j) PROVE TypeOK'
  <2>1. events' \in 0 .. MaxEvents
    BY <1>21, EventFacts DEF SidecarFails
  <2>2. QED
    BY <1>0, <1>21, <2>1, SpoilType DEF SidecarFails, Finish, TypeOK
<1>22. ASSUME NEW t \in Tabs,
              OpenTab(t) \/ Subscribe(t) \/ Drop(t) \/ AnswerSeed(t) \/ TakeSeed(t)
       PROVE  TypeOK'
  <2>1. EffectiveTitle(tab[t].chat) \in Nat
    BY Numbers DEF TypeOK
  <2>2. tab' \in [Tabs -> TabRecord]
    <3>1. Seeded(t) \in Nat /\ tab[t] \in TabRecord
      BY <1>0 DEF Seeded, TabRecord
    <3>2. CASE OpenTab(t) \/ Subscribe(t) \/ Drop(t)
      <4>1. /\ [tab[t] EXCEPT !.open = TRUE, !.seed = "asked"] \in TabRecord
            /\ [tab[t] EXCEPT !.sub = TRUE] \in TabRecord
            /\ [tab[t] EXCEPT !.sub = FALSE] \in TabRecord
        BY <3>1 DEF TabRecord
      <4>2. QED
        BY <1>0, <3>2, <4>1 DEF OpenTab, Subscribe, Drop, Sets
    <3>3. CASE AnswerSeed(t)
      BY <1>0, <2>1, <3>1, <3>3 DEF AnswerSeed, Sets, TabRecord
    <3>4. CASE TakeSeed(t)
      <4>1. [tab[t] EXCEPT !.seed = "done", !.got = Untitled, !.title = Seeded(t)] \in TabRecord
        BY <3>1 DEF TabRecord, Untitled
      <4>2. QED
        BY <1>0, <3>4, <4>1 DEF TakeSeed, Sets
    <3>5. QED
      BY <1>22, <3>2, <3>3, <3>4
  <2>3. UNCHANGED <<row, jobs, live, topic, events, ghosts>>
    BY <1>22 DEF OpenTab, Subscribe, Drop, AnswerSeed, TakeSeed, TabOnly
  <2>4. QED
    BY <2>2, <2>3 DEF TypeOK, ghosts, TabRecord
<1>23. CASE Restart
  <2>1. events' \in 0 .. MaxEvents
    BY <1>23, EventFacts DEF Restart
  <2>2. tab' \in [Tabs -> TabRecord]
    <3> DEFINE after(t) == [tab[t] EXCEPT !.sub = FALSE,
                 !.seed = IF @ = "asked" THEN "done" ELSE @,
                 !.missed = @ \/ (tab[t].open /\ (tab[t].seed = "asked" \/ Of(tab[t].chat) # {}))]
    <3>1. ASSUME NEW t \in Tabs PROVE after(t) \in TabRecord
      <4> DEFINE m == \/ tab[t].missed
                      \/ tab[t].open /\ (tab[t].seed = "asked" \/ Of(tab[t].chat) # {})
      <4>1. m \in BOOLEAN
        OBVIOUS
      <4>2. after(t) = [tab[t] EXCEPT !.sub = FALSE, !.missed = m,
                                      !.seed = IF @ = "asked" THEN "done" ELSE @]
        BY <1>0 DEF TabRecord
      <4> DEFINE s == IF tab[t].seed = "asked" THEN "done" ELSE tab[t].seed
      <4>3. s \in {"asked", "read", "done"} /\ tab[t] \in TabRecord
        BY <1>0 DEF TabRecord
      <4>4. after(t) = [tab[t] EXCEPT !.sub = FALSE, !.seed = s, !.missed = m]
        BY <4>2, <4>3 DEF TabRecord
      <4> HIDE DEF m, s, after
      <4>5. [tab[t] EXCEPT !.sub = FALSE, !.seed = s, !.missed = m] \in TabRecord
        BY <4>1, <4>3 DEF TabRecord
      <4>6. QED
        BY <4>4, <4>5
    <3>2. tab' = [t \in Tabs |-> after(t)]
      BY <1>23 DEF Restart
    <3> HIDE DEF after
    <3>3. QED
      BY <3>1, <3>2
  <2>3. QED
    BY <1>23, <2>1, <2>2, SpoilType DEF Restart, TypeOK, Down, TabRecord
<1>24. CASE UNCHANGED vars
  BY <1>24 DEF vars, ghosts, TypeOK
<1>25. ASSUME NEW c \in Chats, RememberFails(c) PROVE TypeOK'
  <2>1. live' \in [Chats -> [up : BOOLEAN, needs : BOOLEAN, sdk : Nat]]
    BY <1>0, <1>25 DEF RememberFails, NewId
  <2>2. events' \in 0 .. MaxEvents
    BY <1>25, EventFacts DEF RememberFails
  <2>3. QED
    BY <1>25, <2>1, <2>2 DEF RememberFails, TypeOK, ghosts
<1>26. ASSUME NEW j \in jobs, LaunchFails(j) \/ RecordFails(j) \/ ApplyFails(j) \/ ReadFails(j)
       PROVE  TypeOK'
  <2>1. jobs' \subseteq Job /\ j.chat \in Chats
    BY <1>0, <1>26 DEF LaunchFails, RecordFails, ApplyFails, ReadFails, Finish, Job
  <2>2. events' \in 0 .. MaxEvents
    BY <1>26, EventFacts DEF LaunchFails, RecordFails, ApplyFails, ReadFails
  <2>3. live' \in [Chats -> [up : BOOLEAN, needs : BOOLEAN, sdk : Nat]]
    <3>1. live' = live \/ live' = [live EXCEPT ![j.chat] = Down]
      BY <1>26 DEF LaunchFails, RecordFails, ApplyFails, ReadFails
    <3>2. Down \in [up : BOOLEAN, needs : BOOLEAN, sdk : Nat]
      BY DEF Down
    <3>3. QED
      BY <1>0, <2>1, <3>1, <3>2
  <2>4. owed' \in [Chats -> {"no", "yes", "failed"}]
    <3>1. Spent(j.chat) \in {"no", "yes", "failed"} /\ owed \in [Chats -> {"no", "yes", "failed"}]
      BY DEF Spent, TypeOK
    <3>2. QED
      BY <1>26, <3>1 DEF LaunchFails, RecordFails, ApplyFails, ReadFails, ghosts
  <2>5. wish' \in [Chats -> {"none", "away", "back", "spoken"}]
    <3>1. wish' = wish \/ \E w \in {"none", wish[j.chat]} : wish' = [wish EXCEPT ![j.chat] = w]
      BY <1>26 DEF LaunchFails, RecordFails, ApplyFails, ReadFails, ghosts, Wish
    <3>2. QED
      BY <2>1, <3>1 DEF TypeOK
  <2>6. spoilt' \in [Chats -> SUBSET {"tab", "label", "away", "pile"}]
    <3>1. spoilt' = spoilt \/ spoilt' = [spoilt EXCEPT ![j.chat] = @ \cup {"tab", "label"}]
      BY <1>26 DEF LaunchFails, RecordFails, ApplyFails, ReadFails, ghosts
    <3>2. spoilt[j.chat] \cup {"tab", "label"} \in SUBSET {"tab", "label", "away", "pile"}
      BY <2>1 DEF TypeOK
    <3>3. QED
      BY <2>1, <3>1, <3>2 DEF TypeOK
  <2>7. UNCHANGED <<row, topic, tab>>
    BY <1>26 DEF LaunchFails, RecordFails, ApplyFails, ReadFails
  <2>8. QED
    BY <2>1, <2>2, <2>3, <2>4, <2>5, <2>6, <2>7 DEF TypeOK
<1> QED
  BY <1>1, <1>2, <1>3, <1>4, <1>5, <1>6, <1>7, <1>8, <1>9, <1>10, <1>11, <1>12, <1>13, <1>14,
     <1>15, <1>16, <1>17, <1>18, <1>19, <1>20, <1>21, <1>22, <1>23, <1>24, <1>25,
     <1>26 DEF Next

\* Rows, coroutines, sidecars and tabs keep their types.
THEOREM TypeCorrect == Spec => []TypeOK
BY TypeInit, TypeStep, PTL DEF Spec

(***************************************************************************)
(* Frames: who changes what.                                               *)
(***************************************************************************)
SameNames(c) == /\ row'[c].made = row[c].made /\ row'[c].title = row[c].title
                /\ row'[c].userTitle = row[c].userTitle /\ row'[c].sdk = row[c].sdk

Created(c) == ~row[c].made /\ row'[c] = NewRow

\* The toggles, the sweep and the days that pass leave names alone.
LEMMA ToggleFrame ==
  ASSUME TypeOK, NEW c \in Chats,
         \/ \E d \in Chats : \/ Archive(d) \/ Unarchive(d) \/ Delete(d) \/ Restore(d)
                             \/ \E on \in BOOLEAN : Star(d, on)
         \/ ListSessions \/ Age
         \/ \E j \in jobs : RecordUserLine(j) \/ ResurfaceChat(j)
  PROVE  SameNames(c)
<1>0. row \in [Chats -> Row] /\ row[c] \in Row
  BY DEF TypeOK
<1>1. CASE \E d \in Chats : Archive(d) \/ Unarchive(d)
  BY <1>0, <1>1 DEF Archive, Unarchive, SetArchived, SameNames, Row
<1>2. CASE \E d \in Chats : Delete(d) \/ Restore(d)
  BY <1>0, <1>2 DEF Delete, Restore, SetDeleted, SameNames, Row
<1>3. CASE \E d \in Chats, on \in BOOLEAN : Star(d, on)
  BY <1>0, <1>3 DEF Star, SetStarred, SameNames, Row
<1>4. CASE ListSessions
  BY <1>0, <1>4 DEF ListSessions, ArchiveStale, SameNames, Row
<1>5. CASE Age
  BY <1>0, <1>5 DEF Age, GrowOld, SameNames, Row
<1>6. CASE \E j \in jobs : RecordUserLine(j)
  BY <1>0, <1>6 DEF RecordUserLine, InsertMessage, SameNames, Row
<1>7. CASE \E j \in jobs : ResurfaceChat(j)
  BY <1>0, <1>7 DEF ResurfaceChat, Resurface, SameNames, Row
<1> QED
  BY <1>1, <1>2, <1>3, <1>4, <1>5, <1>6, <1>7

\* A coroutine fails.
Fails(j) == \/ LaunchFails(j) \/ RecordFails(j) \/ ApplyFails(j) \/ ReadFails(j)
            \/ SidecarFails(j)

\* Its failure leaves the rows, the sidecars and the tabs alone.
LEMMA FailFrame ==
  ASSUME NEW j \in jobs, Fails(j)
  PROVE  UNCHANGED <<row, topic, tab>> /\ jobs' \subseteq jobs /\ Event
BY DEF Fails, LaunchFails, RecordFails, ApplyFails, ReadFails, SidecarFails, Finish

\* What fails, and what is marked for it.
LEMMA FailPlace ==
  ASSUME TypeOK, NEW j \in jobs, Fails(j)
  PROVE  \/ j.do = "launch"
         \/ j.do = "record" /\ RecordFails(j)
         \/ j.do = "title" /\ j.at = "write" /\ ApplyFails(j)
         \/ j.at = "read" /\ {"tab", "label"} \subseteq spoilt'[j.chat]
         \/ j.at \in {"label", "file"} /\ "label" \in spoilt'[j.chat]
<1>1. j.chat \in Chats /\ spoilt \in [Chats -> SUBSET {"tab", "label", "away", "pile"}]
  BY DEF TypeOK, Job
<1>2. CASE LaunchFails(j) \/ RecordFails(j) \/ ApplyFails(j)
  BY <1>2 DEF LaunchFails, RecordFails, Begins, ApplyFails, Titlers
<1>3. CASE ReadFails(j)
  BY <1>1, <1>3 DEF ReadFails
<1>4. CASE SidecarFails(j)
  BY <1>1, <1>4 DEF SidecarFails, Spoil
<1>5. QED
  BY <1>2, <1>3, <1>4 DEF Fails

\* The names of a chat change when it is created, renamed, titled or given a
\* conversation, and at no other step.
LEMMA NamesFrame ==
  ASSUME TypeOK, [Next]_vars, NEW c \in Chats
  PROVE  \/ SameNames(c)
         \/ Created(c) /\ (NewChat(c) \/ \E j \in jobs : FinishLaunch(j) /\ j.chat = c)
         \/ Rename(c) \/ Remember(c)
         \/ \E j \in jobs : ApplyTitle(j) /\ j.chat = c
<1>0. /\ row \in [Chats -> Row] /\ row[c] \in Row
      /\ \A j \in jobs : j.chat \in Chats
  BY DEF TypeOK, Job
<1>1. CASE row' = row
  BY <1>1 DEF SameNames
<1>2. CASE \E d \in Chats : NewChat(d)
  BY <1>0, <1>2 DEF NewChat, CreateChat, Created, SameNames
<1>3. CASE \E j \in jobs : FinishLaunch(j)
  BY <1>0, <1>3 DEF FinishLaunch, CreateChat, Created, SameNames
<1>4. CASE \E d \in Chats : Rename(d)
  BY <1>0, <1>4 DEF Rename, SetUserTitle, SameNames
<1>5. CASE \E d \in Chats : Remember(d)
  BY <1>0, <1>5 DEF Remember, SetSdk, SameNames
<1>6. CASE \E j \in jobs : ApplyTitle(j)
  BY <1>0, <1>6 DEF ApplyTitle, SetGeneratedTitle, SameNames
<1>7. CASE \E d \in Chats : \/ OpenChat(d) \/ Reap(d) \/ RememberFails(d)
                           \/ \E words \in BOOLEAN : Send(d, words)
  BY <1>1, <1>7 DEF OpenChat, Reap, RememberFails, Send
<1>8. CASE \E j \in jobs : \/ ReadTitle(j) \/ BroadcastTitle(j) \/ ReadLabel(j)
                           \/ WriteSidecar(j) \/ Fails(j)
  BY <1>1, <1>8, FailFrame DEF ReadTitle, BroadcastTitle, ReadLabel, WriteSidecar
<1>9. CASE \E t \in Tabs : \/ OpenTab(t) \/ Subscribe(t) \/ Drop(t) \/ AnswerSeed(t)
                           \/ TakeSeed(t)
  BY <1>1, <1>9 DEF OpenTab, Subscribe, Drop, AnswerSeed, TakeSeed, TabOnly
<1>10. CASE Restart \/ UNCHANGED vars
  BY <1>1, <1>10 DEF Restart, vars
<1> QED
  BY <1>2, <1>3, <1>4, <1>5, <1>6, <1>7, <1>8, <1>9, <1>10, ToggleFrame DEF Next, Fails

\* The steps of a coroutine.
Uses(j) == \/ FinishLaunch(j) \/ RecordUserLine(j) \/ ResurfaceChat(j) \/ ApplyTitle(j)
           \/ ReadTitle(j) \/ BroadcastTitle(j) \/ ReadLabel(j) \/ WriteSidecar(j)
           \/ Fails(j)

\* A request that starts a coroutine, or another step that is none of one.
Elsewhere ==
    \/ \E c \in Chats : \/ NewChat(c) \/ Archive(c) \/ Unarchive(c) \/ Delete(c) \/ Restore(c)
                        \/ Reap(c) \/ RememberFails(c) \/ \E on \in BOOLEAN : Star(c, on)
    \/ ListSessions \/ Age
    \/ \E t \in Tabs : OpenTab(t) \/ Subscribe(t) \/ Drop(t) \/ AnswerSeed(t) \/ TakeSeed(t)
    \/ UNCHANGED vars

\* Those leave the coroutines alone.
LEMMA ElsewhereFrame == ASSUME Elsewhere PROVE jobs' = jobs
BY DEF Elsewhere, NewChat, Archive, Unarchive, Delete, Restore, Reap, RememberFails, Star,
   ListSessions, Age, OpenTab, Subscribe, Drop, AnswerSeed, TakeSeed, TabOnly, vars

\* Every step is one of these.
LEMMA Steps ==
  ASSUME [Next]_vars
  PROVE  \/ Elsewhere \/ Restart \/ \E j \in jobs : Uses(j)
         \/ \E c \in Chats : OpenChat(c) \/ Remember(c) \/ Rename(c)
                             \/ \E words \in BOOLEAN : Send(c, words)
BY DEF Next, Elsewhere, Uses, Fails

\* A turn ends with the session when the line of another one cannot be recorded.
Ends(j) == j.do = "record" /\ \E k \in jobs : RecordFails(k) /\ k.chat = j.chat

\* A coroutine is under way until it takes its own step or the daemon stops, a
\* turn also until its session ends.
LEMMA JobKept ==
  ASSUME TypeOK, [Next]_vars, NEW j \in jobs
  PROVE  j \in jobs' \/ Uses(j) \/ Restart \/ Ends(j)
<1>1. ASSUME NEW k \in jobs, Uses(k), k # j PROVE j \in jobs' \/ Ends(j)
  BY <1>1 DEF Uses, Ends, FinishLaunch, RecordUserLine, ResurfaceChat, ApplyTitle, ReadTitle,
     BroadcastTitle, ReadLabel, WriteSidecar, Fails, LaunchFails, RecordFails, ApplyFails,
     ReadFails, SidecarFails, Step, Keep, Finish
<1>2. ASSUME NEW c \in Chats, \/ OpenChat(c) \/ Remember(c) \/ Rename(c)
                              \/ \E words \in BOOLEAN : Send(c, words)
      PROVE  j \in jobs'
  BY <1>2 DEF OpenChat, Remember, Rename, Send
<1>3. QED
  BY <1>1, <1>2, Steps, ElsewhereFrame

\* Where a coroutine that was not there comes from.
Begun(k) ==
    \/ \E c \in Chats : OpenChat(c) /\ k = New("launch", c, "second")
    \/ \E c \in Chats : Remember(c) /\ k = New("remember", c, "label")
    \/ \E c \in Chats : Rename(c) /\ k = [New("rename", c, "send") EXCEPT !.got = events + 1]
    \/ \E c \in Chats, words \in BOOLEAN :
          /\ Send(c, words)
          /\ \/ k = New("record", c, "write")
             \/ Titling(c, words) /\ k = New("title", c, "write")

Continues(j, k) ==
    /\ k.chat = j.chat /\ k.do = j.do /\ k.req = j.req
    /\ \/ RecordUserLine(j) /\ k.at = "second"
       \/ ApplyTitle(j) /\ TakesTitle(j.chat) /\ k.at = "read"
       \/ ReadTitle(j) /\ k.at = "send" /\ k.got = EffectiveTitle(j.chat)
       \/ BroadcastTitle(j) /\ k.at = "label"
       \/ /\ ReadLabel(j) /\ k.at = "file" /\ Labelled(j.chat)
          /\ k.got = EffectiveTitle(j.chat) /\ k.sdk = row[j.chat].sdk

\* A coroutine that was not there has begun or is what another became.
LEMMA JobNew ==
  ASSUME TypeOK, [Next]_vars, NEW k \in jobs', k \notin jobs
  PROVE  Begun(k) \/ \E j \in jobs : Continues(j, k)
<1>0. jobs \subseteq Job /\ 0 \in Nat
  BY DEF TypeOK
<1>1. ASSUME NEW j \in jobs, Uses(j) PROVE Continues(j, k)
  <2>0. j \in Job /\ j.chat \in Chats
    BY <1>0 DEF Job
  <2>1. CASE RecordUserLine(j)
    <3>1. k = [j EXCEPT !.at = "second"]
      BY <2>1 DEF RecordUserLine, Step
    <3>2. QED
      BY <2>0, <2>1, <3>1 DEF Continues, Job
  <2>2. CASE ApplyTitle(j)
    <3>1. TakesTitle(j.chat) /\ k = [j EXCEPT !.at = "read"]
      BY <2>2 DEF ApplyTitle, Step, Finish
    <3>2. QED
      BY <2>0, <2>2, <3>1 DEF Continues, Job
  <2>3. CASE ReadTitle(j)
    <3>1. k = [j EXCEPT !.at = "send", !.got = EffectiveTitle(j.chat), !.sdk = 0]
      BY <2>3 DEF ReadTitle, Keep, Announced
    <3>2. QED
      BY <2>0, <2>3, <3>1 DEF Continues, Job
  <2>4. CASE BroadcastTitle(j)
    <3>1. k = [j EXCEPT !.at = "label", !.got = Untitled, !.sdk = 0]
      BY <2>4 DEF BroadcastTitle, Keep
    <3>2. QED
      BY <2>0, <2>4, <3>1 DEF Continues, Job
  <2>5. CASE ReadLabel(j)
    <3>1. /\ Labelled(j.chat)
          /\ k = [j EXCEPT !.at = "file", !.got = EffectiveTitle(j.chat), !.sdk = row[j.chat].sdk]
      BY <2>5 DEF ReadLabel, Keep, Finish, Label
    <3>2. QED
      BY <2>0, <2>5, <3>1 DEF Continues, Job
  <2>6. ~(FinishLaunch(j) \/ ResurfaceChat(j) \/ WriteSidecar(j) \/ Fails(j))
    BY FailFrame DEF FinishLaunch, ResurfaceChat, WriteSidecar, Finish
  <2>7. QED
    BY <1>1, <2>1, <2>2, <2>3, <2>4, <2>5, <2>6 DEF Uses
<1>2. ASSUME NEW c \in Chats, OpenChat(c) \/ Remember(c) \/ Rename(c) PROVE Begun(k)
  BY <1>2 DEF OpenChat, Remember, Rename, Begun
<1>3. ASSUME NEW c \in Chats, NEW words \in BOOLEAN, Send(c, words) PROVE Begun(k)
  <2>1. k = New("record", c, "write") \/ (Titling(c, words) /\ k = New("title", c, "write"))
    BY <1>3 DEF Send
  <2>2. QED
    BY <1>3, <2>1 DEF Begun
<1>4. ~Restart
  BY DEF Restart
<1>5. QED
  BY <1>1, <1>2, <1>3, <1>4, Steps, ElsewhereFrame

\* Who changes what the daemon remembers of a chat, and its history.
LEMMA OwedFrame ==
  ASSUME TypeOK, [Next]_vars, NEW c \in Chats
  PROVE  \/ owed'[c] = owed[c]
         \/ Restart /\ owed'[c] = "no"
         \/ \E words \in BOOLEAN : Send(c, words)
         \/ /\ \E j \in jobs : ApplyFails(j) /\ Titlers(c) = {j}
            /\ live' = live /\ owed'[c] = Spent(c)
<1>1. CASE Elsewhere
  <2>1. owed' = owed
    BY <1>1 DEF Elsewhere, NewChat, Archive, Unarchive, Delete, Restore, Reap, RememberFails,
       Star, ListSessions, Age, OpenTab, Subscribe, Drop, AnswerSeed, TakeSeed, TabOnly, vars,
       ghosts
  <2>2. QED
    BY <2>1
<1>2. CASE Restart
  BY <1>2 DEF Restart
<1>3. CASE \E j \in jobs : Uses(j) /\ ~ApplyFails(j)
  <2>1. owed' = owed
    BY <1>3 DEF Uses, FinishLaunch, RecordUserLine, ResurfaceChat, ApplyTitle, ReadTitle,
     BroadcastTitle, ReadLabel, WriteSidecar, Fails, LaunchFails, RecordFails, ReadFails,
     SidecarFails, ghosts
  <2>2. QED
    BY <2>1
<1>6. CASE \E j \in jobs : ApplyFails(j)
  <2>1. PICK j \in jobs : ApplyFails(j)
    BY <1>6
  <2>2. j \in Titlers(c) => j.chat = c
    BY DEF Titlers, Of
  <2>3. CASE Titlers(j.chat) = {j} /\ j.chat = c
    <3>1. owed' = [owed EXCEPT ![c] = Spent(c)] /\ live' = live
      BY <2>1, <2>3 DEF ApplyFails
    <3>2. owed'[c] = Spent(c)
      BY <3>1 DEF TypeOK
    <3>3. QED
      BY <2>1, <2>3, <3>1, <3>2
  <2>4. CASE ~(Titlers(j.chat) = {j} /\ j.chat = c)
    <3>1. owed' = owed \/ (j.chat # c /\ owed' = [owed EXCEPT ![j.chat] = Spent(j.chat)])
      BY <2>1, <2>4 DEF ApplyFails
    <3>2. QED
      BY <3>1 DEF TypeOK
  <2>5. QED
    BY <2>3, <2>4
<1>4. CASE \E d \in Chats : OpenChat(d) \/ Remember(d) \/ Rename(d)
  <2>1. owed' = owed
    BY <1>4 DEF OpenChat, Remember, Rename, ghosts
  <2>2. QED
    BY <2>1
<1>5. CASE \E d \in Chats, words \in BOOLEAN : Send(d, words)
  <2>1. PICK d \in Chats, words \in BOOLEAN : Send(d, words)
    BY <1>5
  <2>2. CASE d = c
    BY <2>1, <2>2
  <2>3. CASE d # c
    <3>1. owed' = [owed EXCEPT ![d] = Owing(d, words)]
      BY <2>1 DEF Send
    <3>2. owed'[c] = owed[c]
      BY <2>3, <3>1 DEF TypeOK
    <3>3. QED
      BY <3>2
  <2>4. QED
    BY <2>2, <2>3
<1> QED
  BY <1>1, <1>2, <1>3, <1>4, <1>5, <1>6, Steps

\* The in-memory session of a chat changes by these steps only.
LEMMA LiveFrame ==
  ASSUME TypeOK, [Next]_vars, NEW c \in Chats
  PROVE  \/ live'[c] = live[c]
         \/ live'[c] = Down
         \/ (Remember(c) \/ RememberFails(c)) /\ live'[c] = [live[c] EXCEPT !.sdk = @ + 1]
         \/ \E words \in BOOLEAN : Send(c, words)
<1>1. CASE Elsewhere /\ \A d \in Chats : ~RememberFails(d)
  BY <1>1 DEF Elsewhere, NewChat, Archive, Unarchive, Delete, Restore, Reap, Star, ListSessions,
     Age, OpenTab, Subscribe, Drop, AnswerSeed, TakeSeed, TabOnly, vars, TypeOK
<1>2. CASE Restart
  BY <1>2 DEF Restart
<1>3. CASE \E j \in jobs : Uses(j)
  <2>1. live' = live \/ \E d \in Chats : live' = [live EXCEPT ![d] = Down]
    <3>1. \A j \in jobs : j.chat \in Chats
      BY DEF TypeOK, Job
    <3>2. QED
      BY <1>3, <3>1 DEF Uses, FinishLaunch, RecordUserLine, ResurfaceChat, ApplyTitle,
         ReadTitle, BroadcastTitle, ReadLabel, WriteSidecar, Fails, LaunchFails, RecordFails,
         ApplyFails, ReadFails, SidecarFails
  <2>2. QED
    BY <2>1 DEF TypeOK
<1>4. CASE \E d \in Chats : OpenChat(d) \/ Rename(d)
  BY <1>4 DEF OpenChat, Rename
<1>5. CASE \E d \in Chats : Remember(d) \/ RememberFails(d)
  <2>1. PICK d \in Chats : Remember(d) \/ RememberFails(d)
    BY <1>5
  <2>2. live' = [live EXCEPT ![d].sdk = @ + 1] /\ c \in DOMAIN live
    BY <2>1 DEF Remember, RememberFails, NewId, TypeOK
  <2>3. CASE d = c
    BY <2>1, <2>2, <2>3
  <2>4. CASE d # c
    BY <2>2, <2>4
  <2>5. QED
    BY <2>3, <2>4
<1>6. CASE \E d \in Chats, words \in BOOLEAN : Send(d, words)
  <2>1. PICK d \in Chats, words \in BOOLEAN : Send(d, words)
    BY <1>6
  <2>2. CASE d = c
    BY <2>1, <2>2
  <2>3. CASE d # c
    <3>1. PICK v : live' = [live EXCEPT ![d] = v]
      BY <2>1 DEF Send
    <3>2. QED
      BY <2>3, <3>1 DEF TypeOK
  <2>4. QED
    BY <2>2, <2>3
<1> QED
  BY <1>1, <1>2, <1>3, <1>4, <1>5, <1>6, Steps

\* What the user last meant of a chat changes by these steps only.
LEMMA WishFrame ==
  ASSUME TypeOK, [Next]_vars, NEW c \in Chats
  PROVE  \/ wish'[c] = wish[c]
         \/ wish'[c] = "none"
         \/ Archive(c) /\ wish'[c] = "away"
         \/ Unarchive(c) /\ wish'[c] = "back"
         \/ \E j \in jobs : /\ RecordUserLine(j) /\ j.chat = c
                            /\ ~row[c].deleted /\ wish'[c] = "spoken"
<1>0. wish \in [Chats -> {"none", "away", "back", "spoken"}]
  BY DEF TypeOK
<1>1. CASE Age
  BY <1>0, <1>1 DEF Age
<1>2. CASE Restart
  BY <1>0, <1>2 DEF Restart
<1>3. CASE \E j \in jobs : RecordUserLine(j)
  BY <1>0, <1>3 DEF RecordUserLine, Wish
<1>4. CASE \E d \in Chats : Archive(d) \/ Unarchive(d) \/ Delete(d)
  <2>1. PICK d \in Chats : Archive(d) \/ Unarchive(d) \/ Delete(d)
    BY <1>4
  <2>2. \E w \in {"none", "away", "back"} :
           /\ wish' = [wish EXCEPT ![d] = w]
           /\ w = "away" => Archive(d)
           /\ w = "back" => Unarchive(d)
    BY <2>1 DEF Archive, Unarchive, Delete, Wish
  <2>3. QED
    BY <1>0, <2>1, <2>2
<1>5. CASE wish' = wish
  BY <1>5
<1>6. CASE \E j \in jobs : Uses(j) /\ ~RecordUserLine(j) /\ ~RecordFails(j)
  BY <1>5, <1>6 DEF Uses, FinishLaunch, ResurfaceChat, ApplyTitle, ReadTitle, BroadcastTitle,
     ReadLabel, WriteSidecar, Fails, LaunchFails, ApplyFails,
     ReadFails, SidecarFails, ghosts
<1>9. CASE \E j \in jobs : RecordFails(j)
  <2>1. PICK j \in jobs : RecordFails(j)
    BY <1>9
  <2>2. \E w \in {"none", wish[j.chat]} : wish' = [wish EXCEPT ![j.chat] = w]
    BY <2>1 DEF RecordFails, Wish
  <2>3. QED
    BY <1>0, <2>2
<1>7. CASE \E d \in Chats : OpenChat(d) \/ Rename(d) \/ Remember(d)
                            \/ \E words \in BOOLEAN : Send(d, words)
  BY <1>5, <1>7 DEF OpenChat, Rename, Remember, Send, ghosts
<1>8. CASE \/ \E d \in Chats : \/ NewChat(d) \/ Restore(d) \/ Reap(d) \/ RememberFails(d)
                              \/ \E on \in BOOLEAN : Star(d, on)
           \/ ListSessions \/ UNCHANGED vars
           \/ \E t \in Tabs : OpenTab(t) \/ Subscribe(t) \/ Drop(t) \/ AnswerSeed(t) \/ TakeSeed(t)
  BY <1>5, <1>8 DEF NewChat, Restore, Reap, RememberFails, Star, ListSessions, OpenTab, Subscribe,
     Drop, AnswerSeed, TakeSeed, TabOnly, vars, ghosts
<1> QED
  BY <1>1, <1>2, <1>3, <1>4, <1>6, <1>7, <1>8, <1>9, Steps DEF Elsewhere

\* A mark stays.
LEMMA SpoiltGrows ==
  ASSUME TypeOK, [Next]_vars, NEW c \in Chats
  PROVE  spoilt[c] \subseteq spoilt'[c]
<1>1. ASSUME NEW what, NEW S, Spoil(what, S) PROVE spoilt[c] \subseteq spoilt'[c]
  BY <1>1 DEF Spoil
<1>2. CASE Elsewhere
  BY <1>1, <1>2 DEF Elsewhere, NewChat, Archive, Unarchive, Delete, Restore, Reap, RememberFails,
     Star, ListSessions, Age, OpenTab, Subscribe, Drop, AnswerSeed, TakeSeed, TabOnly, vars,
     ghosts
<1>3. CASE Restart
  BY <1>1, <1>3 DEF Restart
<1>4. CASE \E j \in jobs : Uses(j) /\ ~ReadFails(j)
  BY <1>1, <1>4 DEF Uses, FinishLaunch, RecordUserLine, ResurfaceChat, ApplyTitle, ReadTitle,
     BroadcastTitle, ReadLabel, WriteSidecar, Fails, LaunchFails, RecordFails, ApplyFails,
     SidecarFails, ghosts
<1>6. CASE \E j \in jobs : ReadFails(j)
  BY <1>6 DEF ReadFails, TypeOK
<1>5. CASE \E d \in Chats : OpenChat(d) \/ Remember(d) \/ Rename(d)
                            \/ \E words \in BOOLEAN : Send(d, words)
  BY <1>1, <1>5 DEF OpenChat, Remember, Rename, Send, ghosts
<1> QED
  BY <1>2, <1>3, <1>4, <1>5, <1>6, Steps

\* The requests only grow in number.
LEMMA EventsGrow ==
  ASSUME TypeOK, [Next]_vars
  PROVE  events <= events' /\ events \in Nat /\ events' \in Nat
<1>0. events \in Nat
  BY Numbers
<1>1. CASE Event
  BY <1>0, <1>1, EventFacts
<1>2. CASE events' = events
  BY <1>0, <1>2
<1>3. CASE Elsewhere
  BY <1>1, <1>2, <1>3 DEF Elsewhere, NewChat, Archive, Unarchive, Delete, Restore, Reap,
     RememberFails, Star, ListSessions, Age, OpenTab, Subscribe, Drop, AnswerSeed, TakeSeed,
     TabOnly, vars
<1>4. CASE Restart
  BY <1>1, <1>4 DEF Restart
<1>5. CASE \E j \in jobs : Uses(j)
  BY <1>1, <1>2, <1>5 DEF Uses, FinishLaunch, RecordUserLine, ResurfaceChat, ApplyTitle,
     ReadTitle, BroadcastTitle, ReadLabel, WriteSidecar, Fails, LaunchFails, RecordFails,
     ApplyFails, ReadFails, SidecarFails
<1>6. CASE \E d \in Chats : OpenChat(d) \/ Remember(d) \/ Rename(d)
                            \/ \E words \in BOOLEAN : Send(d, words)
  BY <1>1, <1>2, <1>6 DEF OpenChat, Remember, Rename, Send
<1> QED
  BY <1>3, <1>4, <1>5, <1>6, Steps

(***************************************************************************)
(* What is known of every chat and every coroutine.                        *)
(***************************************************************************)
Absent(c) == ~row[c].made =>
    /\ ~live[c].up /\ wish[c] = "none" /\ row[c].sdk = 0
    /\ row[c].title = Untitled /\ row[c].userTitle = Untitled

Small(c) == row[c].title <= events /\ row[c].userTitle <= events /\ row[c].sdk <= MaxIds

JobOk(j) ==
    /\ j.do # "launch" => row[j.chat].made
    /\ j.do = "title" => 0 < j.req /\ j.req <= events
    /\ j.do = "launch" => j.at = "second"
    /\ j.do = "record" => j.at \in {"write", "second"}
    /\ j.at \in {"read", "send"} => j.do \in {"rename", "title"}

Known == /\ \A c \in Chats : Absent(c) /\ Small(c)
         /\ \A j \in jobs : JobOk(j)

\* Nothing is known to be wrong of an empty table or of one empty chat.
LEMMA KnownInit == Init => Known
<1> SUFFICES ASSUME Init PROVE Known
  OBVIOUS
<1>1. TypeOK
  BY TypeInit
<1>2. events = 0 /\ jobs = {} /\ MaxIds \in Nat
  BY DeskAssumption DEF Init
<1>3. ASSUME NEW c \in Chats PROVE Absent(c) /\ Small(c)
  <2>1. row[c] = NewRow \/ row[c] = NoRow
    BY DEF Init, RowInit
  <2>2. row[c].title = 0 /\ row[c].userTitle = 0 /\ row[c].sdk = 0
    <3>1. NoRow.title = 0 /\ NoRow.userTitle = 0 /\ NoRow.sdk = 0
      BY DEF NoRow, Untitled
    <3>2. NewRow.title = 0 /\ NewRow.userTitle = 0 /\ NewRow.sdk = 0
      BY NewRowFacts DEF Untitled
    <3>3. QED
      BY <2>1, <3>1, <3>2
  <2>3. ~live[c].up /\ wish[c] = "none"
    BY DEF Init, Down
  <2>4. QED
    BY <1>2, <2>2, <2>3 DEF Absent, Small, Untitled
<1>4. QED
  BY <1>2, <1>3 DEF Known

\* A made chat stays made.
LEMMA StaysMade ==
  ASSUME TypeOK, Known, [Next]_vars, NEW c \in Chats, row[c].made
  PROVE  row'[c].made
<1>0. row \in [Chats -> Row] /\ row[c] \in Row
  BY DEF TypeOK
<1>1. CASE Rename(c)
  BY <1>0, <1>1 DEF Rename, SetUserTitle, Row
<1>2. CASE Remember(c)
  BY <1>0, <1>2 DEF Remember, SetSdk, Row
<1>3. CASE \E j \in jobs : ApplyTitle(j) /\ j.chat = c
  BY <1>0, <1>3 DEF ApplyTitle, SetGeneratedTitle, Row
<1>4. CASE SameNames(c)
  BY <1>4 DEF SameNames
<1>5. CASE Created(c)
  BY <1>5, NewRowFacts DEF Created
<1> QED
  BY <1>1, <1>2, <1>3, <1>4, <1>5, NamesFrame

\* A coroutine of a chat finds its row.
LEMMA ChatOf ==
  ASSUME TypeOK, Known, NEW j \in jobs
  PROVE  j \in Job /\ j.chat \in Chats /\ JobOk(j)
BY DEF TypeOK, Known, Job

\* Every step keeps what is known.
LEMMA KnownStep == ASSUME TypeOK, Known, [Next]_vars PROVE Known'
<1>0. /\ row \in [Chats -> Row] /\ events <= events' /\ events \in Nat /\ events' \in Nat
      /\ MaxIds \in Nat
  BY EventsGrow, Numbers DEF TypeOK
<1>1. ASSUME NEW c \in Chats PROVE Absent(c)'
  <2> SUFFICES ASSUME ~row'[c].made
               PROVE  /\ ~live'[c].up /\ wish'[c] = "none" /\ row'[c].sdk = 0
                      /\ row'[c].title = Untitled /\ row'[c].userTitle = Untitled
    BY DEF Absent
  <2>1. ~row[c].made
    BY StaysMade
  <2>2. /\ ~live[c].up /\ wish[c] = "none" /\ row[c].sdk = 0
        /\ row[c].title = Untitled /\ row[c].userTitle = Untitled
    BY <2>1 DEF Known, Absent
  <2>3. ~Created(c)
    BY NewRowFacts DEF Created
  <2>4. /\ ~Rename(c) /\ ~Remember(c) /\ ~RememberFails(c)
        /\ \A words \in BOOLEAN : ~Send(c, words)
    BY <2>1, <2>2 DEF Rename, Remember, RememberFails, NewId, Send
  <2>5. \A j \in jobs : j.do # "launch" => j.chat # c
    BY <2>1 DEF Known, JobOk
  <2>6. \A j \in jobs : ~(ApplyTitle(j) /\ j.chat = c) /\ ~(RecordUserLine(j) /\ j.chat = c)
    BY <2>5 DEF ApplyTitle, RecordUserLine, Begins
  <2>7. SameNames(c)
    BY <2>3, <2>4, <2>6, NamesFrame
  <2>9. ~live'[c].up
    <3>1. live'[c] = live[c] \/ live'[c] = Down
      BY <2>4, LiveFrame
    <3>2. ~Down.up
      BY DEF Down
    <3>3. QED
      BY <2>2, <3>1, <3>2
  <2>10. wish'[c] = "none"
    <3>1. ~Archive(c) /\ ~Unarchive(c)
      BY <2>1 DEF Archive, Unarchive
    <3>2. QED
      BY <2>2, <2>6, <3>1, WishFrame
  <2>11. QED
    BY <2>2, <2>7, <2>9, <2>10 DEF SameNames
<1>2. ASSUME NEW c \in Chats PROVE Small(c)'
  <2>0. row[c].title <= events /\ row[c].userTitle <= events /\ row[c].sdk <= MaxIds
    BY DEF Known, Small
  <2>a. row[c].title \in Nat /\ row[c].userTitle \in Nat /\ row[c].sdk \in Nat /\ row[c] \in Row
    BY Numbers
  <2>1. CASE SameNames(c)
    BY <1>0, <2>0, <2>a, <2>1 DEF SameNames, Small
  <2>2. CASE Created(c)
    BY <1>0, <2>2, NewRowFacts DEF Created, Small, Untitled
  <2>3. CASE Rename(c)
    <3>1. row' = [row EXCEPT ![c].userTitle = events + 1] /\ events' = events + 1
      BY <2>3, EventFacts DEF Rename, SetUserTitle
    <3>2. row'[c].userTitle = events + 1 /\ row'[c].title = row[c].title /\ row'[c].sdk = row[c].sdk
      BY <1>0, <2>a, <3>1 DEF Row
    <3>3. QED
      BY <1>0, <2>0, <2>a, <3>1, <3>2 DEF Small
  <2>4. CASE Remember(c)
    <3>1. row' = [row EXCEPT ![c].sdk = live[c].sdk + 1] /\ live[c].sdk < MaxIds
      BY <2>4 DEF Remember, NewId, SetSdk
    <3>2. live[c].sdk \in Nat
      BY DEF TypeOK
    <3>3. /\ row'[c].sdk = live[c].sdk + 1 /\ row'[c].title = row[c].title
          /\ row'[c].userTitle = row[c].userTitle
      BY <1>0, <2>a, <3>1 DEF Row
    <3>4. QED
      BY <1>0, <2>0, <2>a, <3>1, <3>2, <3>3 DEF Small
  <2>5. CASE \E j \in jobs : ApplyTitle(j) /\ j.chat = c
    <3>1. PICK j \in jobs : ApplyTitle(j) /\ j.chat = c
      BY <2>5
    <3>2. j.req <= events /\ j.req \in Nat
      BY <3>1, ChatOf DEF JobOk, Job, ApplyTitle
    <3>3. row' = [row EXCEPT ![c].title = IF TakesTitle(c) THEN j.req ELSE @]
      BY <3>1 DEF ApplyTitle, SetGeneratedTitle
    <3>4. /\ row'[c].title \in {j.req, row[c].title} /\ row'[c].sdk = row[c].sdk
          /\ row'[c].userTitle = row[c].userTitle
      BY <1>0, <2>a, <3>3 DEF Row
    <3>5. QED
      BY <1>0, <2>0, <2>a, <3>2, <3>4 DEF Small
  <2>6. QED
    BY <2>1, <2>2, <2>3, <2>4, <2>5, NamesFrame
<1>3. ASSUME NEW k \in jobs' PROVE JobOk(k)'
  <2>1. CASE k \in jobs
    <3>1. JobOk(k) /\ k.chat \in Chats /\ k.req \in Nat
      BY <2>1, ChatOf DEF Job
    <3>2. k.do # "launch" => row'[k.chat].made
      BY <3>1, StaysMade DEF JobOk
    <3>3. QED
      BY <1>0, <3>1, <3>2 DEF JobOk
  <2>2. CASE k \notin jobs /\ Begun(k)
    <3>1. CASE \E c \in Chats : OpenChat(c) /\ k = New("launch", c, "second")
      <4>1. events' = events + 1
        BY <3>1, EventFacts DEF OpenChat
      <4>2. k.do = "launch" /\ k.at = "second" /\ k.req = events + 1
        BY <3>1, NewFacts
      <4>3. QED
        BY <1>0, <4>1, <4>2 DEF JobOk
    <3>2. CASE \E c \in Chats : Remember(c) /\ k = New("remember", c, "label")
      <4>1. PICK c \in Chats : Remember(c) /\ k = New("remember", c, "label")
        BY <3>2
      <4>2. k.do = "remember" /\ k.at = "label" /\ k.req = events + 1 /\ k.chat = c
        BY <4>1, NewFacts
      <4>3. row[c].made
        BY <4>1 DEF Remember, NewId, Known, Absent
      <4>4. QED
        BY <1>0, <4>2, <4>3, StaysMade DEF JobOk
    <3>3. CASE \E c \in Chats : /\ Rename(c)
                                /\ k = [New("rename", c, "send") EXCEPT !.got = events + 1]
      <4>1. PICK c \in Chats : /\ Rename(c)
                               /\ k = [New("rename", c, "send") EXCEPT !.got = events + 1]
        BY <3>3
      <4>2. k.do = "rename" /\ k.at = "send" /\ k.req = events + 1 /\ k.chat = c
        BY <4>1, NewFacts DEF Job
      <4>3. row[c].made /\ events' = events + 1
        BY <4>1, EventFacts DEF Rename
      <4>4. QED
        BY <1>0, <4>2, <4>3, StaysMade DEF JobOk
    <3>4. CASE \E c \in Chats, words \in BOOLEAN :
                 /\ Send(c, words)
                 /\ k = New("record", c, "write") \/ k = New("title", c, "write")
      <4>1. PICK c \in Chats, words \in BOOLEAN :
              /\ Send(c, words)
              /\ k = New("record", c, "write") \/ k = New("title", c, "write")
        BY <3>4
      <4>2. k.do # "launch" /\ k.at = "write" /\ k.req = events + 1 /\ k.chat = c
        BY <4>1, NewFacts
      <4>3. row[c].made /\ events' = events + 1
        BY <4>1, EventFacts DEF Send
      <4>4. QED
        BY <1>0, <4>2, <4>3, StaysMade DEF JobOk
    <3>5. QED
      BY <2>2, <3>1, <3>2, <3>3, <3>4 DEF Begun
  <2>3. CASE \E j \in jobs : Continues(j, k)
    <3>1. PICK j \in jobs : Continues(j, k)
      BY <2>3
    <3>2. JobOk(j) /\ j.chat \in Chats /\ j.req \in Nat
      BY ChatOf DEF Job
    <3>3. j.do # "launch" => row'[j.chat].made
      BY <3>2, StaysMade DEF JobOk
    <3>4. /\ j.do # "launch" /\ (k.at \in {"read", "send"} => j.do \in {"rename", "title"})
          /\ j.do = "record" => k.at \in {"write", "second"}
      BY <3>1, <3>2 DEF Continues, JobOk, RecordUserLine, Begins, ApplyTitle, ReadTitle,
         BroadcastTitle, ReadLabel
    <3>5. k.chat = j.chat /\ k.do = j.do /\ k.req = j.req
      BY <3>1 DEF Continues
    <3>6. QED
      BY <1>0, <3>2, <3>3, <3>4, <3>5 DEF JobOk
  <2>4. QED
    BY <2>1, <2>2, <2>3, JobNew
<1>4. QED
  BY <1>1, <1>2, <1>3 DEF Known

(***************************************************************************)
(* First words name a chat: once a session no longer needs a title, the    *)
(* chat has one, the task that will write it is still to write, or the     *)
(* only one that was failed to.                                            *)
(***************************************************************************)
Naming(c) == Titlers(c) # {}
Named(c)  == EffectiveTitle(c) # Untitled \/ Naming(c)

Words == \A c \in Chats : /\ owed[c] = "yes" => Named(c)
                          /\ live[c].up /\ ~live[c].needs => Named(c) \/ owed[c] = "failed"

\* A title, or the task that will write one, is not lost while the daemon runs.
LEMMA NamedStays ==
  ASSUME TypeOK, Known, [Next]_vars, NEW c \in Chats, Named(c), ~Restart,
         ~\E j \in jobs : ApplyFails(j) /\ Titlers(c) = {j}
  PROVE  Named(c)'
<1>0. /\ row \in [Chats -> Row] /\ row[c] \in Row /\ events \in Nat
      /\ row[c].title \in Nat /\ row[c].userTitle \in Nat
  BY Numbers DEF TypeOK
<1>1. row[c].made
  <2>1. CASE EffectiveTitle(c) # Untitled
    BY <2>1 DEF Known, Absent, EffectiveTitle
  <2>2. CASE Naming(c)
    BY <2>2 DEF Naming, Titlers, Of, Known, JobOk
  <2>3. QED
    BY <2>1, <2>2 DEF Named
<1>2. CASE \E j \in jobs : ApplyTitle(j) /\ j.chat = c
  <2>1. PICK j \in jobs : ApplyTitle(j) /\ j.chat = c
    BY <1>2
  <2>2. j.req \in Nat /\ j.req # 0
    BY <2>1, ChatOf DEF ApplyTitle, JobOk, Job
  <2>3. row' = [row EXCEPT ![c].title = IF TakesTitle(c) THEN j.req ELSE @]
    BY <2>1 DEF ApplyTitle, SetGeneratedTitle
  <2>4. row'[c].title # Untitled
    BY <1>0, <2>2, <2>3 DEF TakesTitle, Untitled, Row
  <2>5. QED
    BY <2>4 DEF Named, EffectiveTitle
<1>3. CASE Rename(c)
  <2>1. row' = [row EXCEPT ![c].userTitle = events + 1]
    BY <1>3 DEF Rename, SetUserTitle
  <2>2. row'[c].userTitle # Untitled
    BY <1>0, <2>1 DEF Untitled, Row
  <2>3. QED
    BY <2>2 DEF Named, EffectiveTitle
<1>4. CASE /\ row'[c].title = row[c].title /\ row'[c].userTitle = row[c].userTitle
           /\ ~\E j \in jobs : ApplyTitle(j) /\ j.chat = c
  <2>1. CASE EffectiveTitle(c) # Untitled
    BY <1>4, <2>1 DEF Named, EffectiveTitle
  <2>2. CASE Naming(c)
    <3>1. PICK j \in Titlers(c) : ~ApplyFails(j)
      <4>1. PICK i \in Titlers(c) : TRUE
        BY <2>2 DEF Naming
      <4>2. CASE ApplyFails(i)
        <5>1. PICK k \in Titlers(c) : k # i
          BY <4>1, <4>2 DEF Titlers, Of
        <5>2. ~ApplyFails(k) \/ k = i
          <6>1. i \in jobs /\ k \in jobs
            BY DEF Titlers, Of
          <6>2. jobs' = jobs \ {i}
            BY <4>2 DEF ApplyFails, Finish
          <6>3. ApplyFails(k) => jobs' = jobs \ {k}
            BY DEF ApplyFails, Finish
          <6>4. QED
            BY <6>1, <6>2, <6>3
        <5>3. QED
          BY <5>1, <5>2
      <4>3. QED
        BY <4>2
    <3>2. j \in jobs /\ j.chat = c /\ j.do = "title" /\ j.at = "write"
      BY DEF Titlers, Of
    <3>3. ~Uses(j)
      BY <1>4, <3>1, <3>2, FailPlace DEF Uses, FinishLaunch, RecordUserLine, Begins,
         ResurfaceChat, ReadTitle, BroadcastTitle, ReadLabel, WriteSidecar
    <3>4. j \in jobs'
      BY <3>2, <3>3, JobKept DEF Ends
    <3>5. QED
      BY <3>2, <3>4 DEF Named, Naming, Titlers, Of
  <2>3. QED
    BY <2>1, <2>2 DEF Named
<1>5. CASE Remember(c)
  <2>1. row' = [row EXCEPT ![c].sdk = live[c].sdk + 1]
    BY <1>5 DEF Remember, SetSdk
  <2>2. row'[c].title = row[c].title /\ row'[c].userTitle = row[c].userTitle
    BY <1>0, <2>1 DEF Row
  <2>3. QED
    BY <1>2, <1>4, <2>2
<1>6. CASE SameNames(c)
  BY <1>2, <1>4, <1>6 DEF SameNames
<1>7. ~Created(c)
  BY <1>1 DEF Created
<1> QED
  BY <1>2, <1>3, <1>5, <1>6, <1>7, NamesFrame

\* The first words of a chat that needs a title start the task.
LEMMA TitlingNames ==
  ASSUME TypeOK, NEW c \in Chats, NEW words \in BOOLEAN, Send(c, words), Titling(c, words)
  PROVE  Named(c)'
<1>1. New("title", c, "write") \in jobs'
  BY DEF Send
<1>2. LET k == New("title", c, "write") IN k.chat = c /\ k.do = "title" /\ k.at = "write"
  BY NewFacts
<1>3. QED
  BY <1>1, <1>2 DEF Named, Naming, Titlers, Of

\* Every step keeps the first words of a chat from being forgotten.
LEMMA WordsStep == ASSUME TypeOK, Known, Words, [Next]_vars PROVE Words'
<1>1. CASE Restart
  <2>1. ~Down.up
    BY DEF Down
  <2>2. \A c \in Chats : owed'[c] = "no" /\ live'[c] = Down
    BY <1>1 DEF Restart
  <2>3. QED
    BY <2>1, <2>2 DEF Words
<1>2. ASSUME ~Restart, NEW c \in Chats
      PROVE  /\ owed'[c] = "yes" => Named(c)'
             /\ live'[c].up /\ ~live'[c].needs => Named(c)' \/ owed'[c] = "failed"
  <2>1. Named(c) => Named(c)' \/ \E j \in jobs : ApplyFails(j) /\ Titlers(c) = {j}
    BY <1>2, NamedStays
  <2>2. /\ owed[c] = "yes" => Named(c)
        /\ live[c].up /\ ~live[c].needs => Named(c) \/ owed[c] = "failed"
    BY DEF Words
  <2>3. ASSUME NEW words \in BOOLEAN, Send(c, words)
        PROVE  /\ owed'[c] = "yes" => Named(c)'
               /\ live'[c].up /\ ~live'[c].needs => Named(c)' \/ owed'[c] = "failed"
    <3>1. owed'[c] = Owing(c, words)
      BY <2>3 DEF Send, TypeOK
    <3>2. Named(c) => Named(c)'
      <4>1. ~\E j \in jobs : ApplyFails(j)
        <5>1. ASSUME NEW j \in jobs, ApplyFails(j) PROVE j \in jobs' /\ j \notin jobs'
          BY <2>3, <5>1 DEF Send, ApplyFails, Finish
        <5>2. QED
          BY <5>1
      <4>2. QED
        BY <2>1, <4>1
    <3>3. CASE Titling(c, words)
      BY <2>3, <3>3, TitlingNames
    <3>4. CASE ~NeedsTitle(c)
      <4>1. CASE Named(c)
        BY <3>2, <4>1
      <4>2. CASE ~Named(c)
        <5>1. live[c].up /\ owed[c] = "failed"
          BY <2>2, <3>4, <4>2 DEF NeedsTitle, Named
        <5>2. owed'[c] = "failed"
          BY <3>1, <5>1 DEF Owing, Promised
        <5>3. QED
          BY <5>2
      <4>3. QED
        BY <4>1, <4>2
    <3>5. CASE NeedsTitle(c) /\ ~words
      <4>1. owed'[c] = "yes" => owed[c] = "yes"
        BY <3>1, <3>5 DEF Owing, Promised
      <4>2. live'[c].needs = StillNeeds(c, words)
        BY <2>3 DEF Send, TypeOK
      <4>3. StillNeeds(c, words)
        BY <3>5 DEF StillNeeds
      <4>4. QED
        BY <2>2, <3>2, <4>1, <4>2, <4>3
    <3>6. QED
      BY <3>3, <3>4, <3>5 DEF Titling
  <2>4. ASSUME NEW j \in jobs, ApplyFails(j), Titlers(c) = {j}, live' = live, owed'[c] = Spent(c)
        PROVE  /\ owed'[c] = "yes" => Named(c)'
               /\ live'[c].up /\ ~live'[c].needs => Named(c)' \/ owed'[c] = "failed"
    BY <2>4 DEF Spent
  <2>5. CASE /\ \A words \in BOOLEAN : ~Send(c, words)
             /\ owed'[c] = owed[c]
    <3>1. live'[c].up /\ ~live'[c].needs => live[c].up /\ ~live[c].needs
      <4>1. ~Down.up
        BY DEF Down
      <4>2. live[c] \in [up : BOOLEAN, needs : BOOLEAN, sdk : Nat]
        BY DEF TypeOK
      <4>3. LET l == [live[c] EXCEPT !.sdk = @ + 1]
            IN  l.up = live[c].up /\ l.needs = live[c].needs
        BY <4>2
      <4>4. QED
        BY <2>5, <4>1, <4>3, LiveFrame
    <3>2. CASE \E j \in jobs : ApplyFails(j) /\ Titlers(c) = {j}
      <4>1. PICK j \in jobs : ApplyFails(j) /\ Titlers(c) = {j}
        BY <3>2
      <4>2. j.chat = c
        BY <4>1 DEF Titlers, Of
      <4>3. live' = live /\ owed'[c] = Spent(c)
        BY <4>1, <4>2 DEF ApplyFails, TypeOK
      <4>4. QED
        BY <2>4, <4>1, <4>3
    <3>3. CASE ~\E j \in jobs : ApplyFails(j) /\ Titlers(c) = {j}
      BY <2>1, <2>2, <2>5, <3>1, <3>3
    <3>4. QED
      BY <3>2, <3>3
  <2>6. QED
    BY <1>2, <2>3, <2>4, <2>5, OwedFrame
<1>3. QED
  BY <1>1, <1>2 DEF Words

(***************************************************************************)
(* The list of chats.                                                      *)
(***************************************************************************)
SameShelf(c) == /\ row'[c].archived = row[c].archived /\ row'[c].deleted = row[c].deleted
                /\ row'[c].fresh = row[c].fresh

\* Where a chat is shelved changes by the requests on it, by the sweep, the
\* days and the recorded lines.
LEMMA ShelfFrame ==
  ASSUME TypeOK, [Next]_vars, NEW c \in Chats
  PROVE  \/ SameShelf(c) \/ Created(c)
         \/ Archive(c) \/ Unarchive(c) \/ Delete(c) \/ Restore(c) \/ ListSessions \/ Age
         \/ \E j \in jobs : (RecordUserLine(j) \/ ResurfaceChat(j)) /\ j.chat = c
<1>0. /\ row \in [Chats -> Row] /\ row[c] \in Row
      /\ \A j \in jobs : j.chat \in Chats
  BY DEF TypeOK, Job
<1>1. CASE row' = row
  BY <1>1 DEF SameShelf
<1>2. CASE \E d \in Chats : NewChat(d)
  BY <1>0, <1>2 DEF NewChat, CreateChat, Created, SameShelf
<1>3. CASE \E j \in jobs : FinishLaunch(j)
  BY <1>0, <1>3 DEF FinishLaunch, CreateChat, Created, SameShelf
<1>4. CASE \E d \in Chats : Rename(d)
  BY <1>0, <1>4 DEF Rename, SetUserTitle, SameShelf
<1>5. CASE \E d \in Chats : Remember(d)
  BY <1>0, <1>5 DEF Remember, SetSdk, SameShelf
<1>6. CASE \E j \in jobs : ApplyTitle(j)
  BY <1>0, <1>6 DEF ApplyTitle, SetGeneratedTitle, SameShelf
<1>7. CASE \E d \in Chats, on \in BOOLEAN : Star(d, on)
  BY <1>0, <1>7 DEF Star, SetStarred, SameShelf
<1>8. CASE \E d \in Chats : Archive(d) \/ Unarchive(d)
  BY <1>0, <1>8 DEF Archive, Unarchive, SetArchived, SameShelf
<1>9. CASE \E d \in Chats : Delete(d) \/ Restore(d)
  BY <1>0, <1>9 DEF Delete, Restore, SetDeleted, SameShelf
<1>10. CASE \E j \in jobs : RecordUserLine(j)
  BY <1>0, <1>10 DEF RecordUserLine, InsertMessage, SameShelf
<1>11. CASE \E j \in jobs : ResurfaceChat(j)
  BY <1>0, <1>11 DEF ResurfaceChat, Resurface, SameShelf
<1>12. CASE \E d \in Chats : \/ OpenChat(d) \/ Reap(d) \/ RememberFails(d)
                           \/ \E words \in BOOLEAN : Send(d, words)
  BY <1>1, <1>12 DEF OpenChat, Reap, RememberFails, Send
<1>13. CASE \E j \in jobs : \/ ReadTitle(j) \/ BroadcastTitle(j) \/ ReadLabel(j)
                            \/ WriteSidecar(j) \/ Fails(j)
  BY <1>1, <1>13, FailFrame DEF ReadTitle, BroadcastTitle, ReadLabel, WriteSidecar
<1>14. CASE \E t \in Tabs : \/ OpenTab(t) \/ Subscribe(t) \/ Drop(t) \/ AnswerSeed(t)
                            \/ TakeSeed(t)
  BY <1>1, <1>14 DEF OpenTab, Subscribe, Drop, AnswerSeed, TakeSeed, TabOnly
<1>15. CASE Restart \/ UNCHANGED vars
  BY <1>1, <1>15 DEF Restart, vars
<1> QED
  BY <1>2, <1>3, <1>4, <1>5, <1>6, <1>7, <1>8, <1>9, <1>10, <1>11, <1>12, <1>13, <1>14, <1>15
  DEF Next, Fails

\* Only a line just recorded is about to bring its chat back, and only its second
\* step, the end of its session or of the daemon changes that.
LEMMA BringingFrame ==
  ASSUME TypeOK, Known, [Next]_vars, NEW c \in Chats
  PROVE  /\ (Bringing(c)' /\ ~(\E j \in jobs : RecordUserLine(j) /\ j.chat = c)) => Bringing(c)
         /\ (/\ Bringing(c) /\ ~Restart
             /\ ~(\E j \in jobs : (ResurfaceChat(j) \/ RecordFails(j)) /\ j.chat = c))
              => Bringing(c)'
<1>1. ASSUME Bringing(c)', ~\E j \in jobs : RecordUserLine(j) /\ j.chat = c
      PROVE  Bringing(c)
  <2>1. PICK k \in jobs' : k.chat = c /\ k.do = "record" /\ k.at = "second"
    BY <1>1 DEF Bringing, Of
  <2>2. ~Begun(k)
    <3>1. ASSUME NEW d \in Chats, k = New("launch", d, "second") PROVE FALSE
      BY <2>1, <3>1, NewFacts
    <3>2. ASSUME NEW d \in Chats, k = New("remember", d, "label") PROVE FALSE
      BY <2>1, <3>2, NewFacts
    <3>3. ASSUME NEW d \in Chats, k = [New("rename", d, "send") EXCEPT !.got = events + 1]
          PROVE  FALSE
      BY <2>1, <3>3, NewFacts DEF Job
    <3>4. ASSUME NEW d \in Chats, k = New("record", d, "write") PROVE FALSE
      BY <2>1, <3>4, NewFacts
    <3>5. ASSUME NEW d \in Chats, k = New("title", d, "write") PROVE FALSE
      BY <2>1, <3>5, NewFacts
    <3>6. QED
      BY <3>1, <3>2, <3>3, <3>4, <3>5 DEF Begun
  <2>3. \A j \in jobs : ~Continues(j, k)
    BY <1>1, <2>1 DEF Continues
  <2>4. QED
    BY <2>1, <2>2, <2>3, JobNew DEF Bringing, Of
<1>2. ASSUME Bringing(c), ~Restart,
             ~\E j \in jobs : (ResurfaceChat(j) \/ RecordFails(j)) /\ j.chat = c
      PROVE  Bringing(c)'
  <2>1. PICK j \in jobs : j.chat = c /\ j.do = "record" /\ j.at = "second"
    BY <1>2 DEF Bringing, Of
  <2>2. ~Uses(j)
    BY <1>2, <2>1, FailPlace DEF Uses, FinishLaunch, RecordUserLine, Begins, ApplyTitle,
       ReadTitle, BroadcastTitle, ReadLabel, WriteSidecar
  <2>3. j \in jobs'
    BY <1>2, <2>1, <2>2, JobKept DEF Ends
  <2>4. QED
    BY <2>1, <2>3 DEF Bringing, Of
<1>3. QED
  BY <1>1, <1>2

Shelved(c) ==
    /\ wish[c] = "spoken" => /\ ~row[c].deleted /\ row[c].fresh
                             /\ ~row[c].archived \/ Bringing(c)
    /\ wish[c] = "back" /\ row[c].fresh => ~row[c].archived
    /\ wish[c] = "away" => /\ row[c].archived \/ "away" \in spoilt[c]
                           /\ Bringing(c) => "away" \in spoilt[c]

\* Every step keeps a chat where the user last had it.
LEMMA ShelvedStep ==
  ASSUME TypeOK, Known, [Next]_vars, NEW c \in Chats, Shelved(c)
  PROVE  Shelved(c)'
<1>0. /\ row \in [Chats -> Row] /\ row[c] \in Row
      /\ wish \in [Chats -> {"none", "away", "back", "spoken"}]
      /\ spoilt[c] \subseteq spoilt'[c]
  BY SpoiltGrows DEF TypeOK
<1>1. CASE Created(c)
  <2>1. wish[c] = "none" /\ ~row[c].made
    BY <1>1 DEF Known, Absent, Created
  <2>2. wish'[c] = "none"
    <3>1. ~Archive(c) /\ ~Unarchive(c) /\ ~\E j \in jobs : RecordUserLine(j) /\ j.chat = c
      BY <2>1 DEF Archive, Unarchive, RecordUserLine, Begins, Known, JobOk
    <3>2. QED
      BY <2>1, <3>1, WishFrame
  <2>3. QED
    BY <2>2 DEF Shelved
<1>2. CASE Archive(c)
  <2>1. /\ row' = [row EXCEPT ![c].archived = TRUE] /\ wish' = [wish EXCEPT ![c] = "away"]
        /\ jobs' = jobs
        /\ Spoil("away", {j.chat : j \in {k \in Doing("record") : k.at = "second"}} \cap {c})
    BY <1>2 DEF Archive, SetArchived, Wish
  <2>2. wish'[c] = "away" /\ row'[c].archived
    BY <1>0, <2>1 DEF Row
  <2>3. Bringing(c)' => "away" \in spoilt'[c]
    BY <2>1 DEF Bringing, Of, Doing, Spoil
  <2>4. QED
    BY <2>2, <2>3 DEF Shelved
<1>3. CASE Unarchive(c)
  <2>1. wish'[c] = "back" /\ ~row'[c].archived
    BY <1>0, <1>3 DEF Unarchive, SetArchived, Wish, Row
  <2>2. QED
    BY <2>1 DEF Shelved
<1>4. CASE Delete(c)
  BY <1>0, <1>4 DEF Delete, Wish, Shelved
<1>5. CASE Restore(c)
  <2>1. /\ row' = [row EXCEPT ![c].deleted = FALSE] /\ wish' = wish /\ jobs' = jobs
        /\ row[c].deleted
    BY <1>5 DEF Restore, SetDeleted
  <2>2. row'[c].archived = row[c].archived /\ row'[c].fresh = row[c].fresh /\ ~row'[c].deleted
    BY <1>0, <2>1 DEF Row
  <2>3. Bringing(c)' => Bringing(c)
    BY <2>1 DEF Bringing, Of
  <2>4. QED
    BY <1>0, <2>1, <2>2, <2>3 DEF Shelved
<1>6. CASE ListSessions
  <2>1. wish' = wish /\ jobs' = jobs /\ spoilt' = spoilt
    BY <1>6 DEF ListSessions, ghosts
  <2>2. /\ row'[c].deleted = row[c].deleted /\ row'[c].fresh = row[c].fresh
        /\ row[c].archived => row'[c].archived
        /\ row'[c].archived => row[c].archived \/ ~row[c].fresh
    <3>1. row'[c] = IF c \in Stale THEN [row[c] EXCEPT !.archived = TRUE] ELSE row[c]
      BY <1>6 DEF ListSessions, ArchiveStale
    <3>2. c \in Stale => ~row[c].fresh
      BY DEF Stale
    <3>3. QED
      BY <1>0, <3>1, <3>2 DEF Row
  <2>3. Bringing(c)' <=> Bringing(c)
    BY <2>1 DEF Bringing, Of
  <2>4. QED
    BY <2>1, <2>2, <2>3 DEF Shelved
<1>7. CASE Age
  <2>1. /\ wish'[c] = IF wish[c] = "away" THEN "away" ELSE "none"
        /\ jobs' = jobs /\ spoilt' = spoilt
    BY <1>0, <1>7 DEF Age
  <2>2. row'[c].archived = row[c].archived
    BY <1>0, <1>7 DEF Age, GrowOld, Row
  <2>3. Bringing(c)' => Bringing(c)
    BY <2>1 DEF Bringing, Of
  <2>4. QED
    BY <2>1, <2>2, <2>3 DEF Shelved
<1>8. CASE \E j \in jobs : RecordUserLine(j) /\ j.chat = c
  <2>1. PICK j \in jobs : RecordUserLine(j) /\ j.chat = c
    BY <1>8
  <2>2. row'[c].deleted = row[c].deleted /\ row'[c].fresh
    BY <1>0, <2>1 DEF RecordUserLine, InsertMessage, Row
  <2>3. wish'[c] = IF row[c].deleted THEN "none" ELSE "spoken"
    BY <1>0, <2>1 DEF RecordUserLine, Wish
  <2>4. Bringing(c)'
    <3>1. [j EXCEPT !.at = "second"] \in jobs' /\ j.do = "record" /\ j \in Job
      BY <2>1, ChatOf DEF RecordUserLine, Begins, Step
    <3>2. LET k == [j EXCEPT !.at = "second"]
          IN  k.do = "record" /\ k.chat = c /\ k.at = "second"
      BY <2>1, <3>1 DEF Job
    <3>3. QED
      BY <3>1, <3>2 DEF Bringing, Of
  <2>5. QED
    BY <2>2, <2>3, <2>4 DEF Shelved
<1>9. CASE \E j \in jobs : ResurfaceChat(j) /\ j.chat = c
  <2>1. PICK j \in jobs : ResurfaceChat(j) /\ j.chat = c
    BY <1>9
  <2>2. /\ row'[c].deleted = row[c].deleted /\ row'[c].fresh = row[c].fresh
        /\ row'[c].archived => row[c].archived /\ row[c].deleted
        /\ row[c].archived /\ row[c].deleted => row'[c].archived
    BY <1>0, <2>1 DEF ResurfaceChat, Resurface, Row
  <2>3. wish' = wish /\ spoilt' = spoilt /\ Bringing(c)
    BY <2>1 DEF ResurfaceChat, ghosts, Bringing, Of
  <2>4. QED
    BY <2>2, <2>3 DEF Shelved
<1>10. CASE /\ SameShelf(c)
            /\ ~(Archive(c) \/ Unarchive(c) \/ Age)
            /\ ~\E j \in jobs : (RecordUserLine(j) \/ ResurfaceChat(j)) /\ j.chat = c
  <2>1. wish'[c] = wish[c] \/ wish'[c] = "none"
    BY <1>10, WishFrame
  <2>2. Bringing(c)' => Bringing(c)
    BY <1>10, BringingFrame
  <2>3. Bringing(c) => Bringing(c)' \/ wish'[c] # "spoken"
    <3>1. CASE Restart
      BY <1>0, <3>1 DEF Restart, Cut, Bringing, Of
    <3>2. CASE \E j \in jobs : RecordFails(j) /\ j.chat = c
      <4>1. PICK j \in jobs : RecordFails(j) /\ j.chat = c
        BY <3>2
      <4>2. wish' = [wish EXCEPT ![c] = IF Bringing(c) /\ wish[c] = "spoken" THEN "none"
                                        ELSE wish[c]]
        BY <4>1 DEF RecordFails, Wish
      <4>3. QED
        BY <1>0, <4>2
    <3>3. CASE ~Restart /\ ~\E j \in jobs : RecordFails(j) /\ j.chat = c
      BY <1>10, <3>3, BringingFrame
    <3>4. QED
      BY <3>1, <3>2, <3>3
  <2>4. QED
    BY <1>0, <1>10, <2>1, <2>2, <2>3 DEF Shelved, SameShelf
<1> QED
  BY <1>1, <1>2, <1>3, <1>4, <1>5, <1>6, <1>7, <1>8, <1>9, <1>10, ShelfFrame

(***************************************************************************)
(* Empty chats.                                                            *)
(***************************************************************************)
\* A chat that was spoken in keeps its messages.
LEMMA SaidStays ==
  ASSUME TypeOK, [Next]_vars, NEW c \in Chats, row[c].said, row[c].made
  PROVE  row'[c].said
<1>0. row \in [Chats -> Row] /\ row[c] \in Row
  BY DEF TypeOK
<1>1. CASE row' = row
  BY <1>1
<1>2. CASE \E d \in Chats : NewChat(d)
  BY <1>0, <1>2 DEF NewChat, CreateChat
<1>3. CASE \E j \in jobs : FinishLaunch(j)
  BY <1>0, <1>3 DEF FinishLaunch, CreateChat
<1>4. CASE \E d \in Chats : Rename(d)
  BY <1>0, <1>4 DEF Rename, SetUserTitle
<1>5. CASE \E d \in Chats : Remember(d)
  BY <1>0, <1>5 DEF Remember, SetSdk
<1>6. CASE \E j \in jobs : ApplyTitle(j)
  BY <1>0, <1>6 DEF ApplyTitle, SetGeneratedTitle
<1>7. CASE \E d \in Chats, on \in BOOLEAN : Star(d, on)
  BY <1>0, <1>7 DEF Star, SetStarred
<1>8. CASE \E d \in Chats : Archive(d) \/ Unarchive(d)
  <2>1. row'[c].said = row[c].said
    BY <1>0, <1>8 DEF Archive, Unarchive, SetArchived, Row
  <2>2. QED
    BY <2>1
<1>9. CASE \E d \in Chats : Delete(d) \/ Restore(d)
  <2>1. row'[c].said = row[c].said
    BY <1>0, <1>9 DEF Delete, Restore, SetDeleted, Row
  <2>2. QED
    BY <2>1
<1>10. CASE \E j \in jobs : RecordUserLine(j)
  BY <1>0, <1>10 DEF RecordUserLine, InsertMessage, Row
<1>11. CASE \E j \in jobs : ResurfaceChat(j)
  BY <1>0, <1>11 DEF ResurfaceChat, Resurface
<1>12. CASE \E d \in Chats : \/ OpenChat(d) \/ Reap(d) \/ RememberFails(d)
                           \/ \E words \in BOOLEAN : Send(d, words)
  BY <1>1, <1>12 DEF OpenChat, Reap, RememberFails, Send
<1>13. CASE \E j \in jobs : \/ ReadTitle(j) \/ BroadcastTitle(j) \/ ReadLabel(j)
                            \/ WriteSidecar(j) \/ Fails(j)
  BY <1>1, <1>13, FailFrame DEF ReadTitle, BroadcastTitle, ReadLabel, WriteSidecar
<1>14. CASE \E t \in Tabs : \/ OpenTab(t) \/ Subscribe(t) \/ Drop(t) \/ AnswerSeed(t)
                            \/ TakeSeed(t)
  BY <1>1, <1>14 DEF OpenTab, Subscribe, Drop, AnswerSeed, TakeSeed, TabOnly
<1>15. CASE Restart \/ UNCHANGED vars
  BY <1>1, <1>15 DEF Restart, vars
<1>16. CASE ListSessions
  BY <1>0, <1>16 DEF ListSessions, ArchiveStale
<1>17. CASE Age
  <2>1. row'[c].said = row[c].said
    BY <1>0, <1>17 DEF Age, GrowOld, Row
  <2>2. QED
    BY <2>1
<1> QED
  BY <1>2, <1>3, <1>4, <1>5, <1>6, <1>7, <1>8, <1>9, <1>10, <1>11, <1>12, <1>13, <1>14, <1>15,
     <1>16, <1>17 DEF Next, Fails

\* A line about to bring its chat back is in the table.
Spoken == \A c \in Chats : Bringing(c) => row[c].said

\* Every step keeps the line of a chat about to come back in the table.
LEMMA SpokenStep == ASSUME TypeOK, Known, Spoken, [Next]_vars PROVE Spoken'
<1> SUFFICES ASSUME NEW c \in Chats, Bringing(c)' PROVE row'[c].said
  BY DEF Spoken
<1>1. CASE \E j \in jobs : RecordUserLine(j) /\ j.chat = c
  BY <1>1 DEF RecordUserLine, InsertMessage, TypeOK, Row
<1>2. CASE Bringing(c)
  <2>1. row[c].said /\ row[c].made
    BY <1>2 DEF Spoken, Bringing, Of, Known, JobOk
  <2>2. QED
    BY <2>1, SaidStays
<1> QED
  BY <1>1, <1>2, BringingFrame

\* A chat becomes empty by being created, unarchived or restored.
LEMMA EmptyFrame ==
  ASSUME TypeOK, Known, Spoken, [Next]_vars, NEW c \in Empty'
  PROVE  c \in Empty \/ Created(c) \/ Unarchive(c) \/ Restore(c)
<1> SUFFICES ASSUME ~Created(c), ~Unarchive(c), ~Restore(c) PROVE c \in Empty
  OBVIOUS
<1>0. /\ row \in [Chats -> Row] /\ c \in Chats /\ row[c] \in Row
      /\ row'[c].made /\ ~row'[c].archived /\ ~row'[c].deleted
      /\ row'[c].title = Untitled /\ ~row'[c].said
  BY DEF TypeOK, Empty, Made
<1>1. row[c].made /\ row[c].title = Untitled
  <2>1. CASE SameNames(c)
    BY <1>0, <2>1 DEF SameNames
  <2>2. CASE Rename(c)
    BY <1>0, <2>2 DEF Rename, SetUserTitle, Row
  <2>3. CASE Remember(c)
    <3>1. row'[c].made = row[c].made /\ row'[c].title = row[c].title
      BY <1>0, <2>3 DEF Remember, SetSdk, Row
    <3>2. QED
      BY <1>0, <3>1
  <2>4. CASE \E j \in jobs : ApplyTitle(j) /\ j.chat = c
    <3>1. PICK j \in jobs : ApplyTitle(j) /\ j.chat = c
      BY <2>4
    <3>2. row[c].made /\ j.req # 0 /\ j.req \in Nat
      BY <3>1, ChatOf DEF ApplyTitle, JobOk, Job
    <3>3. row'[c].title = IF TakesTitle(c) THEN j.req ELSE row[c].title
      BY <1>0, <3>1 DEF ApplyTitle, SetGeneratedTitle
    <3>4. QED
      BY <1>0, <3>2, <3>3 DEF TakesTitle, Untitled
  <2>5. QED
    BY <1>0, <2>1, <2>2, <2>3, <2>4, NamesFrame
<1>2. ~row[c].said
  BY <1>0, <1>1, SaidStays
<1>3. ~row[c].archived /\ ~row[c].deleted
  <2>1. CASE SameShelf(c)
    BY <1>0, <2>1 DEF SameShelf
  <2>2. CASE Archive(c) \/ Delete(c)
    BY <1>0, <2>2 DEF Archive, SetArchived, Delete, SetDeleted, Row
  <2>3. CASE ListSessions
    <3>1. row'[c] = IF c \in Stale THEN [row[c] EXCEPT !.archived = TRUE] ELSE row[c]
      BY <1>0, <2>3 DEF ListSessions, ArchiveStale
    <3>2. QED
      BY <1>0, <3>1 DEF Row
  <2>4. CASE Age
    <3>1. row'[c].archived = row[c].archived /\ row'[c].deleted = row[c].deleted
      BY <1>0, <2>4 DEF Age, GrowOld, Row
    <3>2. QED
      BY <1>0, <3>1
  <2>5. CASE \E j \in jobs : RecordUserLine(j) /\ j.chat = c
    BY <1>0, <2>5 DEF RecordUserLine, InsertMessage, Row
  <2>6. CASE \E j \in jobs : ResurfaceChat(j) /\ j.chat = c
    <3>1. Bringing(c)
      BY <2>6 DEF ResurfaceChat, Bringing, Of
    <3>2. QED
      BY <1>0, <1>2, <3>1 DEF Spoken
  <2>7. QED
    BY <1>0, <2>1, <2>2, <2>3, <2>4, <2>5, <2>6, ShelfFrame
<1>4. QED
  BY <1>0, <1>1, <1>2, <1>3 DEF Empty, Made

Unmarked == {c \in Empty : "pile" \notin spoilt[c]}

\* At most one unmarked chat is empty, none while an unmarked one is about to
\* be created, and one launch creates it.
Pile ==
    /\ \A a, b \in Unmarked : a = b
    /\ \A j \in Doing("launch") : "pile" \notin spoilt[j.chat] => Unmarked = {}
    /\ \A i, j \in Doing("launch") : i.chat = j.chat => i = j

\* A launch under way was, or has just begun.
LEMMA LaunchFrame ==
  ASSUME TypeOK, Known, [Next]_vars, NEW k \in Doing("launch")'
  PROVE  \/ k \in Doing("launch")
         \/ \E c \in Chats : OpenChat(c) /\ k = New("launch", c, "second")
<1>0. k \in jobs' /\ k.do = "launch"
  BY DEF Doing
<1>1. CASE k \in jobs
  BY <1>0, <1>1 DEF Doing
<1>2. CASE \E j \in jobs : Continues(j, k)
  BY <1>0, <1>2, ChatOf DEF Continues, JobOk, RecordUserLine, Begins, ApplyTitle, ReadTitle,
     BroadcastTitle, ReadLabel
<1>3. CASE Begun(k)
  <2>1. ASSUME NEW d \in Chats, k = New("remember", d, "label") PROVE FALSE
    BY <1>0, <2>1, NewFacts
  <2>2. ASSUME NEW d \in Chats, k = [New("rename", d, "send") EXCEPT !.got = events + 1]
        PROVE  FALSE
    BY <1>0, <2>2, NewFacts DEF Job
  <2>3. ASSUME NEW d \in Chats, k = New("record", d, "write") PROVE FALSE
    BY <1>0, <2>3, NewFacts
  <2>4. ASSUME NEW d \in Chats, k = New("title", d, "write") PROVE FALSE
    BY <1>0, <2>4, NewFacts
  <2>5. QED
    BY <1>3, <2>1, <2>2, <2>3, <2>4 DEF Begun
<1>4. QED
  BY <1>0, <1>1, <1>2, <1>3, JobNew

\* Every step keeps the empty chats from piling up.
LEMMA PileStep == ASSUME TypeOK, Known, Spoken, Pile, [Next]_vars PROVE Pile'
<1>0. \A c \in Chats : spoilt[c] \subseteq spoilt'[c]
  BY SpoiltGrows
<1>1. Empty \subseteq Chats /\ Empty' \subseteq Chats
  BY DEF Empty, Made
<1>2. ASSUME NEW c \in Chats, OpenChat(c) PROVE Pile'
  <2>1. Empty' = {} /\ c \notin Launching
    BY <1>2 DEF OpenChat, Reusable, Empty, Made
  <2>2. LET k == New("launch", c, "second") IN k.chat = c /\ k.do = "launch"
    BY NewFacts
  <2>3. Doing("launch")' = Doing("launch") \cup {New("launch", c, "second")}
    BY <1>2, <2>2 DEF OpenChat, Doing
  <2>4. \A i \in Doing("launch") : i.chat # c
    BY <2>1 DEF Launching
  <2>5. \A i, j \in Doing("launch")' : i.chat = j.chat => i = j
    BY <2>2, <2>3, <2>4 DEF Pile
  <2>6. QED
    BY <2>1, <2>5 DEF Pile, Unmarked
<1>3. ASSUME \A c \in Chats : ~OpenChat(c)
      PROVE  Doing("launch")' \subseteq Doing("launch")
  BY <1>3, LaunchFrame
<1>4. ASSUME NEW c \in Chats, NewChat(c) \/ Unarchive(c) \/ Restore(c) PROVE Pile'
  <2>1. /\ Spoil("pile", Launching \cup {c}) /\ jobs' = jobs
        /\ \A j \in jobs : ~FinishLaunch(j) \/ j.chat = c
    <3>1. Spoil("pile", Launching \cup {c}) /\ jobs' = jobs
      BY <1>4 DEF NewChat, Unarchive, Restore
    <3>2. \A j \in jobs : ~FinishLaunch(j)
      BY <3>1 DEF FinishLaunch, Finish
    <3>3. QED
      BY <3>1, <3>2
  <2>2. \A d \in Launching \cup {c} : d \in Chats => "pile" \in spoilt'[d]
    BY <2>1 DEF Spoil
  <2>3. \A d \in Empty' : d \in Empty \/ d = c
    <3> SUFFICES ASSUME NEW d \in Empty', d # c, d \notin Empty PROVE FALSE
      OBVIOUS
    <3>1. d \in Chats /\ c \in Chats
      BY <1>1
    <3>2. row \in [Chats -> Row]
      BY DEF TypeOK
    <3>3. row'[d] = row[d]
      BY <1>4, <3>1, <3>2 DEF NewChat, CreateChat, Unarchive, SetArchived, Restore, SetDeleted
    <3>4. QED
      BY <3>3 DEF Empty, Made
  <2>4. Unmarked' \subseteq Unmarked
    BY <1>0, <1>1, <2>2, <2>3 DEF Unmarked
  <2>5. Doing("launch")' = Doing("launch")
    BY <2>1 DEF Doing
  <2>6. \A j \in Doing("launch") : j.chat \in Chats /\ "pile" \in spoilt'[j.chat]
    BY <2>2, ChatOf DEF Doing, Launching
  <2>7. QED
    BY <2>4, <2>5, <2>6 DEF Pile
<1>5. ASSUME NEW j \in jobs, FinishLaunch(j) PROVE Pile'
  <2>1. /\ jobs' = jobs \ {j} /\ Spoil("pile", Launching \ {j.chat}) /\ j.do = "launch"
        /\ row' = [row EXCEPT ![j.chat] = NewRow]
    BY <1>5 DEF FinishLaunch, Finish, CreateChat
  <2>2. Doing("launch")' = Doing("launch") \ {j} /\ j \in Doing("launch") /\ j.chat \in Chats
    BY <2>1, ChatOf DEF Doing
  <2>3. \A i \in Doing("launch")' : i.chat \in Chats /\ "pile" \in spoilt'[i.chat]
    <3> SUFFICES ASSUME NEW i \in Doing("launch")'
                 PROVE  i.chat \in Chats /\ "pile" \in spoilt'[i.chat]
      OBVIOUS
    <3>1. i \in Doing("launch") /\ i # j /\ i.chat \in Chats
      BY <2>2, ChatOf DEF Doing
    <3>2. i.chat # j.chat
      BY <2>2, <3>1 DEF Pile
    <3>3. i.chat \in Launching \ {j.chat}
      BY <3>1, <3>2 DEF Launching
    <3>4. QED
      BY <2>1, <3>1, <3>3 DEF Spoil
  <2>4. \A d \in Empty' : d \in Empty \/ d = j.chat
    BY <1>1, <2>1 DEF Empty, Made, TypeOK
  <2>5. Unmarked' \subseteq Unmarked \cup {j.chat}
    BY <1>0, <1>1, <2>4 DEF Unmarked
  <2>6. j.chat \in Unmarked' => Unmarked = {}
    BY <1>0, <2>2 DEF Unmarked, Pile
  <2>7. \A a, b \in Unmarked' : a = b
    BY <2>5, <2>6 DEF Pile
  <2>8. QED
    BY <2>2, <2>3, <2>7 DEF Pile
<1>6. ASSUME \A c \in Chats : ~(OpenChat(c) \/ NewChat(c) \/ Unarchive(c) \/ Restore(c)),
             \A j \in jobs : ~FinishLaunch(j)
      PROVE  Pile'
  <2>1. \A d \in Empty' : d \in Empty
    <3> SUFFICES ASSUME NEW d \in Empty' PROVE d \in Empty
      OBVIOUS
    <3>1. d \in Chats
      BY <1>1
    <3>2. Created(d) => FALSE
      <4>1. ASSUME Created(d) PROVE ~SameNames(d)
        BY <4>1, NewRowFacts DEF Created, SameNames
      <4>2. ASSUME Created(d)
            PROVE  ~Rename(d) /\ ~Remember(d) /\ ~\E j \in jobs : ApplyTitle(j) /\ j.chat = d
        BY <4>2, <3>1 DEF Created, Known, Absent, JobOk, Rename, Remember, NewId, ApplyTitle
      <4>3. QED
        BY <1>6, <3>1, <4>1, <4>2, NamesFrame
    <3>3. QED
      BY <1>6, <3>1, <3>2, EmptyFrame
  <2>2. Unmarked' \subseteq Unmarked
    BY <1>0, <1>1, <2>1 DEF Unmarked
  <2>3. Doing("launch")' \subseteq Doing("launch")
    BY <1>3, <1>6
  <2>4. \A i \in Doing("launch") : i.chat \in Chats
    BY ChatOf DEF Doing
  <2>5. QED
    BY <1>0, <2>2, <2>3, <2>4 DEF Pile
<1> QED
  BY <1>2, <1>4, <1>5, <1>6

(***************************************************************************)
(* Titles on their way.                                                    *)
(***************************************************************************)
\* A title changes by a rename or by the titling task's write, which leaves
\* a coroutine to announce it.
LEMMA TitleFrame ==
  ASSUME TypeOK, Known, [Next]_vars, NEW c \in Chats
  PROVE  \/ EffectiveTitle(c)' = EffectiveTitle(c) /\ ~Rename(c)
         \/ Rename(c) /\ EffectiveTitle(c)' = events + 1
         \/ \E j \in Of(c) : /\ ApplyTitle(j) /\ TakesTitle(c) /\ ~Rename(c)
                             /\ [j EXCEPT !.at = "read"] \in jobs'
                             /\ EffectiveTitle(c)' # Untitled
                             /\ EffectiveTitle(c) # Untitled
                                  => EffectiveTitle(c)' = EffectiveTitle(c)
<1>0. /\ row \in [Chats -> Row] /\ row[c] \in Row /\ events \in Nat
      /\ row[c].title \in Nat /\ row[c].userTitle \in Nat
  BY Numbers DEF TypeOK
<1>1. CASE Rename(c)
  <2>1. row'[c].userTitle = events + 1
    BY <1>0, <1>1 DEF Rename, SetUserTitle, Row
  <2>2. QED
    BY <1>0, <1>1, <2>1 DEF EffectiveTitle, Untitled
<1>2. CASE SameNames(c) /\ ~Rename(c)
  BY <1>2 DEF SameNames, EffectiveTitle
<1>3. CASE Created(c) /\ ~Rename(c)
  BY <1>3, NewRowFacts DEF Created, Known, Absent, EffectiveTitle
<1>4. CASE Remember(c) /\ ~Rename(c)
  <2>1. row'[c].title = row[c].title /\ row'[c].userTitle = row[c].userTitle
    BY <1>0, <1>4 DEF Remember, SetSdk, Row
  <2>2. QED
    BY <1>4, <2>1 DEF EffectiveTitle
<1>5. CASE (\E j \in jobs : ApplyTitle(j) /\ j.chat = c) /\ ~Rename(c)
  <2>1. PICK j \in jobs : ApplyTitle(j) /\ j.chat = c
    BY <1>5
  <2>2. j.req # 0 /\ j.req \in Nat
    BY <2>1, ChatOf DEF ApplyTitle, JobOk, Job
  <2>3. /\ row'[c].title = IF TakesTitle(c) THEN j.req ELSE row[c].title
        /\ row'[c].userTitle = row[c].userTitle
    BY <1>0, <2>1 DEF ApplyTitle, SetGeneratedTitle, Row
  <2>4. CASE TakesTitle(c)
    <3>1. [j EXCEPT !.at = "read"] \in jobs'
      BY <2>1, <2>4 DEF ApplyTitle, Step
    <3>2. /\ EffectiveTitle(c)' # Untitled
          /\ EffectiveTitle(c) # Untitled => EffectiveTitle(c)' = EffectiveTitle(c)
      BY <2>2, <2>3, <2>4 DEF EffectiveTitle, TakesTitle, Untitled
    <3>3. QED
      BY <1>5, <2>1, <2>4, <3>1, <3>2 DEF Of
  <2>5. CASE ~TakesTitle(c)
    BY <1>5, <2>3, <2>5 DEF EffectiveTitle
  <2>6. QED
    BY <2>4, <2>5
<1> QED
  BY <1>1, <1>2, <1>3, <1>4, <1>5, NamesFrame

\* A coroutine that holds a title, or will read one, has it from a rename or
\* from the step before.
LEMMA HoldingNew ==
  ASSUME TypeOK, Known, [Next]_vars, NEW c \in Chats, NEW k \in Of(c)',
         k.at \in {"read", "send", "label", "file"}, k \notin jobs
  PROVE  \/ Rename(c) /\ k.at = "send" /\ k.got = events + 1
         \/ Remember(c) /\ k.at = "label"
         \/ \E j \in Of(c) : Continues(j, k)
<1>0. k \in jobs' /\ k.chat = c
  BY DEF Of
<1>1. ASSUME NEW j \in jobs, Continues(j, k) PROVE j \in Of(c)
  BY <1>0, <1>1 DEF Continues, Of
<1>2. CASE Begun(k)
  <2>1. ASSUME NEW d \in Chats, k = New("launch", d, "second") PROVE FALSE
    BY <2>1, NewFacts
  <2>2. ASSUME NEW d \in Chats, Remember(d), k = New("remember", d, "label")
        PROVE  Remember(c) /\ k.at = "label"
    BY <1>0, <2>2, NewFacts
  <2>3. ASSUME NEW d \in Chats, Rename(d),
               k = [New("rename", d, "send") EXCEPT !.got = events + 1]
        PROVE  Rename(c) /\ k.at = "send" /\ k.got = events + 1
    BY <1>0, <2>3, NewFacts DEF Job
  <2>4. ASSUME NEW d \in Chats, k = New("record", d, "write") PROVE FALSE
    BY <2>4, NewFacts
  <2>5. ASSUME NEW d \in Chats, k = New("title", d, "write") PROVE FALSE
    BY <2>5, NewFacts
  <2>6. QED
    BY <1>2, <2>1, <2>2, <2>3, <2>4, <2>5 DEF Begun
<1>3. QED
  BY <1>0, <1>1, <1>2, JobNew

\* The successor of a coroutine is under way.
LEMMA NextStep ==
  ASSUME TypeOK, NEW j \in jobs
  PROVE  /\ ReadTitle(j) => \E k \in jobs' : k.chat = j.chat /\ k.at = "send"
         /\ BroadcastTitle(j) => \E k \in jobs' : k.chat = j.chat /\ k.at = "label"
         /\ (ReadLabel(j) /\ Labelled(j.chat)) =>
              \E k \in jobs' : k.chat = j.chat /\ k.at = "file"
<1>0. j \in Job
  BY DEF TypeOK
<1>1. ASSUME ReadTitle(j) PROVE \E k \in jobs' : k.chat = j.chat /\ k.at = "send"
  <2>1. [j EXCEPT !.at = "send", !.got = Announced(j), !.sdk = 0] \in jobs'
    BY <1>1 DEF ReadTitle, Keep
  <2>2. QED
    BY <1>0, <2>1 DEF Job
<1>2. ASSUME BroadcastTitle(j) PROVE \E k \in jobs' : k.chat = j.chat /\ k.at = "label"
  <2>1. [j EXCEPT !.at = "label", !.got = Untitled, !.sdk = 0] \in jobs'
    BY <1>2 DEF BroadcastTitle, Keep
  <2>2. QED
    BY <1>0, <2>1 DEF Job
<1>3. ASSUME ReadLabel(j), Labelled(j.chat)
      PROVE  \E k \in jobs' : k.chat = j.chat /\ k.at = "file"
  <2>1. [j EXCEPT !.at = "file", !.got = Label(j.chat), !.sdk = row[j.chat].sdk] \in jobs'
    BY <1>3 DEF ReadLabel, Keep
  <2>2. QED
    BY <1>0, <2>1 DEF Job
<1>4. QED
  BY <1>1, <1>2, <1>3

(***************************************************************************)
(* The sidecars.                                                           *)
(***************************************************************************)
Fetching(c) == \E j \in Of(c) : j.at \in {"read", "send", "label"}

Told(c) ==
    /\ \A j \in Of(c) : j.at = "file" => j.got = EffectiveTitle(c) /\ j.sdk = row[c].sdk
    /\ \/ \E j \in Of(c) : j.at = "file"
       \/ topic[c][row[c].sdk] = EffectiveTitle(c)

Side(c) == Labelled(c) /\ "label" \notin spoilt[c] => Fetching(c) \/ Told(c)

\* A sidecar is written by the coroutine that holds its label.
LEMMA TopicFrame ==
  ASSUME TypeOK, [Next]_vars, NEW c \in Chats
  PROVE  topic'[c] = topic[c] \/ \E j \in jobs : WriteSidecar(j) /\ j.chat = c
<1>1. CASE topic' = topic
  BY <1>1
<1>2. CASE Elsewhere \/ Restart
  BY <1>1, <1>2 DEF Restart, Elsewhere, NewChat, Archive, Unarchive, Delete, Restore, Reap,
     RememberFails, Star, ListSessions, Age, OpenTab, Subscribe, Drop, AnswerSeed, TakeSeed,
     TabOnly, vars
<1>3. CASE \E j \in jobs : WriteSidecar(j)
  BY <1>3 DEF WriteSidecar, TypeOK
<1>4. CASE \E j \in jobs : Uses(j) /\ ~WriteSidecar(j)
  BY <1>1, <1>4 DEF Uses, FinishLaunch, RecordUserLine, ResurfaceChat, ApplyTitle, ReadTitle,
     BroadcastTitle, ReadLabel, Fails, LaunchFails, RecordFails,
     ApplyFails, ReadFails, SidecarFails
<1>5. CASE \E d \in Chats : OpenChat(d) \/ Remember(d) \/ Rename(d)
                            \/ \E words \in BOOLEAN : Send(d, words)
  BY <1>1, <1>5 DEF OpenChat, Remember, Rename, Send
<1> QED
  BY <1>2, <1>3, <1>4, <1>5, Steps

\* An update on its way goes on until its label is read.
LEMMA FetchingKept ==
  ASSUME TypeOK, Known, [Next]_vars, NEW c \in Chats, Fetching(c), ~Restart,
         ~\E j \in Of(c) : ReadLabel(j), "label" \notin spoilt'[c]
  PROVE  Fetching(c)'
<1>1. PICK j \in Of(c) : j.at \in {"read", "send", "label"}
  BY DEF Fetching
<1>2. j \in jobs /\ j.chat = c /\ ~ReadLabel(j)
  BY DEF Of
<1>3. CASE ReadTitle(j) \/ BroadcastTitle(j)
  BY <1>2, <1>3, NextStep DEF Fetching, Of
<1>4. CASE ~ReadTitle(j) /\ ~BroadcastTitle(j)
  <2>1. j.do # "launch" /\ j.do # "record"
    BY <1>1, <1>2, ChatOf DEF JobOk
  <2>2. ~Uses(j)
    BY <1>1, <1>2, <1>4, <2>1, FailPlace, ChatOf DEF Uses, FinishLaunch, RecordUserLine, Begins,
       ResurfaceChat, ApplyTitle, WriteSidecar, JobOk
  <2>3. QED
    BY <1>1, <1>2, <2>1, <2>2, JobKept DEF Fetching, Of, Ends
<1>5. QED
  BY <1>3, <1>4

\* Every step keeps the sidecar true, or an update of it on its way.
LEMMA SideStep ==
  ASSUME TypeOK, Known, [Next]_vars, NEW c \in Chats, Side(c)
  PROVE  Side(c)'
<1> SUFFICES ASSUME Labelled(c)', "label" \notin spoilt'[c]
             PROVE  Fetching(c)' \/ Told(c)'
  BY DEF Side
<1>0. /\ "label" \notin spoilt[c] /\ row \in [Chats -> Row] /\ row[c] \in Row
      /\ topic \in [Chats -> [1 .. MaxIds -> Nat]] /\ MaxIds \in Nat
      /\ row[c].sdk \in Nat /\ row[c].sdk <= MaxIds
  BY SpoiltGrows, Numbers DEF TypeOK, Known, Small
<1>1. CASE Rename(c)
  <2>1. [New("rename", c, "send") EXCEPT !.got = events + 1] \in jobs'
    BY <1>1 DEF Rename
  <2>2. LET k == [New("rename", c, "send") EXCEPT !.got = events + 1]
        IN  k.chat = c /\ k.at = "send"
    BY NewFacts DEF Job
  <2>3. QED
    BY <2>1, <2>2 DEF Fetching, Of
<1>2. CASE Remember(c)
  <2>1. New("remember", c, "label") \in jobs'
    BY <1>2 DEF Remember
  <2>2. LET k == New("remember", c, "label") IN k.chat = c /\ k.at = "label"
    BY NewFacts
  <2>3. QED
    BY <2>1, <2>2 DEF Fetching, Of
<1>3. CASE \E j \in Of(c) : ApplyTitle(j) /\ TakesTitle(c)
  <2>1. PICK j \in Of(c) : ApplyTitle(j) /\ TakesTitle(c)
    BY <1>3
  <2>2. j \in jobs /\ j.chat = c /\ j \in Job
    BY ChatOf DEF Of
  <2>3. [j EXCEPT !.at = "read"] \in jobs'
    BY <2>1, <2>2 DEF ApplyTitle, Step
  <2>4. QED
    BY <2>2, <2>3 DEF Fetching, Of, Job
<1>4. CASE Created(c)
  BY <1>4, NewRowFacts DEF Created, Labelled
<1>5. CASE /\ ~Rename(c) /\ ~Remember(c) /\ ~Created(c)
           /\ ~\E j \in Of(c) : ApplyTitle(j) /\ TakesTitle(c)
  <2>1. EffectiveTitle(c)' = EffectiveTitle(c) /\ row'[c].sdk = row[c].sdk
    <3>1. CASE SameNames(c)
      BY <3>1 DEF SameNames, EffectiveTitle
    <3>2. CASE \E j \in jobs : ApplyTitle(j) /\ j.chat = c
      <4>1. PICK j \in jobs : ApplyTitle(j) /\ j.chat = c
        BY <3>2
      <4>2. ~TakesTitle(c)
        BY <1>5, <4>1 DEF Of
      <4>3. row' = [row EXCEPT ![c].title = row[c].title]
        BY <1>0, <4>1, <4>2 DEF ApplyTitle, SetGeneratedTitle
      <4>4. row' = row
        BY <1>0, <4>3 DEF Row
      <4>5. QED
        BY <4>4 DEF EffectiveTitle
    <3>3. QED
      BY <1>5, <3>1, <3>2, NamesFrame
  <2>2. Labelled(c) /\ row[c].sdk # 0
    BY <2>1 DEF Labelled
  <2>3. CASE Restart
    <3>1. Of(c) = {}
      BY <1>0, <2>3 DEF Restart, Spoil, Cut, Of
    <3>2. jobs' = {} /\ topic' = topic
      BY <2>3 DEF Restart
    <3>3. topic[c][row[c].sdk] = EffectiveTitle(c)
      BY <1>0, <2>2, <3>1 DEF Side, Fetching, Told
    <3>4. QED
      BY <2>1, <3>2, <3>3 DEF Told, Of
  <2>4. ASSUME ~Restart, NEW j \in Of(c), ReadLabel(j)
        PROVE  Fetching(c)' \/ Told(c)'
    <3>1. j \in jobs /\ j.chat = c /\ j.at = "label"
      BY <2>4 DEF Of, ReadLabel
    <3>2. ~\E i \in Of(c) : i.at = "file"
      <4>1. Spoil("label", {k.chat : k \in {i \in Of(c) : i.at = "file"}})
        BY <2>4, <3>1 DEF ReadLabel
      <4>2. \A i \in Of(c) : i.at = "file" => c \in {k.chat : k \in {h \in Of(c) : h.at = "file"}}
        BY DEF Of
      <4>3. QED
        BY <4>1, <4>2 DEF Spoil
    <3>3. \E k \in Of(c)' : k.at = "file"
      BY <2>2, <2>4, <3>1, NextStep DEF Of
    <3>4. ASSUME NEW k \in Of(c)', k.at = "file"
          PROVE  k.got = EffectiveTitle(c) /\ k.sdk = row[c].sdk
      <4>1. k \notin jobs
        BY <3>2, <3>4 DEF Of
      <4>2. PICK i \in Of(c) : Continues(i, k)
        BY <3>4, <4>1, HoldingNew
      <4>3. QED
        BY <3>4, <4>2 DEF Continues, Of
    <3>5. QED
      BY <2>1, <3>3, <3>4 DEF Told
  <2>5. CASE ~Restart /\ ~\E j \in Of(c) : ReadLabel(j)
    <3>1. CASE Fetching(c)
      BY <2>5, <3>1, FetchingKept
    <3>2. CASE Told(c)
      <4>1. ASSUME NEW k \in Of(c)', k.at = "file"
            PROVE  k.got = EffectiveTitle(c) /\ k.sdk = row[c].sdk
        <5>1. CASE k \in jobs
          BY <3>2, <4>1, <5>1 DEF Told, Of
        <5>2. CASE k \notin jobs
          BY <1>5, <2>5, <4>1, <5>2, HoldingNew DEF Continues, Of
        <5>3. QED
          BY <5>1, <5>2
      <4>2. CASE \E j \in jobs : WriteSidecar(j) /\ j.chat = c
        <5>1. PICK j \in jobs : WriteSidecar(j) /\ j.chat = c
          BY <4>2
        <5>2. j.got = EffectiveTitle(c) /\ j.sdk = row[c].sdk
          BY <3>2, <5>1 DEF Told, Of, WriteSidecar
        <5>3. topic' = [topic EXCEPT ![c][row[c].sdk] = EffectiveTitle(c)]
          BY <5>1, <5>2 DEF WriteSidecar
        <5>4. row[c].sdk \in 1 .. MaxIds
          BY <1>0, <2>2
        <5>5. topic'[c][row[c].sdk] = EffectiveTitle(c)
          BY <1>0, <5>3, <5>4
        <5>6. QED
          BY <2>1, <4>1, <5>5 DEF Told
      <4>3. CASE ~\E j \in jobs : WriteSidecar(j) /\ j.chat = c
        <5>1. topic'[c] = topic[c]
          BY <4>3, TopicFrame
        <5>2. ASSUME NEW j \in Of(c), j.at = "file" PROVE j \in Of(c)'
          <6>1. j \in jobs /\ j.chat = c /\ j.do # "launch" /\ j.do # "record"
            BY <5>2, ChatOf DEF Of, JobOk
          <6>2. ~Fails(j)
            BY <5>2, <6>1, FailPlace
          <6>3. ~Uses(j)
            BY <4>3, <5>2, <6>1, <6>2 DEF Uses, FinishLaunch, RecordUserLine, Begins,
               ResurfaceChat, ApplyTitle, ReadTitle, BroadcastTitle, ReadLabel
          <6>4. QED
            BY <2>5, <6>1, <6>3, JobKept DEF Of, Ends
        <5>3. QED
          BY <2>1, <3>2, <4>1, <5>1, <5>2 DEF Told
      <4>4. QED
        BY <4>2, <4>3
    <3>3. QED
      BY <1>0, <2>2, <3>1, <3>2 DEF Side
  <2>6. QED
    BY <2>3, <2>4, <2>5
<1> QED
  BY <1>1, <1>2, <1>3, <1>4, <1>5

(***************************************************************************)
(* The tabs.                                                               *)
(***************************************************************************)
\* Where no rename overtook an announcement, what is about to be announced is
\* the title of the row.
Announce(c) == "tab" \notin spoilt[c] => \A j \in Of(c) :
    /\ j.at = "send" => j.got = EffectiveTitle(c) /\ EffectiveTitle(c) # Untitled
    /\ j.at = "read" => EffectiveTitle(c) # Untitled

\* Every step keeps what is about to be announced true.
LEMMA AnnounceStep ==
  ASSUME TypeOK, Known, [Next]_vars, NEW c \in Chats, Announce(c)
  PROVE  Announce(c)'
<1> SUFFICES ASSUME "tab" \notin spoilt'[c], NEW k \in Of(c)'
             PROVE  /\ k.at = "send" => /\ k.got = EffectiveTitle(c)'
                                        /\ EffectiveTitle(c)' # Untitled
                    /\ k.at = "read" => EffectiveTitle(c)' # Untitled
  BY DEF Announce
<1>0. "tab" \notin spoilt[c] /\ events \in Nat
  BY SpoiltGrows, Numbers
<1>1. \A j \in Of(c) : /\ j.at = "send" => /\ j.got = EffectiveTitle(c)
                                           /\ EffectiveTitle(c) # Untitled
                       /\ j.at = "read" => EffectiveTitle(c) # Untitled
  BY <1>0 DEF Announce
<1>2. CASE Rename(c)
  <2>1. ~\E j \in Of(c) : j.at = "send"
    BY <1>2 DEF Rename, Spoil, Sending
  <2>2. EffectiveTitle(c)' = events + 1
    BY <1>2, TitleFrame
  <2>3. jobs' = jobs \cup {[New("rename", c, "send") EXCEPT !.got = events + 1]}
    BY <1>2 DEF Rename
  <2>4. [New("rename", c, "send") EXCEPT !.got = events + 1].got = events + 1
    BY NewFacts DEF Job
  <2>5. EffectiveTitle(c)' # Untitled
    BY <1>0, <2>2 DEF Untitled
  <2>6. CASE k \in jobs
    BY <2>1, <2>5, <2>6 DEF Of
  <2>7. CASE k \notin jobs
    <3>1. k.got = events + 1
      BY <2>3, <2>4, <2>7 DEF Of
    <3>2. QED
      BY <2>2, <2>5, <3>1
  <2>8. QED
    BY <2>6, <2>7
<1>3. CASE ~Rename(c) /\ k \in jobs
  <2>1. k \in Of(c)
    BY <1>3 DEF Of
  <2>2. CASE EffectiveTitle(c)' = EffectiveTitle(c)
    BY <1>1, <2>1, <2>2
  <2>3. CASE \E j \in Of(c) : /\ ApplyTitle(j) /\ TakesTitle(c)
                              /\ EffectiveTitle(c)' # Untitled
                              /\ EffectiveTitle(c) # Untitled
                                   => EffectiveTitle(c)' = EffectiveTitle(c)
    BY <1>1, <2>1, <2>3
  <2>4. QED
    BY <1>3, <2>2, <2>3, TitleFrame
<1>4. CASE ~Rename(c) /\ k \notin jobs /\ k.at \in {"send", "read"}
  <2>1. PICK j \in Of(c) : Continues(j, k)
    BY <1>4, HoldingNew
  <2>2. j \in jobs /\ j.chat = c
    BY DEF Of
  <2>3. CASE ApplyTitle(j)
    <3>1. k.at = "read" /\ TakesTitle(c)
      BY <1>4, <2>1, <2>2, <2>3 DEF Continues, ApplyTitle, RecordUserLine, ReadTitle,
         BroadcastTitle, ReadLabel
    <3>2. \E i \in jobs : ApplyTitle(i) /\ i.chat = c /\ TakesTitle(c)
      BY <2>2, <2>3, <3>1
    <3>3. EffectiveTitle(c)' # Untitled
      <4>1. row \in [Chats -> Row] /\ row[c] \in Row /\ row[c].userTitle \in Nat
        BY Numbers DEF TypeOK
      <4>2. j.req # 0 /\ j.req \in Nat
        BY <2>2, <2>3, ChatOf DEF ApplyTitle, JobOk, Job
      <4>3. row'[c].title = j.req
        BY <2>2, <2>3, <3>1, <4>1 DEF ApplyTitle, SetGeneratedTitle, Row
      <4>4. QED
        BY <4>2, <4>3 DEF EffectiveTitle, Untitled
    <3>4. QED
      BY <3>1, <3>3
  <2>4. CASE ReadTitle(j)
    <3>1. k.at = "send" /\ k.got = EffectiveTitle(c) /\ j.at = "read" /\ row' = row
      BY <1>4, <2>1, <2>2, <2>4 DEF Continues, ApplyTitle, RecordUserLine, ReadTitle,
         BroadcastTitle, ReadLabel
    <3>2. EffectiveTitle(c)' = EffectiveTitle(c)
      BY <3>1 DEF EffectiveTitle
    <3>3. QED
      BY <1>1, <2>1, <3>1, <3>2
  <2>5. QED
    BY <1>4, <2>1, <2>3, <2>4 DEF Continues
<1>5. QED
  BY <1>2, <1>3, <1>4

\* A title is about to be announced.
Pending(c) == \E j \in Of(c) : j.at \in {"read", "send"}

Shows(t) == LET c == tab[t].chat IN
    /\ ~tab[t].open => tab[t].title = NoTitle /\ tab[t].seed = "done"
    /\ tab[t].open /\ ~tab[t].missed /\ "tab" \notin spoilt[c] =>
         \/ Pending(c)
         \/ tab[t].title = EffectiveTitle(c)
         \/ tab[t].seed = "asked" /\ tab[t].title = NoTitle
         \/ tab[t].seed = "read" /\ tab[t].title = NoTitle /\ tab[t].got = EffectiveTitle(c)

TabMoves(t) == OpenTab(t) \/ Subscribe(t) \/ Drop(t) \/ AnswerSeed(t) \/ TakeSeed(t)

\* A tab changes by its own moves, a broadcast or the end of the daemon.
LEMMA TabFrame ==
  ASSUME TypeOK, [Next]_vars, NEW t \in Tabs
  PROVE  tab'[t] = tab[t] \/ TabMoves(t) \/ Restart \/ \E j \in jobs : BroadcastTitle(j)
<1>1. CASE tab' = tab
  BY <1>1
<1>2. CASE \E u \in Tabs : TabMoves(u)
  BY <1>2 DEF TabMoves, OpenTab, Subscribe, Drop, AnswerSeed, TakeSeed, Sets, TypeOK
<1>3. CASE \E j \in jobs : Uses(j) /\ ~BroadcastTitle(j)
  BY <1>1, <1>3 DEF Uses, FinishLaunch, RecordUserLine, ResurfaceChat, ApplyTitle, ReadTitle,
     ReadLabel, WriteSidecar, Fails, LaunchFails, RecordFails,
     ApplyFails, ReadFails, SidecarFails
<1>4. CASE \E d \in Chats : OpenChat(d) \/ Remember(d) \/ Rename(d)
                            \/ \E words \in BOOLEAN : Send(d, words)
  BY <1>1, <1>4 DEF OpenChat, Remember, Rename, Send
<1>5. CASE \/ \E c \in Chats : \/ NewChat(c) \/ Archive(c) \/ Unarchive(c) \/ Delete(c)
                               \/ Restore(c) \/ Reap(c) \/ RememberFails(c)
                               \/ \E on \in BOOLEAN : Star(c, on)
           \/ ListSessions \/ Age \/ UNCHANGED vars
  BY <1>1, <1>5 DEF NewChat, Archive, Unarchive, Delete, Restore, Reap, RememberFails, Star,
     ListSessions, Age, vars
<1> QED
  BY <1>2, <1>3, <1>4, <1>5, Steps DEF Elsewhere, TabMoves

\* An announcement to come stays one until it is broadcast; a new title is
\* always about to be announced.
LEMMA PendingKept ==
  ASSUME TypeOK, Known, [Next]_vars, NEW c \in Chats, ~Restart,
         ~\E j \in Of(c) : BroadcastTitle(j), "tab" \notin spoilt'[c]
  PROVE  /\ Pending(c) => Pending(c)'
         /\ EffectiveTitle(c)' = EffectiveTitle(c) \/ Pending(c)'
<1>1. ASSUME Pending(c) PROVE Pending(c)'
  <2>1. PICK j \in Of(c) : j.at \in {"read", "send"}
    BY <1>1 DEF Pending
  <2>2. j \in jobs /\ j.chat = c /\ j.do # "launch" /\ j.do # "record"
    BY <2>1, ChatOf DEF Of, JobOk
  <2>3. CASE ReadTitle(j)
    BY <2>2, <2>3, NextStep DEF Pending, Of
  <2>4. CASE ~ReadTitle(j)
    <3>1. ~Uses(j)
      BY <2>1, <2>2, <2>4, FailPlace DEF Uses, FinishLaunch, RecordUserLine, Begins,
         ResurfaceChat, ApplyTitle, ReadLabel, WriteSidecar
    <3>2. QED
      BY <2>1, <2>2, <3>1, JobKept DEF Pending, Of, Ends
  <2>5. QED
    BY <2>3, <2>4
<1>2. CASE Rename(c)
  <2>1. [New("rename", c, "send") EXCEPT !.got = events + 1] \in jobs'
    BY <1>2 DEF Rename
  <2>2. LET k == [New("rename", c, "send") EXCEPT !.got = events + 1]
        IN  k.chat = c /\ k.at = "send"
    BY NewFacts DEF Job
  <2>3. QED
    BY <1>1, <2>1, <2>2 DEF Pending, Of
<1>3. CASE \E j \in Of(c) : [j EXCEPT !.at = "read"] \in jobs'
  <2>1. PICK j \in Of(c) : [j EXCEPT !.at = "read"] \in jobs'
    BY <1>3
  <2>2. j \in Job /\ j.chat = c
    BY DEF Of, TypeOK
  <2>3. QED
    BY <1>1, <2>1, <2>2 DEF Pending, Of, Job
<1>4. QED
  BY <1>1, <1>2, <1>3, TitleFrame

\* No title of the table is the one that stands for an unknown title.
LEMMA KnownTitles ==
  ASSUME TypeOK, Known, NEW c \in Chats
  PROVE  EffectiveTitle(c) # NoTitle
<1>1. row[c].title \in Nat /\ row[c].userTitle \in Nat /\ events \in Nat /\ MaxEvents \in Nat
  BY Numbers, DeskAssumption DEF TypeOK, Row
<1>2. events <= MaxEvents
  BY Numbers DEF TypeOK
<1>3. row[c].title <= events /\ row[c].userTitle <= events
  BY DEF Known, Small
<1>4. QED
  BY <1>1, <1>2, <1>3 DEF EffectiveTitle, NoTitle

\* A tab that missed no broadcast shows the title of the row, will be told it,
\* or has not taken what it asked for.
LEMMA ShowsStep ==
  ASSUME TypeOK, Known, [Next]_vars, NEW t \in Tabs, Shows(t), Announce(tab[t].chat)
  PROVE  Shows(t)'
<1> SUFFICES ASSUME NEW c \in Chats, c = tab[t].chat PROVE Shows(t)'
  BY DEF TypeOK
<1>0. /\ tab \in [Tabs -> TabRecord] /\ tab[t] \in TabRecord /\ c \in Chats
      /\ spoilt[c] \subseteq spoilt'[c]
  BY SpoiltGrows DEF TypeOK, TabRecord
<1>1. CASE Restart
  <2>1. tab'[t] = [tab[t] EXCEPT !.sub = FALSE,
                 !.seed = IF tab[t].seed = "asked" THEN "done" ELSE tab[t].seed,
                 !.missed = tab[t].missed
                            \/ (tab[t].open /\ (tab[t].seed = "asked" \/ Of(c) # {}))]
    BY <1>0, <1>1 DEF Restart
  <2>2. /\ tab'[t].chat = c /\ tab'[t].open = tab[t].open /\ tab'[t].title = tab[t].title
        /\ tab'[t].got = tab[t].got
        /\ tab'[t].seed = IF tab[t].seed = "asked" THEN "done" ELSE tab[t].seed
    BY <1>0, <2>1 DEF TabRecord
  <2>3. ~tab'[t].missed /\ tab[t].open => ~tab[t].missed /\ tab[t].seed # "asked" /\ Of(c) = {}
    BY <1>0, <2>1 DEF TabRecord
  <2>4. EffectiveTitle(c)' = EffectiveTitle(c)
    BY <1>1 DEF Restart, EffectiveTitle
  <2>5. Of(c) = {} => ~Pending(c)
    BY DEF Pending
  <2>6. QED
    BY <1>0, <2>2, <2>3, <2>4, <2>5 DEF Shows
<1>2. CASE \E j \in Of(c) : BroadcastTitle(j)
  <2>1. PICK j \in Of(c) : BroadcastTitle(j)
    BY <1>2
  <2>2. j.chat = c /\ j.at = "send" /\ row' = row /\ tab'[t] = Hears(t, c, j.got)
    BY <1>0, <2>1 DEF Of, BroadcastTitle
  <2>3. EffectiveTitle(c)' = EffectiveTitle(c)
    BY <2>2 DEF EffectiveTitle
  <2>4. "tab" \notin spoilt'[c] => j.got = EffectiveTitle(c)
    BY <1>0, <2>1, <2>2 DEF Announce
  <2>5. CASE ~tab[t].open
    BY <2>2, <2>5 DEF Hears, Shows
  <2>6. CASE tab[t].open /\ tab[t].sub
    <3>1. tab'[t].chat = c /\ tab'[t].open /\ tab'[t].title = j.got
      BY <1>0, <2>2, <2>6 DEF Hears, TabRecord
    <3>2. QED
      BY <2>3, <2>4, <3>1 DEF Shows
  <2>7. CASE tab[t].open /\ ~tab[t].sub
    <3>1. /\ tab'[t].chat = c /\ tab'[t].open /\ tab'[t].title = tab[t].title
          /\ tab'[t].seed = tab[t].seed
          /\ ~tab'[t].missed => tab[t].seed = "asked" /\ tab[t].title = NoTitle
      BY <1>0, <2>2, <2>7 DEF Hears, TabRecord
    <3>2. QED
      BY <3>1 DEF Shows
  <2>8. QED
    BY <2>5, <2>6, <2>7
<1>3. CASE TabMoves(t)
  <2>1. row' = row /\ jobs' = jobs /\ spoilt' = spoilt
    BY <1>3 DEF TabMoves, OpenTab, Subscribe, Drop, AnswerSeed, TakeSeed, TabOnly, ghosts
  <2>2. \A d : EffectiveTitle(d)' = EffectiveTitle(d) /\ (Pending(d)' <=> Pending(d))
    BY <2>1 DEF EffectiveTitle, Pending, Of
  <2>3. CASE OpenTab(t)
    <3>1. /\ tab'[t].chat = c /\ tab'[t].open /\ tab'[t].title = tab[t].title
          /\ tab'[t].seed = "asked" /\ ~tab[t].open
      BY <1>0, <2>3 DEF OpenTab, Sets, TabRecord
    <3>2. QED
      BY <3>1 DEF Shows
  <2>4. CASE Subscribe(t) \/ Drop(t)
    <3>1. /\ tab'[t].chat = c /\ tab'[t].open = tab[t].open /\ tab'[t].title = tab[t].title
          /\ tab'[t].seed = tab[t].seed /\ tab'[t].got = tab[t].got
          /\ tab'[t].missed = tab[t].missed
      BY <1>0, <2>4 DEF Subscribe, Drop, Sets, TabRecord
    <3>2. QED
      BY <2>1, <2>2, <3>1 DEF Shows
  <2>5. CASE AnswerSeed(t)
    <3>1. /\ tab'[t].chat = c /\ tab'[t].open = tab[t].open /\ tab'[t].title = tab[t].title
          /\ tab[t].seed = "asked" /\ tab'[t].seed = "read"
          /\ tab'[t].got = EffectiveTitle(c) /\ tab'[t].missed = tab[t].missed
      BY <1>0, <2>5 DEF AnswerSeed, Sets, TabRecord
    <3>2. QED
      BY <2>1, <2>2, <3>1 DEF Shows
  <2>6. CASE TakeSeed(t)
    <3>1. /\ tab'[t].chat = c /\ tab'[t].open = tab[t].open /\ tab'[t].missed = tab[t].missed
          /\ tab[t].seed = "read"
          /\ tab'[t].title = IF tab[t].title = NoTitle THEN tab[t].got ELSE tab[t].title
      BY <1>0, <2>6 DEF TakeSeed, Sets, Seeded, TabRecord
    <3>2. tab[t].open
      BY <2>6 DEF TakeSeed, Shows
    <3>3. EffectiveTitle(c) # NoTitle
      BY <1>0, KnownTitles
    <3>4. QED
      BY <2>1, <2>2, <3>1, <3>2, <3>3 DEF Shows
  <2>7. QED
    BY <1>3, <2>3, <2>4, <2>5, <2>6 DEF TabMoves
<1>4. CASE ~Restart /\ ~TabMoves(t) /\ ~\E j \in Of(c) : BroadcastTitle(j)
  <2>1. tab'[t] = tab[t]
    <3>1. ASSUME NEW j \in jobs, BroadcastTitle(j) PROVE tab'[t] = tab[t]
      BY <1>0, <1>4, <3>1 DEF BroadcastTitle, Hears, Of
    <3>2. QED
      BY <1>4, <3>1, TabFrame
  <2>2. "tab" \notin spoilt'[c] =>
          /\ Pending(c) => Pending(c)'
          /\ EffectiveTitle(c)' = EffectiveTitle(c) \/ Pending(c)'
    BY <1>0, <1>4, PendingKept
  <2>3. QED
    BY <1>0, <2>1, <2>2 DEF Shows
<1> QED
  BY <1>1, <1>2, <1>3, <1>4

(***************************************************************************)
(* The inductive invariant, and what it gives.                             *)
(***************************************************************************)
IInv == /\ TypeOK /\ Known /\ Words /\ Spoken /\ Pile
        /\ \A c \in Chats : Shelved(c) /\ Side(c) /\ Announce(c)
        /\ \A t \in Tabs : Shows(t)

\* The invariant holds of the first state.
LEMMA IInvInit == Init => IInv
<1> SUFFICES ASSUME Init PROVE IInv
  OBVIOUS
<1>1. TypeOK /\ Known
  BY TypeInit, KnownInit
<1>2. jobs = {} /\ \A c \in Chats : Of(c) = {}
  BY DEF Init, Of
<1>3. Words /\ Spoken
  BY <1>2 DEF Words, Spoken, Bringing, Init, Down
<1>4. Pile
  <2>1. PICK old \in {s \in SUBSET Chats : \A a, b \in s : a = b} :
              row = [c \in Chats |-> IF c \in old THEN NewRow ELSE NoRow]
    BY DEF Init, RowInit
  <2>2. Unmarked \subseteq old
    BY <2>1 DEF Unmarked, Empty, Made, NoRow
  <2>3. Doing("launch") = {}
    BY <1>2 DEF Doing
  <2>4. QED
    BY <2>1, <2>2, <2>3 DEF Pile
<1>5. ASSUME NEW c \in Chats PROVE Shelved(c) /\ Side(c) /\ Announce(c)
  <2>1. wish[c] = "none"
    BY DEF Init
  <2>2. row[c] = NewRow \/ row[c] = NoRow
    BY DEF Init, RowInit
  <2>3. row[c].sdk = 0
    BY <2>2, NewRowFacts DEF NoRow
  <2>4. QED
    BY <1>2, <2>1, <2>3 DEF Shelved, Side, Labelled, Announce
<1>6. ASSUME NEW t \in Tabs PROVE Shows(t)
  BY DEF Init, Shows
<1>7. QED
  BY <1>1, <1>3, <1>4, <1>5, <1>6 DEF IInv

\* Every step keeps the invariant.
LEMMA IInvStep == IInv /\ [Next]_vars => IInv'
<1> SUFFICES ASSUME IInv, [Next]_vars PROVE IInv'
  OBVIOUS
<1>1. TypeOK' /\ Known' /\ Words' /\ Spoken' /\ Pile'
  BY TypeStep, KnownStep, WordsStep, SpokenStep, PileStep DEF IInv
<1>2. ASSUME NEW c \in Chats PROVE Shelved(c)' /\ Side(c)' /\ Announce(c)'
  BY ShelvedStep, SideStep, AnnounceStep DEF IInv
<1>3. ASSUME NEW t \in Tabs PROVE Shows(t)'
  <2>1. tab[t].chat \in Chats
    BY DEF IInv, TypeOK
  <2>2. QED
    BY <2>1, ShowsStep DEF IInv
<1>4. QED
  BY <1>1, <1>2, <1>3 DEF IInv

\* The invariant the results below follow from holds throughout.
THEOREM Inductive == Spec => []IInv
BY IInvInit, IInvStep, PTL DEF Spec

\* However the sweep, the turns and the requests interleave, a chat is in the
\* list or out of it as the user last had it (the home page of main.py and
\* append_message).
THEOREM ListsAsMeant == Spec => []ListedAsMeant
<1>1. IInv => ListedAsMeant
  <2> SUFFICES ASSUME IInv, NEW c \in Made, ~Speaking(c), ~row[c].deleted
               PROVE  /\ wish[c] = "spoken" => ~row[c].archived
                      /\ wish[c] = "back" /\ row[c].fresh => ~row[c].archived
                      /\ wish[c] = "away" /\ "away" \notin spoilt[c] => row[c].archived
    BY DEF ListedAsMeant
  <2>1. Shelved(c) /\ ~Bringing(c)
    BY DEF IInv, Made, Speaking, Bringing
  <2>2. QED
    BY <2>1 DEF Shelved
<1>2. QED
  BY <1>1, Inductive, PTL

\* Launching again and again leaves one empty chat (open_or_create_chat).
THEOREM LeavesNoPile == Spec => []NoPile
<1>1. IInv => NoPile
  <2> SUFFICES ASSUME IInv PROVE Cardinality(Unmarked) <= 1
    BY DEF NoPile, Unmarked
  <2>1. \A a, b \in Unmarked : a = b
    BY DEF IInv, Pile
  <2>2. CASE Unmarked = {}
    <3>1. Cardinality(Unmarked) = 0
      BY <2>2, FS_EmptySet
    <3>2. QED
      BY <3>1
  <2>3. CASE Unmarked # {}
    <3>1. PICK a : Unmarked = {a}
      BY <2>1, <2>3
    <3>2. Cardinality(Unmarked) = 1
      BY <3>1, FS_Singleton
    <3>3. QED
      BY <3>2
  <2>4. QED
    BY <2>2, <2>3
<1>2. QED
  BY <1>1, Inductive, PTL

\* The first words said to an untitled chat name it, unless the write of the
\* title failed in the session that runs (maybe_title, _apply_title).
THEOREM WordsName == Spec => []FirstWordsName
<1>1. IInv => FirstWordsName
  <2> SUFFICES ASSUME IInv, NEW c \in Made, owed[c] = "yes", Of(c) = {}
               PROVE  EffectiveTitle(c) # Untitled
    BY DEF FirstWordsName
  <2>1. Named(c) /\ ~Naming(c)
    BY DEF IInv, Words, Made, Naming, Titlers
  <2>2. QED
    BY <2>1 DEF Named
<1>2. QED
  BY <1>1, Inductive, PTL

\* The token monitor's sidecar tells the title of the conversation the chat
\* runs under (update_sidecar_for_session).
THEOREM SidecarTells == Spec => []SidecarTrue
<1>1. IInv => SidecarTrue
  <2> SUFFICES ASSUME IInv, NEW c \in Made, Of(c) = {}, Labelled(c), "label" \notin spoilt[c]
               PROVE  topic[c][row[c].sdk] = EffectiveTitle(c)
    BY DEF SidecarTrue
  <2>1. Side(c) /\ ~Fetching(c)
    BY DEF IInv, Made, Fetching
  <2>2. QED
    BY <2>1 DEF Side, Told
<1>2. QED
  BY <1>1, Inductive, PTL

\* A connected tab shows the title of the row once its writers are done
\* (_broadcast_effective_title and the seed of useSurfaceSocket).
THEOREM TabsTell == Spec => []TabTitleTrue
<1>1. IInv => TabTitleTrue
  <2> SUFFICES ASSUME IInv, NEW t \in Tabs, NEW c, c = tab[t].chat,
                      tab[t].open, tab[t].seed = "done", ~tab[t].missed,
                      ~Retitling(c), "tab" \notin spoilt[c]
               PROVE  tab[t].title = EffectiveTitle(c)
    BY DEF TabTitleTrue
  <2>1. ~Pending(c)
    BY DEF IInv, Known, JobOk, Pending, Retitling, Of
  <2>2. QED
    BY <2>1 DEF IInv, Shows
<1>2. QED
  BY <1>1, Inductive, PTL
=============================================================================
