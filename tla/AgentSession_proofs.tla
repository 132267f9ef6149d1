------------------------- MODULE AgentSession_proofs -------------------------
(***************************************************************************)
(* Proofs about AgentSession for any turns, tasks, faults and bounds: type *)
(* correctness, that a skipped turn never runs, that no turn runs twice,   *)
(* that the list of waiting messages is true, that the session implements  *)
(* TurnQueue, that no prompt is sent again once some of its reply was      *)
(* shown, and that a reply is shown under another prompt only after a      *)
(* response was left unread or the CLI spoke ahead of a prompt.            *)
(*                                                                         *)
(* SkippedNeverRuns and RunsOnce are not inductive by themselves: they     *)
(* rest on where the session keeps a turn.  PlacesInv says a turn is in at *)
(* most one of the five places (the queue, the idle wait's result, the     *)
(* deferral slot, the hand of the owner task, the list of turns run), and  *)
(* SkipInv that a skip mark stays until the turn it belongs to is popped.  *)
(*                                                                         *)
(* The refinement needs the order as well.  AheadInv says which place off  *)
(* the queue can be taken at which await, OrderInv that what is there was  *)
(* submitted before all that is queued, and MarksInv what may be marked or *)
(* pending.  QInv is their conjunction with the above.                     *)
(*                                                                         *)
(* Under which prompt a reply stands depends on what the shared stream may *)
(* hold.  MatchInv says: while a turn's response is read, the CLI is asked *)
(* for that turn alone and anything unasked comes after its end; at every  *)
(* other await nothing of a user turn is under way or unread.              *)
(***************************************************************************)
EXTENDS ReplyPairing, SequenceTheorems, TLAPS

USE CliAssumption, SessionAssumption

Unique(s) == \A i, j \in DOMAIN s : s[i] \in Turns /\ s[i] = s[j] => i = j

PlacesInv ==
    /\ Unique(queue) /\ Unique(ran)
    /\ \A t \in Turns :
         /\ Held(t) \/ t \in Elems(ran) => t \in Elems(submitted)
         /\ t \in Elems(ran) => ~Held(t)
         /\ t \in Elems(queue) => t # got /\ t # deferred /\ ~InHand(t)
         /\ t = got => t # deferred /\ ~InHand(t)
         /\ t = deferred => ~InHand(t)

SkipInv ==
    /\ pending \cup skipOk \subseteq Elems(submitted)
    /\ (pending \cup skipOk) \cap Elems(ran) = {}
    /\ \A t \in skipOk : Held(t) => t \in skipped

IInv == TypeOK /\ PlacesInv /\ SkipInv

-----------------------------------------------------------------------------
(* Facts about the elements of a sequence.                                 *)

\* Appending adds one element to the elements of a sequence.
LEMMA ElemsAppend ==
    ASSUME NEW S, NEW s \in Seq(S), NEW x \in S
    PROVE  Elems(Append(s, x)) = Elems(s) \cup {x}
BY DEF Elems

\* The head and the tail have the elements of a sequence between them.
LEMMA ElemsTail ==
    ASSUME NEW S, NEW s \in Seq(S), s # <<>>
    PROVE  /\ Elems(s) = {Head(s)} \cup Elems(Tail(s))
           /\ Head(s) \in S
           /\ Tail(s) \in Seq(S)
<1>1. /\ Head(s) = s[1]
      /\ Tail(s) \in Seq(S)
      /\ Len(Tail(s)) = Len(s) - 1
      /\ \A i \in 1 .. Len(Tail(s)) : Tail(s)[i] = s[i + 1]
  BY HeadTailProperties
<1>2. Elems(s) \subseteq {Head(s)} \cup Elems(Tail(s))
  <2> SUFFICES ASSUME NEW i \in 1 .. Len(s)
               PROVE  s[i] \in {Head(s)} \cup Elems(Tail(s))
    BY DEF Elems
  <2>1. CASE i = 1
    BY <1>1, <2>1
  <2>2. CASE i # 1
    <3>1. i - 1 \in 1 .. Len(Tail(s)) /\ Tail(s)[i - 1] = s[i]
      BY <1>1, <2>2
    <3>2. DOMAIN Tail(s) = 1 .. Len(Tail(s))
      BY <1>1, LenProperties
    <3>3. Tail(s)[i - 1] \in Elems(Tail(s))
      BY <3>1, <3>2 DEF Elems
    <3>4. QED
      BY <3>1, <3>3
  <2>3. QED
    BY <2>1, <2>2
<1>3. {Head(s)} \cup Elems(Tail(s)) \subseteq Elems(s)
  BY <1>1 DEF Elems
<1>4. QED
  BY <1>1, <1>2, <1>3

\* Appending a new element keeps a sequence without duplicates.
LEMMA UniqueAppend ==
    ASSUME NEW S, NEW s \in Seq(S), NEW x \in S,
           Unique(s), x \notin Turns \/ x \notin Elems(s)
    PROVE  Unique(Append(s, x))
BY DEF Unique, Elems

\* A tail has no duplicates, and its head is not in it.
LEMMA UniqueTail ==
    ASSUME NEW S, NEW s \in Seq(S), s # <<>>, Unique(s)
    PROVE  /\ Unique(Tail(s))
           /\ Head(s) \in Turns => Head(s) \notin Elems(Tail(s))
<1>1. /\ Head(s) = s[1]
      /\ Tail(s) \in Seq(S)
      /\ Len(Tail(s)) = Len(s) - 1
      /\ \A i \in 1 .. Len(Tail(s)) : Tail(s)[i] = s[i + 1]
  BY HeadTailProperties
<1>2. Unique(Tail(s))
  BY <1>1 DEF Unique
<1>3. ASSUME Head(s) \in Turns, NEW i \in 1 .. Len(Tail(s)), Tail(s)[i] = Head(s)
      PROVE  FALSE
  BY <1>1, <1>3 DEF Unique
<1>4. QED
  BY <1>1, <1>2, <1>3 DEF Elems

-----------------------------------------------------------------------------
(* Type correctness.                                                       *)

\* The initial state is typed.
LEMMA TypeInit == Init => TypeOK
<1> SUFFICES ASSUME Init
             PROVE  TypeOK
  OBVIOUS
<1>1. \A S : <<>> \in Seq(S)
  BY EmptySeq
<1>2. CliTypeOK
  BY <1>1 DEF Init, CliInit, CliTypeOK, Runs
<1>3. /\ queue \in Seq(Turns \union {Wake})
      /\ submitted \in Seq(Turns) /\ ran \in Seq(Turns)
  BY <1>1 DEF Init
<1>4. attempt \in 0 .. MaxAttempts
  BY DEF Init
<1>5. QED
  BY <1>2, <1>3, <1>4
  DEF Init, TypeOK, TurnTypeOK, TaskTypeOK, FlagTypeOK, RunTypeOK, TalkTypeOK

\* What the CLI does by itself keeps its own variables in their types.
LEMMA CliStepType ==
    ASSUME CliTypeOK, CliNext
    PROVE  CliTypeOK'
<1> USE DEF CliTypeOK, Runs
<1>1. \A r \in Runs : RunMsg("asst", r) \in Msg /\ RunMsg("result", r) \in Msg
                      /\ RunMsg("retryable", r) \in Msg /\ Eof \in Msg
  BY DEF RunMsg, Eof, Msg, TaskKinds, ResultKinds
<1>2. \A k \in Tasks : /\ TaskMsg("started", k) \in Msg
                       /\ TaskMsg("progress", k) \in Msg
                       /\ TaskMsg("done", k) \in Msg
  BY DEF TaskMsg, Msg, TaskKinds, ResultKinds
<1>3. CASE CliTakeQuery
  BY <1>3, HeadTailProperties DEF CliTakeQuery
<1>4. CASE CliReactToTask
  BY <1>4 DEF CliReactToTask
<1>5. CASE CliSay
  BY <1>1, <1>5 DEF CliSay, Emit
<1>6. CASE CliFinishRun
  BY <1>1, <1>6 DEF CliFinishRun, Emit
<1>7. CASE CliApiError
  BY <1>1, <1>7 DEF CliApiError, Emit
<1>8. CASE CliInterrupt
  <2>1. stream' \in Seq(Msg)
    BY <1>1, <1>8 DEF CliInterrupt, Emit
  <2>2. QED
    BY <1>8, <2>1 DEF CliInterrupt
<1>9. CASE CliExit
  <2>1. stream' \in Seq(Msg) /\ cliIn' \in Seq(Turns)
    BY <1>1, <1>9, EmptySeq DEF CliExit
  <2>2. QED
    BY <1>9, <2>1 DEF CliExit
<1>10. ASSUME NEW k \in Tasks, CliLaunchTask(k)
       PROVE  CliTypeOK'
  BY <1>2, <1>10 DEF CliLaunchTask, Emit
<1>11. ASSUME NEW k \in Tasks, CliTaskProgress(k)
       PROVE  CliTypeOK'
  BY <1>2, <1>11 DEF CliTaskProgress, Emit
<1>12. ASSUME NEW k \in Tasks, CliTaskDone(k)
       PROVE  CliTypeOK'
  <2>1. stream' \in Seq(Msg)
    <3>1. TaskMsg("done", k) \in Msg
      BY <1>2
    <3>2. stream' = Append(stream, TaskMsg("done", k)) \/ stream' = stream
      BY <1>12 DEF CliTaskDone, Emit
    <3>3. QED
      BY <3>1, <3>2
  <2>2. cliReact' \in BOOLEAN
    BY <1>12 DEF CliTaskDone
  <2>3. QED
    BY <1>12, <2>1, <2>2 DEF CliTaskDone
<1>13. QED
  BY <1>3, <1>4, <1>5, <1>6, <1>7, <1>8, <1>9, <1>10, <1>11, <1>12 DEF CliNext

\* So does what the daemon does to the CLI.
LEMMA CliCallsType ==
    ASSUME CliTypeOK
    PROVE  /\ CliOpen => CliTypeOK'
           /\ CliClose => CliTypeOK'
           /\ CliWriteInterrupt => CliTypeOK'
           /\ UNCHANGED cliVars => CliTypeOK'
           /\ \A t \in Turns : CliWriteQuery(t) => CliTypeOK'
           /\ CliRead => CliTypeOK' /\ Head(stream) \in Msg
<1> USE DEF CliTypeOK, Runs
<1>1. CliOpen => CliTypeOK'
  BY DEF CliOpen
<1>2. CliClose => CliTypeOK'
  BY EmptySeq DEF CliClose
<1>3. CliWriteInterrupt => CliTypeOK'
  BY DEF CliWriteInterrupt
<1>4. UNCHANGED cliVars => CliTypeOK'
  BY DEF cliVars
<1>5. \A t \in Turns : CliWriteQuery(t) => CliTypeOK'
  BY DEF CliWriteQuery
<1>6. CliRead => CliTypeOK' /\ Head(stream) \in Msg
  BY HeadTailProperties DEF CliRead, Rest
<1>7. QED
  BY <1>1, <1>2, <1>3, <1>4, <1>5, <1>6

\* A group of variables that a step leaves alone keeps its types.
LEMMA KeptTypes ==
    ASSUME TypeOK
    PROVE  /\ UNCHANGED turnVars => TurnTypeOK'
           /\ UNCHANGED taskVars => TaskTypeOK'
           /\ UNCHANGED flagVars => FlagTypeOK'
           /\ UNCHANGED runVars => RunTypeOK'
           /\ UNCHANGED talkVars => TalkTypeOK'
<1> USE DEF TypeOK
<1>1. UNCHANGED turnVars => TurnTypeOK'
  BY DEF turnVars, TurnTypeOK
<1>2. UNCHANGED taskVars => TaskTypeOK'
  BY DEF taskVars, TaskTypeOK
<1>3. UNCHANGED flagVars => FlagTypeOK'
  BY DEF flagVars, FlagTypeOK
<1>4. UNCHANGED runVars => RunTypeOK'
  BY DEF runVars, RunTypeOK
<1>5. UNCHANGED talkVars => TalkTypeOK'
  BY DEF talkVars, TalkTypeOK
<1>6. QED
  BY <1>1, <1>2, <1>3, <1>4, <1>5

\* What a message does to the running tasks, and what is shown of it.
LEMMA TrackTypes ==
    ASSUME TypeOK, NEW m \in Msg
    PROVE  /\ m.kind \in TaskKinds /\ Track(m) => TaskTypeOK' /\ noticed' \subseteq Tasks
           /\ Drop(m) => TaskTypeOK' /\ noticed' \subseteq Tasks
           /\ NoTrack => TaskTypeOK' /\ noticed' \subseteq Tasks
           /\ m.by \in Runs
<1> USE DEF TypeOK, TaskTypeOK, TalkTypeOK
<1>1. m.by \in Runs /\ (m.kind \in TaskKinds => m.task \in Tasks)
  BY DEF Msg, TaskKinds, ResultKinds, Runs
<1>2. ASSUME m.kind \in TaskKinds, Track(m)
      PROVE  TaskTypeOK' /\ noticed' \subseteq Tasks
  <2>1. tasks' \subseteq Tasks /\ noticed' \subseteq Tasks
    BY <1>1, <1>2 DEF Track, TasksAfter
  <2>2. stalled' \in BOOLEAN /\ indicator' \in BOOLEAN
    BY <1>2 DEF Track
  <2>3. QED
    BY <2>1, <2>2
<1>3. ASSUME Drop(m)
      PROVE  TaskTypeOK' /\ noticed' \subseteq Tasks
  <2>1. noticed' \subseteq Tasks
    BY <1>1, <1>3 DEF Drop, TaskKinds
  <2>2. TaskTypeOK'
    BY <1>3 DEF Drop, taskVars
  <2>3. QED
    BY <2>1, <2>2
<1>4. NoTrack => TaskTypeOK' /\ noticed' \subseteq Tasks
  BY DEF NoTrack, taskVars
<1>5. QED
  BY <1>1, <1>2, <1>3, <1>4

\* What the handler of an idle message may change stays typed.
LEMMA HandleIdleTypes ==
    ASSUME TypeOK, NEW m \in Msg, HandleIdle(m)
    PROVE  /\ TaskTypeOK' /\ TalkTypeOK'
           /\ pc' \in {"bgstart", "loop"} /\ cur' = None
           /\ UNCHANGED <<attempt, relayed>>
<1>1. TaskTypeOK' /\ noticed' \subseteq Tasks /\ m.by \in Runs
  BY TrackTypes DEF HandleIdle
<1>2. sdk' \in BOOLEAN /\ resume' \in BOOLEAN
  BY DEF HandleIdle, TypeOK, TalkTypeOK
<1>3. relays' \subseteq Runs \X (Turns \union {Unprompted})
  BY <1>1 DEF HandleIdle, TypeOK, TalkTypeOK
<1>4. QED
  BY <1>1, <1>2, <1>3 DEF HandleIdle, TalkTypeOK

\* Every step keeps the types.
LEMMA TypeStep == TypeOK /\ [Next]_vars => TypeOK'
<1> SUFFICES ASSUME TypeOK, [Next]_vars
             PROVE  TypeOK'
  OBVIOUS
<1> USE KeptTypes, CliCallsType DEF TypeOK
<1>1. ASSUME NEW t \in Turns, Enqueue(t)
      PROVE  TypeOK'
  <2>1. TurnTypeOK'
    BY <1>1 DEF Enqueue, TurnTypeOK
  <2>2. QED
    BY <1>1, <2>1 DEF Enqueue
<1>2. ASSUME NEW t \in Turns, Skip(t)
      PROVE  TypeOK'
  <2>1. TurnTypeOK'
    BY <1>2 DEF Skip, TurnTypeOK, DropPending
  <2>2. QED
    BY <1>2, <2>1 DEF Skip
<1>3. CASE Interrupt
  <2>1. FlagTypeOK'
    BY <1>3 DEF Interrupt, FlagTypeOK
  <2>2. QED
    BY <1>3, <2>1 DEF Interrupt
<1>4. CASE Reconnect
  <2>1. TurnTypeOK'
    <3>1. ArmReconnect => TurnTypeOK'
      BY DEF ArmReconnect, TurnTypeOK
    <3>2. QED
      BY <1>4, <3>1 DEF Reconnect
  <2>2. FlagTypeOK'
    <3>1. reconnects' \in Nat /\ stops' \in Nat
      BY <1>4 DEF Reconnect, FlagTypeOK
    <3>2. reconnectPending' \in BOOLEAN /\ interrupting' \in BOOLEAN /\ asking' \in BOOLEAN
      BY <1>4 DEF Reconnect, ArmReconnect, FlagTypeOK
    <3>3. QED
      BY <3>1, <3>2 DEF FlagTypeOK
  <2>3. QED
    BY <1>4, <2>1, <2>2 DEF Reconnect, ArmReconnect
<1>5. CASE ReconnectInterrupted
  <2>1. TurnTypeOK'
    BY <1>5 DEF ReconnectInterrupted, ArmReconnect, TurnTypeOK
  <2>2. FlagTypeOK'
    BY <1>5 DEF ReconnectInterrupted, ArmReconnect, FlagTypeOK
  <2>3. QED
    BY <1>5, <2>1, <2>2 DEF ReconnectInterrupted, ArmReconnect
<1>6. CASE Connect
  <2>1. RunTypeOK'
    BY <1>6 DEF Connect, RunTypeOK
  <2>2. QED
    BY <1>6, <2>1 DEF Connect
<1>7. CASE ConnectFails
  <2>1. TurnTypeOK'
    BY <1>7 DEF ConnectFails, ServeRaises, ServeFails, TurnTypeOK
  <2>2. TaskTypeOK'
    BY <1>7 DEF ConnectFails, ServeRaises, ServeFails, TaskTypeOK, AbandonTasks, taskVars
  <2>3. RunTypeOK'
    BY <1>7 DEF ConnectFails, ServeRaises, ServeFails, RunTypeOK
  <2>4. TalkTypeOK'
    BY <1>7 DEF ConnectFails, ServeRaises, ServeFails, TalkTypeOK
  <2>5. QED
    BY <1>7, <2>1, <2>2, <2>3, <2>4 DEF ConnectFails, ServeRaises, ServeFails
<1>8. CASE LeaveForReconnect
  <2>1. FlagTypeOK'
    BY <1>8 DEF LeaveForReconnect, FlagTypeOK, ClearReconnect
  <2>2. RunTypeOK'
    BY <1>8 DEF LeaveForReconnect, RunTypeOK
  <2>3. QED
    BY <1>8, <2>1, <2>2 DEF LeaveForReconnect
<1>9. CASE Reopen
  <2>1. TaskTypeOK'
    BY <1>9 DEF Reopen, TaskTypeOK, AbandonTasks
  <2>2. RunTypeOK'
    BY <1>9 DEF Reopen, RunTypeOK
  <2>3. TalkTypeOK'
    BY <1>9 DEF Reopen, TalkTypeOK
  <2>4. QED
    BY <1>9, <2>1, <2>2, <2>3 DEF Reopen
<1>10. CASE RunDeferred
  <2>1. TurnTypeOK'
    BY <1>10 DEF RunDeferred, StartTurn, TurnTypeOK, Unmark, DropPending, ClearDeferred
  <2>2. TaskTypeOK'
    BY <1>10 DEF RunDeferred, StartTurn, TaskTypeOK, TurnTypeOK
  <2>3. RunTypeOK'
    BY <1>10 DEF RunDeferred, StartTurn, RunTypeOK, TurnTypeOK
  <2>4. QED
    BY <1>10, <2>1, <2>2, <2>3 DEF RunDeferred, StartTurn
<1>11. CASE RunDequeued
  <2>1. cur \in Turns
    BY <1>11 DEF RunDequeued, RunTypeOK
  <2>2. ran' \in Seq(Turns)
    <3>1. ran \in Seq(Turns)
      BY DEF TurnTypeOK
    <3>2. ran' \in {ran, Append(ran, cur)}
      BY <1>11 DEF RunDequeued, StartTurn
    <3>3. QED
      BY <2>1, <3>1, <3>2
  <2>3. TurnTypeOK'
    BY <1>11, <2>2 DEF RunDequeued, StartTurn, TurnTypeOK, Unmark, DropPending
  <2>4. TaskTypeOK'
    BY <1>11 DEF RunDequeued, StartTurn, TaskTypeOK
  <2>5. RunTypeOK'
    BY <1>11, <2>1 DEF RunDequeued, StartTurn, RunTypeOK
  <2>6. QED
    BY <1>11, <2>3, <2>4, <2>5 DEF RunDequeued, StartTurn
<1>12. CASE HandleHeldBack
  <2>1. heldBack \in Msg
    BY <1>12 DEF HandleHeldBack, RunTypeOK
  <2>2. RunTypeOK'
    BY <1>12, <2>1, HandleIdleTypes DEF HandleHeldBack, RunTypeOK
  <2>3. QED
    BY <1>12, <2>1, <2>2, HandleIdleTypes DEF HandleHeldBack
<1>13. CASE BeginWait
  <2>1. RunTypeOK'
    BY <1>13 DEF BeginWait, RunTypeOK
  <2>2. QED
    BY <1>13, <2>1 DEF BeginWait
<1>14. CASE GetTask
  <2>1. TurnTypeOK'
    BY <1>14, ElemsTail DEF GetTask, TurnTypeOK
  <2>2. QED
    BY <1>14, <2>1 DEF GetTask
<1>15. CASE RecvTask
  <2>1. RunTypeOK'
    BY <1>15 DEF RecvTask, RunTypeOK
  <2>2. QED
    BY <1>15, <2>1 DEF RecvTask
<1>16. CASE WakeWithMessage
  <2>1. recvd \in Msg
    BY <1>16 DEF WakeWithMessage, RunTypeOK
  <2>2. TurnTypeOK'
    BY <1>16 DEF WakeWithMessage, TurnTypeOK, Defer
  <2>3. RunTypeOK'
    BY <1>16, <2>1, HandleIdleTypes DEF WakeWithMessage, RunTypeOK
  <2>4. QED
    BY <1>16, <2>1, <2>2, <2>3, HandleIdleTypes DEF WakeWithMessage
<1>17. CASE WakeWithEof
  <2>1. TurnTypeOK'
    BY <1>17 DEF WakeWithEof, ServeRaises, ServeFails, TurnTypeOK, Defer
  <2>2. TaskTypeOK'
    BY <1>17 DEF WakeWithEof, ServeRaises, ServeFails, TaskTypeOK, AbandonTasks, taskVars
  <2>3. FlagTypeOK'
    BY <1>17 DEF WakeWithEof, ServeRaises, ServeFails, FlagTypeOK, flagVars
  <2>4. RunTypeOK'
    BY <1>17 DEF WakeWithEof, ServeRaises, ServeFails, RunTypeOK
  <2>5. TalkTypeOK'
    BY <1>17 DEF WakeWithEof, ServeRaises, ServeFails, TalkTypeOK
  <2>6. QED
    BY <1>17, <2>1, <2>2, <2>3, <2>4, <2>5 DEF WakeWithEof, ServeRaises, ServeFails
<1>18. CASE WakeWithTurn
  <2>1. TurnTypeOK'
    BY <1>18 DEF WakeWithTurn, TurnTypeOK
  <2>2. RunTypeOK'
    BY <1>18 DEF WakeWithTurn, RunTypeOK, CancelRecv, TurnTypeOK
  <2>3. QED
    BY <1>18, <2>1, <2>2 DEF WakeWithTurn, CancelRecv
<1>19. CASE TimerFires
  <2>1. RunTypeOK'
    BY <1>19 DEF TimerFires, RunTypeOK
  <2>2. QED
    BY <1>19, <2>1 DEF TimerFires
<1>20. CASE StallTasks
  <2>1. TaskTypeOK'
    BY <1>20 DEF StallTasks, TaskTypeOK, MarkStalled
  <2>2. RunTypeOK'
    BY <1>20 DEF StallTasks, RunTypeOK, CancelRecv
  <2>3. QED
    BY <1>20, <2>1, <2>2 DEF StallTasks, CancelRecv
<1>21. CASE IdleClose
  <2>1. RunTypeOK'
    BY <1>21 DEF IdleClose, RunTypeOK
  <2>2. QED
    BY <1>21, <2>1 DEF IdleClose
<1>22. CASE BeginTurn
  <2>1. FlagTypeOK'
    BY <1>22 DEF BeginTurn, FlagTypeOK
  <2>2. RunTypeOK'
    <3>1. attempt' \in 0 .. MaxAttempts /\ relayed' = FALSE
      BY <1>22 DEF BeginTurn
    <3>2. QED
      BY <1>22, <3>1 DEF BeginTurn, RunTypeOK, Goto
  <2>3. QED
    BY <1>22, <2>1, <2>2 DEF BeginTurn
<1>23. CASE RecordFails
  <2>1. TurnTypeOK'
    BY <1>23 DEF RecordFails, ServeRaises, ServeFails, TurnTypeOK
  <2>2. TaskTypeOK'
    BY <1>23 DEF RecordFails, ServeRaises, ServeFails, TaskTypeOK, AbandonTasks, taskVars
  <2>3. RunTypeOK'
    BY <1>23 DEF RecordFails, ServeRaises, ServeFails, RunTypeOK
  <2>4. TalkTypeOK'
    BY <1>23 DEF RecordFails, ServeRaises, ServeFails, TalkTypeOK
  <2>5. QED
    BY <1>23, <2>1, <2>2, <2>3, <2>4 DEF RecordFails, ServeRaises, ServeFails
<1>24. CASE SendQuery
  <2>1. RunTypeOK'
    BY <1>24 DEF SendQuery, RunTypeOK, Goto
  <2>2. QED
    BY <1>24, <2>1 DEF SendQuery, RunTypeOK
<1>25. CASE InterruptSeen
  <2>1. Head(stream) \in Msg
    BY <1>25 DEF InterruptSeen
  <2>2. TaskTypeOK' /\ TalkTypeOK'
    BY <1>25, <2>1, TrackTypes DEF InterruptSeen, TalkTypeOK
  <2>3. RunTypeOK'
    BY <1>25 DEF InterruptSeen, RunTypeOK, Goto, AfterInterrupt
  <2>4. QED
    BY <1>25, <2>2, <2>3 DEF InterruptSeen
<1>26. CASE StreamTaskMessage
  <2>1. Head(stream) \in Msg
    BY <1>26 DEF StreamTaskMessage
  <2>2. TaskTypeOK' /\ TalkTypeOK'
    BY <1>26, <2>1, TrackTypes DEF StreamTaskMessage, TalkTypeOK
  <2>3. QED
    BY <1>26, <2>2 DEF StreamTaskMessage
<1>27. CASE StreamAssistant
  <2>1. RunTypeOK'
    BY <1>27 DEF StreamAssistant, RunTypeOK
  <2>2. TalkTypeOK'
    <3>1. Head(stream).by \in Runs
      BY <1>27, TrackTypes DEF StreamAssistant
    <3>2. Under \in Turns \union {Unprompted}
      BY <1>27 DEF StreamAssistant, Under, RunTypeOK
    <3>3. QED
      BY <1>27, <3>1, <3>2 DEF StreamAssistant, TalkTypeOK
  <2>3. QED
    BY <1>27, <2>1, <2>2 DEF StreamAssistant
<1>28. CASE StreamResult
  <2>1. RunTypeOK'
    BY <1>28 DEF StreamResult, RunTypeOK, Goto
  <2>2. TalkTypeOK'
    BY <1>28 DEF StreamResult, TalkTypeOK
  <2>3. QED
    BY <1>28, <2>1, <2>2 DEF StreamResult
<1>29. CASE StreamRetry
  <2>1. RunTypeOK'
    BY <1>29 DEF StreamRetry, RunTypeOK, Goto, MayRetry
  <2>2. QED
    BY <1>29, <2>1 DEF StreamRetry
<1>30. CASE BackoffOver
  <2>1. RunTypeOK'
    <3>1. attempt' \in 0 .. MaxAttempts /\ relayed' = FALSE
      BY <1>30 DEF BackoffOver, RunTypeOK
    <3>2. QED
      BY <1>30, <3>1 DEF BackoffOver, RunTypeOK, Goto
  <2>2. QED
    BY <1>30, <2>1 DEF BackoffOver
<1>31. CASE BeginBackground
  <2>1. FlagTypeOK'
    BY <1>31 DEF BeginBackground, FlagTypeOK
  <2>2. RunTypeOK'
    BY <1>31 DEF BeginBackground, RunTypeOK, Goto
  <2>3. QED
    BY <1>31, <2>1, <2>2 DEF BeginBackground
<1>32. CASE DrainMessage
  <2>1. RunTypeOK'
    BY <1>32 DEF DrainMessage, RunTypeOK, Goto
  <2>2. QED
    BY <1>32, <2>1 DEF DrainMessage
<1>33. CASE DrainTimeout
  <2>1. TaskTypeOK'
    BY <1>33 DEF DrainTimeout, TaskTypeOK, AbandonTasks
  <2>2. RunTypeOK'
    BY <1>33 DEF DrainTimeout, RunTypeOK, Goto
  <2>3. QED
    BY <1>33, <2>1, <2>2 DEF DrainTimeout
<1>34. CASE FinishTurn
  <2>1. RunTypeOK'
    BY <1>34 DEF FinishTurn, RunTypeOK
  <2>2. QED
    BY <1>34, <2>1 DEF FinishTurn
<1>35. CASE Shutdown
  <2>1. TurnTypeOK'
    BY <1>35 DEF Shutdown, TurnTypeOK
  <2>2. RunTypeOK'
    BY <1>35 DEF Shutdown, RunTypeOK
  <2>3. QED
    BY <1>35, <2>1, <2>2 DEF Shutdown
<1>36. CASE EndSession
  <2>1. TaskTypeOK'
    BY <1>36 DEF EndSession, TaskTypeOK
  <2>2. RunTypeOK'
    BY <1>36 DEF EndSession, RunTypeOK
  <2>3. QED
    BY <1>36, <2>1, <2>2 DEF EndSession
<1>37. CASE Cli
  BY <1>37, CliStepType DEF Cli, SessVars
<1>38. CASE UNCHANGED vars
  BY <1>38 DEF vars
<1>39. CASE ReportFails
  <2>1. TurnTypeOK'
    BY <1>39 DEF ReportFails, ServeRaises, ServeFails, TurnTypeOK
  <2>2. TaskTypeOK'
    BY <1>39 DEF ReportFails, ServeRaises, ServeFails, TaskTypeOK, AbandonTasks, taskVars
  <2>3. RunTypeOK'
    BY <1>39 DEF ReportFails, ServeRaises, ServeFails, RunTypeOK
  <2>4. TalkTypeOK'
    BY <1>39 DEF ReportFails, ServeRaises, ServeFails, TalkTypeOK
  <2>5. QED
    BY <1>39, <2>1, <2>2, <2>3, <2>4 DEF ReportFails, ServeRaises, ServeFails
<1>40. CASE IdleResultFails
  <2>1. TurnTypeOK'
    BY <1>40 DEF IdleResultFails, ServeFails, TurnTypeOK, Defer
  <2>2. TaskTypeOK'
    BY <1>40 DEF IdleResultFails, ServeFails, TaskTypeOK, AbandonTasks, taskVars
  <2>3. RunTypeOK'
    BY <1>40 DEF IdleResultFails, ServeFails, RunTypeOK
  <2>4. TalkTypeOK'
    BY <1>40 DEF IdleResultFails, ServeFails, TalkTypeOK
  <2>5. QED
    BY <1>40, <2>1, <2>2, <2>3, <2>4 DEF IdleResultFails, ServeFails
<1>41. CASE RelayFails
  <2>1. RunTypeOK'
    BY <1>41 DEF RelayFails, RunTypeOK, Goto
  <2>2. TalkTypeOK'
    <3>1. Head(stream).by \in Runs
      BY <1>41, TrackTypes DEF RelayFails
    <3>2. Under \in Turns \union {Unprompted}
      BY <1>41 DEF RelayFails, Under, RunTypeOK
    <3>3. QED
      BY <1>41, <3>1, <3>2 DEF RelayFails, TalkTypeOK
  <2>3. QED
    BY <1>41, <2>1, <2>2 DEF RelayFails
<1>42. CASE ReportError
  <2>1. RunTypeOK'
    BY <1>42 DEF ReportError, RunTypeOK, Goto
  <2>2. QED
    BY <1>42, <2>1 DEF ReportError
<1>43. QED
  BY <1>1, <1>2, <1>3, <1>4, <1>5, <1>6, <1>7, <1>8, <1>9, <1>10, <1>11,
     <1>12, <1>13, <1>14, <1>15, <1>16, <1>17, <1>18, <1>19, <1>20, <1>21,
     <1>22, <1>23, <1>24, <1>25, <1>26, <1>27, <1>28, <1>29, <1>30, <1>31,
     <1>32, <1>33, <1>34, <1>35, <1>36, <1>37, <1>38, <1>39, <1>40, <1>41, <1>42
  DEF Next, Handlers, Owner, Ended

\* Every variable keeps its type (the fields of AgentSession and the locals of
\* its owner task), whatever the CLI, the users and the timers do.
THEOREM TypeCorrect == Spec => []TypeOK
<1>1. Init => TypeOK
  BY TypeInit
<1>2. TypeOK /\ [Next]_vars => TypeOK'
  BY TypeStep
<1>3. QED
  BY <1>1, <1>2, PTL DEF Spec
-----------------------------------------------------------------------------
(* Where a turn is, and what a skip mark is worth.                         *)

\* At the start no turn is anywhere.
LEMMA PlacesInit == Init => PlacesInv /\ SkipInv
BY DEF Init, PlacesInv, SkipInv, Held, InHand, Unique, Elems

\* A step that moves a turn out of the idle wait's result, or lets it go, and
\* touches no other place, keeps both invariants.
LEMMA PlacesMoved ==
    ASSUME TypeOK, PlacesInv, SkipInv,
           UNCHANGED <<queue, pending, skipped, submitted, ran, skipOk>>,
           got' \in {got, None},
           deferred' \in {deferred, got, None},
           deferred' = got /\ got \in Turns => got' = None,
           \A t \in Turns : InHand(t)' =>
               InHand(t) \/ (t = got /\ got' = None /\ deferred' # got)
    PROVE  PlacesInv' /\ SkipInv'
<1>1. /\ Elems(queue)' = Elems(queue) /\ Elems(ran)' = Elems(ran)
      /\ Elems(submitted)' = Elems(submitted)
      /\ Unique(queue)' = Unique(queue) /\ Unique(ran)' = Unique(ran)
  BY DEF Elems, Unique
<1>2. \A t \in Turns : Held(t)' => Held(t)
  BY <1>1 DEF Held
<1>3. PlacesInv'
  BY <1>1, <1>2 DEF PlacesInv, Held
<1>4. SkipInv'
  <2>1. (pending \cup skipOk)' = pending \cup skipOk
    OBVIOUS
  <2>2. \A t \in skipOk' : Held(t)' => t \in skipped'
    BY <1>2 DEF SkipInv, TypeOK, TurnTypeOK
  <2>3. QED
    BY <1>1, <2>1, <2>2 DEF SkipInv
<1>5. QED
  BY <1>3, <1>4
\* A step that leaves the turns where they are.
LEMMA PlacesKept ==
    ASSUME TypeOK, PlacesInv, SkipInv, UNCHANGED turnVars,
           pc' # "dequeued" \/ (pc' = pc /\ cur' = cur)
    PROVE  PlacesInv' /\ SkipInv'
<1>1. \A t \in Turns : InHand(t)' => InHand(t)
  BY DEF InHand
<1>2. /\ UNCHANGED <<queue, pending, skipped, submitted, ran, skipOk>>
      /\ got' = got /\ deferred' = deferred
  BY DEF turnVars
<1>3. deferred' = got /\ got \in Turns => got' = None
  BY <1>2 DEF PlacesInv
<1>4. QED
  BY <1>1, <1>2, <1>3, PlacesMoved

\* The head of _run_turn: the turn leaves the place that held it and is either
\* dropped, because of its skip mark, or put on the list of turns run.
LEMMA PlacesStarted ==
    ASSUME TypeOK, PlacesInv, SkipInv, NEW t \in Turns,
           Held(t), StartTurn(t), ~Held(t)', deferred' \in {deferred, None}
    PROVE  PlacesInv' /\ SkipInv'
<1>1. /\ Elems(queue)' = Elems(queue) /\ Elems(submitted)' = Elems(submitted)
      /\ Unique(queue)' = Unique(queue) /\ got' = got
  BY DEF StartTurn, Elems, Unique
<1>2. \A u \in Turns : ~InHand(u)'
  BY DEF StartTurn, InHand
<1>3. \A u \in Turns : Held(u)' => Held(u) /\ u # t
  BY <1>1, <1>2 DEF Held
<1>4. t \notin Elems(ran) /\ t \in Elems(submitted)
  BY DEF PlacesInv
<1>5. \/ ran' = ran
      \/ ran' = Append(ran, t) /\ t \notin skipped
  BY DEF StartTurn, WasSkipped
<1>6. Elems(ran)' \subseteq Elems(ran) \cup {t} /\ Unique(ran)'
  <2>1. CASE ran' = ran
    BY <2>1 DEF PlacesInv, Unique, Elems
  <2>2. CASE ran' = Append(ran, t)
    <3>1. ran \in Seq(Turns)
      BY DEF TypeOK, TurnTypeOK
    <3>2. Unique(Append(ran, t)) /\ Elems(Append(ran, t)) = Elems(ran) \cup {t}
      BY <1>4, <3>1, UniqueAppend, ElemsAppend DEF PlacesInv
    <3>3. Elems(ran)' = Elems(Append(ran, t)) /\ Unique(ran)' = Unique(Append(ran, t))
      BY <2>2 DEF Elems, Unique
    <3>4. QED
      BY <3>2, <3>3
  <2>3. QED
    BY <1>5, <2>1, <2>2
<1>7. PlacesInv'
  BY <1>1, <1>2, <1>3, <1>4, <1>6 DEF PlacesInv, Held
<1>8. SkipInv'
  <2>1. pending' = pending \ {t} /\ skipOk' = skipOk /\ skipped' = skipped \ {t}
    BY DEF StartTurn, DropPending, Unmark
  <2>2. t \in Elems(ran)' => t \notin skipOk'
    BY <1>4, <1>5, <2>1 DEF SkipInv, Elems
  <2>3. \A u \in skipOk' : Held(u)' => u \in skipped'
    BY <1>3, <2>1 DEF SkipInv, TypeOK, TurnTypeOK
  <2>4. (pending \cup skipOk)' \cap Elems(ran)' = {}
    BY <1>6, <2>1, <2>2 DEF SkipInv
  <2>5. QED
    BY <1>1, <2>1, <2>3, <2>4 DEF SkipInv
<1>9. QED
  BY <1>7, <1>8

\* Appending to the queue a marker, or a turn not seen before.
LEMMA PlacesQueued ==
    ASSUME TypeOK, PlacesInv, SkipInv, NEW x \in Turns \cup {Wake},
           queue' = Append(queue, x),
           x \in Turns => x \notin Elems(submitted) /\ submitted' = Append(submitted, x),
           x = Wake => UNCHANGED submitted,
           pending' \subseteq pending \cup ({x} \cap Turns),
           UNCHANGED <<skipped, deferred, got, ran, skipOk, pc, cur>>
    PROVE  PlacesInv' /\ SkipInv'
<1> USE DEF TypeOK, TurnTypeOK
<1>1. Elems(queue)' = Elems(queue) \cup {x}
  <2>1. Elems(Append(queue, x)) = Elems(queue) \cup {x}
    BY ElemsAppend
  <2>2. QED
    BY <2>1 DEF Elems
<1>2. Elems(submitted)' = Elems(submitted) \cup ({x} \cap Turns)
  <2>1. x \in Turns => Elems(Append(submitted, x)) = Elems(submitted) \cup {x}
    BY ElemsAppend
  <2>2. x = Wake => Elems(submitted)' = Elems(submitted)
    BY DEF Elems
  <2>3. x \in Turns => Elems(submitted)' = Elems(Append(submitted, x))
    BY DEF Elems
  <2>4. QED
    BY <2>1, <2>2, <2>3
<1>3. Elems(ran)' = Elems(ran) /\ Unique(ran)' = Unique(ran)
  BY DEF Elems, Unique
<1>4. x \in Turns => x \notin Elems(queue) /\ ~Held(x) /\ x \notin Elems(ran)
  BY DEF PlacesInv, Held
<1>5. Unique(queue)'
  <2>1. Unique(Append(queue, x))
    BY <1>4, UniqueAppend DEF PlacesInv
  <2>2. QED
    BY <2>1 DEF Unique
<1>6. \A t \in Turns : Held(t)' <=> Held(t) \/ t = x
  BY <1>1 DEF Held, InHand
<1>7. PlacesInv'
  BY <1>1, <1>2, <1>3, <1>4, <1>5, <1>6 DEF PlacesInv, Held, InHand
<1>8. SkipInv'
  <2>1. (pending \cup skipOk)' \subseteq Elems(submitted)'
    BY <1>2 DEF SkipInv
  <2>2. (pending \cup skipOk)' \cap Elems(ran)' = {}
    BY <1>3, <1>4 DEF SkipInv
  <2>3. \A t \in skipOk' : Held(t)' => t \in skipped'
    BY <1>6 DEF SkipInv
  <2>4. QED
    BY <2>1, <2>2, <2>3 DEF SkipInv
<1>9. QED
  BY <1>7, <1>8

\* Every step moves a turn from one place to another.
LEMMA PlacesStep == IInv /\ [Next]_vars => PlacesInv' /\ SkipInv'
<1> SUFFICES ASSUME TypeOK, PlacesInv, SkipInv, [Next]_vars
             PROVE  PlacesInv' /\ SkipInv'
  BY DEF IInv
<1>1. ASSUME NEW t \in Turns, Enqueue(t)
      PROVE  PlacesInv' /\ SkipInv'
  BY <1>1, PlacesQueued DEF Enqueue, runVars
<1>2. ASSUME NEW t \in Turns, Skip(t)
      PROVE  PlacesInv' /\ SkipInv'
  <2>1. /\ Elems(queue)' = Elems(queue) /\ Elems(ran)' = Elems(ran)
        /\ Elems(submitted)' = Elems(submitted)
        /\ Unique(queue)' = Unique(queue) /\ Unique(ran)' = Unique(ran)
        /\ \A u \in Turns : Held(u)' <=> Held(u)
    BY <1>2 DEF Skip, runVars, Held, InHand, Elems, Unique
  <2>2. t \in Elems(submitted) /\ t \notin Elems(ran)
    BY <1>2 DEF Skip, SkipInv
  <2>3. PlacesInv'
    BY <1>2, <2>1 DEF Skip, runVars, PlacesInv, Held, InHand
  <2>4. SkipInv'
    BY <1>2, <2>1, <2>2 DEF Skip, DropPending, SkipInv, TypeOK, TurnTypeOK
  <2>5. QED
    BY <2>3, <2>4
<1>3. CASE Reconnect
  <2>1. CASE TurnActive
    BY <1>3, <2>1, PlacesKept DEF Reconnect, runVars
  <2>2. CASE ~TurnActive
    BY <1>3, <2>2, PlacesQueued DEF Reconnect, ArmReconnect, runVars
  <2>3. QED
    BY <2>1, <2>2
<1>4. CASE ReconnectInterrupted
  BY <1>4, PlacesQueued DEF ReconnectInterrupted, ArmReconnect, runVars
<1>5. CASE RunDeferred
  <2>1. PICK t \in Turns : t = deferred
    BY <1>5 DEF RunDeferred, TypeOK, TurnTypeOK
  <2>2. Held(t) /\ StartTurn(t) /\ deferred' = None
    BY <1>5, <2>1 DEF RunDeferred, ClearDeferred, Held
  <2>3. t \notin Elems(queue) /\ t # got
    BY <2>1 DEF PlacesInv
  <2>4. Elems(queue)' = Elems(queue) /\ got' = got /\ pc' # "dequeued"
    BY <2>2 DEF StartTurn, Elems
  <2>5. ~Held(t)'
    BY <2>2, <2>3, <2>4 DEF Held, InHand
  <2>6. QED
    BY <2>2, <2>5, PlacesStarted
<1>6. CASE RunDequeued
  <2>1. PICK t \in Turns : t = cur
    BY <1>6 DEF RunDequeued, TypeOK, RunTypeOK
  <2>2. InHand(t) /\ StartTurn(t) /\ deferred' = deferred
    BY <1>6, <2>1 DEF RunDequeued, InHand
  <2>3. Held(t) /\ t \notin Elems(queue) /\ t # got /\ t # deferred
    BY <2>2 DEF PlacesInv, Held
  <2>4. Elems(queue)' = Elems(queue) /\ got' = got /\ pc' # "dequeued"
    BY <2>2 DEF StartTurn, Elems
  <2>5. ~Held(t)'
    BY <2>2, <2>3, <2>4 DEF Held, InHand
  <2>6. QED
    BY <2>2, <2>3, <2>5, PlacesStarted
<1>7. CASE GetTask
  <2>1. queue \in Seq(Turns \cup {Wake}) /\ queue # <<>>
    BY <1>7 DEF GetTask, TypeOK, TurnTypeOK
  <2>2. /\ Elems(queue) = {Head(queue)} \cup Elems(Tail(queue))
        /\ Unique(Tail(queue))
        /\ Head(queue) \in Turns => Head(queue) \notin Elems(Tail(queue))
    BY <2>1, ElemsTail, UniqueTail DEF PlacesInv
  <2>3. /\ Elems(queue)' = Elems(Tail(queue)) /\ Unique(queue)' = Unique(Tail(queue))
        /\ Elems(ran)' = Elems(ran) /\ Unique(ran)' = Unique(ran)
        /\ Elems(submitted)' = Elems(submitted)
        /\ got' = Head(queue) /\ deferred' = deferred
        /\ \A t \in Turns : ~InHand(t) /\ ~InHand(t)'
    BY <1>7 DEF GetTask, runVars, InHand, Elems, Unique
  <2>4. \A t \in Turns : Held(t)' => Held(t)
    BY <2>2, <2>3 DEF Held
  <2>5. PlacesInv'
    BY <2>2, <2>3, <2>4 DEF PlacesInv, Held
  <2>6. SkipInv'
    BY <1>7, <2>3, <2>4 DEF GetTask, SkipInv, TypeOK, TurnTypeOK
  <2>7. QED
    BY <2>5, <2>6
<1>8. CASE WakeWithTurn
  <2>1. /\ UNCHANGED <<queue, pending, skipped, submitted, ran, skipOk>>
        /\ got' = None /\ deferred' = deferred /\ pc = "idle"
        /\ pc' = "dequeued" => cur' = got
    BY <1>8 DEF WakeWithTurn
  <2>2. \A t \in Turns : InHand(t)' => t = got /\ deferred' # got
    BY <2>1 DEF InHand, PlacesInv
  <2>3. QED
    BY <2>1, <2>2, PlacesMoved
<1>9. CASE ConnectFails
  BY <1>9, PlacesMoved DEF ConnectFails, ServeRaises, ServeFails, InHand, TypeOK, TurnTypeOK
<1>10. CASE RecordFails
  BY <1>10, PlacesMoved DEF RecordFails, ServeRaises, ServeFails, InHand, TypeOK, TurnTypeOK
<1>11. CASE WakeWithMessage
  BY <1>11, PlacesMoved DEF WakeWithMessage, Defer, HandleIdle, InHand, PlacesInv, TypeOK, TurnTypeOK
<1>12. CASE WakeWithEof
  BY <1>12, PlacesMoved DEF WakeWithEof, Defer, ServeRaises, ServeFails, InHand, TypeOK, TurnTypeOK
<1>13. CASE Shutdown
  BY <1>13, PlacesMoved DEF Shutdown, InHand, TypeOK, TurnTypeOK
<1>14. CASE Interrupt
  BY <1>14, PlacesKept DEF Interrupt, runVars
<1>15. CASE Connect
  BY <1>15, PlacesKept DEF Connect
<1>16. CASE LeaveForReconnect
  BY <1>16, PlacesKept DEF LeaveForReconnect
<1>17. CASE Reopen
  BY <1>17, PlacesKept DEF Reopen
<1>18. CASE HandleHeldBack
  BY <1>18, PlacesKept DEF HandleHeldBack, HandleIdle
<1>19. CASE BeginWait
  BY <1>19, PlacesKept DEF BeginWait
<1>20. CASE RecvTask
  BY <1>20, PlacesKept DEF RecvTask
<1>21. CASE TimerFires
  BY <1>21, PlacesKept DEF TimerFires
<1>22. CASE StallTasks
  BY <1>22, PlacesKept DEF StallTasks
<1>23. CASE IdleClose
  BY <1>23, PlacesKept DEF IdleClose
<1>24. CASE BeginTurn
  BY <1>24, PlacesKept DEF BeginTurn, Goto
<1>25. CASE SendQuery
  BY <1>25, PlacesKept DEF SendQuery, Goto
<1>26. CASE InterruptSeen
  BY <1>26, PlacesKept DEF InterruptSeen, Goto, AfterInterrupt
<1>27. CASE StreamTaskMessage
  BY <1>27, PlacesKept DEF StreamTaskMessage, runVars
<1>28. CASE StreamAssistant
  BY <1>28, PlacesKept DEF StreamAssistant
<1>29. CASE StreamResult
  BY <1>29, PlacesKept DEF StreamResult, Goto
<1>30. CASE StreamRetry
  BY <1>30, PlacesKept DEF StreamRetry, Goto
<1>31. CASE BackoffOver
  BY <1>31, PlacesKept DEF BackoffOver, Goto
<1>32. CASE BeginBackground
  BY <1>32, PlacesKept DEF BeginBackground, Goto
<1>33. CASE DrainMessage
  BY <1>33, PlacesKept DEF DrainMessage, Goto
<1>34. CASE DrainTimeout
  BY <1>34, PlacesKept DEF DrainTimeout, Goto
<1>35. CASE FinishTurn
  BY <1>35, PlacesKept DEF FinishTurn
<1>36. CASE EndSession
  BY <1>36, PlacesKept DEF EndSession
<1>37. CASE Cli
  BY <1>37, PlacesKept DEF Cli, SessVars, runVars
<1>38. CASE UNCHANGED vars
  BY <1>38, PlacesKept DEF vars, runVars
<1>39. CASE ReportFails
  BY <1>39, PlacesMoved DEF ReportFails, ServeRaises, ServeFails, InHand, TypeOK, TurnTypeOK
<1>40. CASE IdleResultFails
  BY <1>40, PlacesMoved DEF IdleResultFails, Defer, ServeFails, InHand, TypeOK, TurnTypeOK
<1>41. CASE RelayFails
  BY <1>41, PlacesKept DEF RelayFails, Goto
<1>42. CASE ReportError
  BY <1>42, PlacesKept DEF ReportError, Goto
<1>43. QED
  BY <1>1, <1>2, <1>3, <1>4, <1>5, <1>6, <1>7, <1>8, <1>9, <1>10, <1>11,
     <1>12, <1>13, <1>14, <1>15, <1>16, <1>17, <1>18, <1>19, <1>20, <1>21,
     <1>22, <1>23, <1>24, <1>25, <1>26, <1>27, <1>28, <1>29, <1>30, <1>31,
     <1>32, <1>33, <1>34, <1>35, <1>36, <1>37, <1>38, <1>39, <1>40, <1>41, <1>42
  DEF Next, Handlers, Owner, Ended

\* The inductive invariant holds throughout.
LEMMA IInvHolds == Spec => []IInv
<1>1. Init => IInv
  BY TypeInit, PlacesInit DEF IInv
<1>2. IInv /\ [Next]_vars => IInv'
  BY TypeStep, PlacesStep DEF IInv
<1>3. QED
  BY <1>1, <1>2, PTL DEF Spec

\* A turn that skip() reported as skipped is never started: neither when the
\* skip came while the turn was already off the transport queue, nor after a
\* deferral or a reconnect (AgentSession.skip and the head of _run_turn).
THEOREM SkippedTurnsNeverRun == Spec => []SkippedNeverRuns
<1>1. IInv => SkippedNeverRuns
  BY DEF IInv, SkipInv, SkippedNeverRuns
<1>2. QED
  BY <1>1, IInvHolds, PTL

\* No turn is started twice, whichever way it travels from the transport queue
\* to the model (_serve, _await_work, _run_turn).
THEOREM TurnsRunOnce == Spec => []RunsOnce
<1>1. IInv => RunsOnce
  <2> SUFFICES ASSUME IInv, NEW i \in DOMAIN ran, NEW j \in DOMAIN ran, ran[i] = ran[j]
               PROVE  i = j
    BY DEF RunsOnce
  <2>1. ran \in Seq(Turns) /\ Unique(ran)
    BY DEF IInv, TypeOK, TurnTypeOK, PlacesInv
  <2>2. ran[i] \in Turns
    BY <2>1
  <2>3. QED
    BY <2>1, <2>2 DEF Unique
<1>2. QED
  BY <1>1, IInvHolds, PTL
-----------------------------------------------------------------------------
(* The indicator.                                                         *)

\* A step that leaves the tasks alone and does not reopen a closed session.
LEMMA IndicatorKept ==
    ASSUME IndicatorTruth, UNCHANGED taskVars,
           Closed => Closed', pc' = "done" => pc = "done"
    PROVE  IndicatorTruth'
BY DEF IndicatorTruth, taskVars, Closed

\* The "working in background" indicator is on exactly while a task is believed
\* to be running and its stream is not silent, and off once the session ended:
\* every path that changes the running set ends in _set_indicator.
THEOREM IndicatorIsTrue == Spec => []IndicatorTruth
<1>1. Init => IndicatorTruth
  BY DEF Init, IndicatorTruth, Closed
<1>2. TypeOK /\ IndicatorTruth /\ [Next]_vars => IndicatorTruth'
  <2> SUFFICES ASSUME TypeOK, IndicatorTruth, [Next]_vars
               PROVE  IndicatorTruth'
    OBVIOUS
  <2> USE DEF Closed
  <2>1. ASSUME NEW t \in Turns, Enqueue(t)
        PROVE  IndicatorTruth'
    BY <2>1, IndicatorKept DEF Enqueue, runVars
  <2>2. ASSUME NEW t \in Turns, Skip(t)
        PROVE  IndicatorTruth'
    BY <2>2, IndicatorKept DEF Skip, runVars
  <2>3. CASE Interrupt
    BY <2>3, IndicatorKept DEF Interrupt, runVars
  <2>4. CASE Reconnect
    BY <2>4, IndicatorKept DEF Reconnect, runVars
  <2>5. CASE ReconnectInterrupted
    BY <2>5, IndicatorKept DEF ReconnectInterrupted, runVars
  <2>6. CASE Connect
    BY <2>6, IndicatorKept DEF Connect
  <2>7. CASE LeaveForReconnect
    BY <2>7, IndicatorKept DEF LeaveForReconnect
  <2>8. CASE BeginWait
    BY <2>8, IndicatorKept DEF BeginWait
  <2>9. CASE GetTask
    BY <2>9, IndicatorKept DEF GetTask, runVars
  <2>10. CASE RecvTask
    BY <2>10, IndicatorKept DEF RecvTask
  <2>11. CASE WakeWithTurn
    BY <2>11, IndicatorKept DEF WakeWithTurn
  <2>12. CASE TimerFires
    BY <2>12, IndicatorKept DEF TimerFires
  <2>13. CASE IdleClose
    BY <2>13, IndicatorKept DEF IdleClose
  <2>14. CASE BeginTurn
    BY <2>14, IndicatorKept DEF BeginTurn, Goto
  <2>15. CASE SendQuery
    BY <2>15, IndicatorKept DEF SendQuery, Goto
  <2>16. CASE InterruptSeen
    BY <2>16, IndicatorKept DEF InterruptSeen, Drop, Goto, AfterInterrupt
  <2>17. CASE StreamAssistant
    BY <2>17, IndicatorKept DEF StreamAssistant
  <2>18. CASE StreamResult
    BY <2>18, IndicatorKept DEF StreamResult, Goto
  <2>19. CASE StreamRetry
    BY <2>19, IndicatorKept DEF StreamRetry, Goto, MayRetry
  <2>20. CASE BackoffOver
    BY <2>20, IndicatorKept DEF BackoffOver, Goto
  <2>21. CASE BeginBackground
    BY <2>21, IndicatorKept DEF BeginBackground, Goto
  <2>22. CASE DrainMessage
    BY <2>22, IndicatorKept DEF DrainMessage, Goto
  <2>23. CASE FinishTurn
    BY <2>23, IndicatorKept DEF FinishTurn
  <2>24. CASE Shutdown
    BY <2>24, IndicatorKept DEF Shutdown
  <2>25. CASE Cli
    BY <2>25, IndicatorKept DEF Cli, SessVars, runVars
  <2>26. CASE UNCHANGED vars
    BY <2>26, IndicatorKept DEF vars, runVars
  <2>27. CASE ConnectFails
    BY <2>27 DEF ConnectFails, ServeRaises, ServeFails, AbandonTasks, taskVars, IndicatorTruth
  <2>28. CASE RecordFails
    BY <2>28 DEF RecordFails, ServeRaises, ServeFails, AbandonTasks, taskVars, IndicatorTruth
  <2>29. CASE Reopen
    BY <2>29 DEF Reopen, AbandonTasks, IndicatorTruth
  <2>30. CASE RunDeferred
    BY <2>30 DEF RunDeferred, StartTurn, IndicatorTruth
  <2>31. CASE RunDequeued
    BY <2>31 DEF RunDequeued, StartTurn, IndicatorTruth
  <2>32. CASE HandleHeldBack
    BY <2>32 DEF HandleHeldBack, HandleIdle, StartsTurn, Track, NoTrack, taskVars, IndicatorTruth
  <2>33. CASE WakeWithMessage
    BY <2>33 DEF WakeWithMessage, HandleIdle, StartsTurn, Track, NoTrack, taskVars, IndicatorTruth
  <2>34. CASE WakeWithEof
    BY <2>34 DEF WakeWithEof, ServeRaises, ServeFails, AbandonTasks, taskVars, IndicatorTruth
  <2>35. CASE StallTasks
    BY <2>35 DEF StallTasks, MarkStalled, IndicatorTruth
  <2>36. CASE StreamTaskMessage
    BY <2>36 DEF StreamTaskMessage, Track, runVars, IndicatorTruth
  <2>37. CASE DrainTimeout
    BY <2>37 DEF DrainTimeout, Goto, AbandonTasks, IndicatorTruth
  <2>38. CASE EndSession
    BY <2>38 DEF EndSession, IndicatorTruth
  <2>39. CASE ReportFails
    BY <2>39 DEF ReportFails, ServeRaises, ServeFails, AbandonTasks, taskVars, IndicatorTruth
  <2>40. CASE IdleResultFails
    BY <2>40 DEF IdleResultFails, ServeFails, AbandonTasks, taskVars, IndicatorTruth
  <2>41. CASE RelayFails
    BY <2>41, IndicatorKept DEF RelayFails, Goto
  <2>42. CASE ReportError
    BY <2>42, IndicatorKept DEF ReportError, Goto
  <2>43. QED
    BY <2>1, <2>2, <2>3, <2>4, <2>5, <2>6, <2>7, <2>8, <2>9, <2>10, <2>11,
       <2>12, <2>13, <2>14, <2>15, <2>16, <2>17, <2>18, <2>19, <2>20, <2>21,
       <2>22, <2>23, <2>24, <2>25, <2>26, <2>27, <2>28, <2>29, <2>30, <2>31,
       <2>32, <2>33, <2>34, <2>35, <2>36, <2>37, <2>38, <2>39, <2>40, <2>41, <2>42
    DEF Next, Handlers, Owner, Ended
<1>3. QED
  BY <1>1, <1>2, TypeCorrect, PTL DEF Spec
-----------------------------------------------------------------------------
(* The order in which turns wait, and the list the browser is shown.       *)

Before(t, u) == \E i, j \in DOMAIN submitted : i < j /\ submitted[i] = t /\ submitted[j] = u

\* The turn that was taken off the queue and is yet to run.
Ahead(t) == t = got \/ t = deferred \/ InHand(t)

\* A turn is ahead of the queue in one of three places, according to the await
\* the owner task is at; deferred is only set when the next pass of the loop
\* looks at it before anything else.
AheadInv ==
    /\ got # None => pc = "idle"
    /\ deferred # None => pc \notin {"idle", "expired", "dequeued", "starting", "query",
                                     "stream", "backoff"}

OrderInv ==
    /\ \A i, j \in DOMAIN queue :
         i < j /\ queue[i] \in Turns /\ queue[j] \in Turns => Before(queue[i], queue[j])
    /\ \A t \in Elems(queue) \cap Turns, u \in Turns : Ahead(u) => Before(u, t)

MarksInv ==
    /\ pending \subseteq Recording
    /\ skipped \cup pending \subseteq Elems(submitted)

QInv == IInv /\ AheadInv /\ OrderInv /\ MarksInv

\* The owner task takes the turn that is off the queue into the wait's result,
\* into its hand or into the deferral slot: no turn starts or stops waiting.
Passed ==
    /\ pc = "idle" /\ ~Closed'
    /\ UNCHANGED <<queue, pending, skipped, submitted, ran, skipOk>>
    /\ got' = None
    /\ \/ pc' = "dequeued" /\ cur' = got /\ got \in Turns /\ UNCHANGED deferred
       \/ pc' = "loop" /\ got = Wake /\ UNCHANGED deferred
       \/ pc' \in {"loop", "bgstart", "connect"} /\ Defer

\* The session winds down.
Leaves ==
    /\ ~Closed /\ pc' = "closing" /\ got' = None
    /\ deferred' \in {deferred, got, None}
    /\ UNCHANGED <<queue, pending, skipped, submitted, ran, skipOk>>

\* The turns are left where they are.
Rests ==
    /\ UNCHANGED turnVars
    /\ \/ pc' = pc /\ cur' = cur
       \/ /\ "dequeued" \notin {pc, pc'} /\ (Closed' <=> Closed)
          /\ got = None
          /\ pc' \in {"idle", "expired", "starting", "query", "stream", "backoff"}
               => deferred = None

\* What a step may do to the turns.
LEMMA TurnSteps ==
    ASSUME TypeOK, AheadInv, [Next]_vars
    PROVE  \/ \E t \in Turns : (Enqueue(t) \/ Skip(t)) /\ UNCHANGED <<pc, cur>>
           \/ ArmReconnect /\ UNCHANGED <<pc, cur>>
           \/ RunDeferred \/ RunDequeued
           \/ GetTask /\ UNCHANGED <<pc, cur>>
           \/ Passed \/ Leaves \/ Rests
<1>1. ASSUME NEW t \in Turns, Enqueue(t) \/ Skip(t)
      PROVE  (Enqueue(t) \/ Skip(t)) /\ UNCHANGED <<pc, cur>>
  BY <1>1 DEF Enqueue, Skip, runVars
<1>2. CASE Interrupt
  BY <1>2 DEF Interrupt, Rests, runVars
<1>3. CASE Reconnect \/ ReconnectInterrupted
  BY <1>3 DEF Reconnect, ReconnectInterrupted, Rests, runVars
<1>4. CASE GetTask
  BY <1>4 DEF GetTask, runVars
<1>5. CASE RecvTask
  BY <1>5 DEF RecvTask, Rests
<1>6. CASE StreamAssistant \/ StreamTaskMessage
  BY <1>6 DEF StreamAssistant, StreamTaskMessage, Rests, runVars
<1>7. CASE Cli \/ UNCHANGED vars
  BY <1>7 DEF Cli, SessVars, vars, Rests, runVars
<1>8. CASE Connect \/ LeaveForReconnect \/ Reopen
  BY <1>8 DEF Connect, LeaveForReconnect, Reopen, Rests, Closed, AheadInv
<1>9. CASE ConnectFails \/ RecordFails \/ ReportFails
  <2>1. /\ got = None /\ got' = None /\ pc' \in {"connect", "closing"} /\ ~Closed
        /\ UNCHANGED <<queue, pending, skipped, deferred, submitted, ran, skipOk>>
    BY <1>9 DEF ConnectFails, RecordFails, ReportFails, ServeRaises, ServeFails, AheadInv, Closed
  <2>2. pc # "dequeued"
    BY <1>9 DEF ConnectFails, RecordFails, ReportFails
  <2>3. QED
    BY <2>1, <2>2 DEF Rests, Leaves, turnVars, Closed
<1>10. CASE HandleHeldBack
  BY <1>10 DEF HandleHeldBack, HandleIdle, Rests, Closed, AheadInv
<1>11. CASE BeginWait \/ TimerFires \/ StallTasks
  BY <1>11 DEF BeginWait, TimerFires, StallTasks, Rests, Closed, AheadInv
<1>12. CASE WakeWithMessage
  BY <1>12 DEF WakeWithMessage, HandleIdle, Passed, Closed
<1>13. CASE WakeWithEof
  BY <1>13 DEF WakeWithEof, ServeRaises, ServeFails, Defer, Passed, Leaves, Closed
<1>14. CASE WakeWithTurn
  BY <1>14 DEF WakeWithTurn, Passed, Closed, TypeOK, TurnTypeOK
<1>15. CASE IdleClose
  BY <1>15 DEF IdleClose, Leaves, Closed, turnVars, AheadInv
<1>16. CASE Shutdown
  BY <1>16 DEF Shutdown, Leaves, Closed
<1>17. CASE BeginTurn \/ SendQuery \/ BeginBackground
  BY <1>17 DEF BeginTurn, SendQuery, BeginBackground, Goto, Rests, Closed, AheadInv
<1>18. CASE InterruptSeen
  BY <1>18 DEF InterruptSeen, AfterInterrupt, Goto, Rests, Closed, AheadInv
<1>19. CASE StreamResult \/ StreamRetry \/ BackoffOver
  BY <1>19 DEF StreamResult, StreamRetry, MayRetry, BackoffOver, Goto, Rests, Closed, AheadInv
<1>20. CASE DrainMessage \/ DrainTimeout
  BY <1>20 DEF DrainMessage, DrainTimeout, Goto, Rests, Closed, AheadInv
<1>21. CASE FinishTurn \/ EndSession
  BY <1>21 DEF FinishTurn, EndSession, Rests, Closed, AheadInv
<1>22. CASE RelayFails \/ ReportError
  BY <1>22 DEF RelayFails, ReportError, Goto, Rests, Closed, AheadInv
<1>23. CASE IdleResultFails
  <2>1. /\ got' = None /\ pc' \in {"connect", "closing"} /\ pc \in {"idle", "loop"}
        /\ UNCHANGED <<queue, pending, skipped, submitted, ran, skipOk>>
        /\ pc = "idle" => Defer
        /\ pc = "loop" => got = None /\ UNCHANGED deferred
    BY <1>23 DEF IdleResultFails, ServeFails, AheadInv
  <2>2. QED
    BY <2>1 DEF Defer, Passed, Rests, Leaves, turnVars, Closed
<1>24. QED
  BY <1>1, <1>2, <1>3, <1>4, <1>5, <1>6, <1>7, <1>8, <1>9, <1>10, <1>11, <1>12, <1>13,
     <1>14, <1>15, <1>16, <1>17, <1>18, <1>19, <1>20, <1>21, <1>22, <1>23
  DEF Next, Handlers, Owner, Ended

\* At the start no turn waits.
LEMMA QueueInit == Init => AheadInv /\ OrderInv /\ MarksInv
BY DEF Init, AheadInv, OrderInv, MarksInv, Elems

\* Where the turn ahead of the queue is.
LEMMA AheadStep ==
    ASSUME QInv, [Next]_vars
    PROVE  AheadInv'
<1> USE DEF AheadInv
<1>0. TypeOK /\ AheadInv
  BY DEF QInv, IInv
<1>1. CASE \E t \in Turns : (Enqueue(t) \/ Skip(t)) /\ UNCHANGED <<pc, cur>>
  BY <1>0, <1>1 DEF Enqueue, Skip
<1>2. CASE ArmReconnect /\ UNCHANGED <<pc, cur>>
  BY <1>0, <1>2 DEF ArmReconnect
<1>3. CASE RunDeferred \/ RunDequeued
  BY <1>0, <1>3 DEF RunDeferred, RunDequeued, ClearDeferred, StartTurn
<1>4. CASE GetTask /\ UNCHANGED <<pc, cur>>
  BY <1>0, <1>4 DEF GetTask
<1>5. CASE Passed
  BY <1>0, <1>5 DEF Passed, Defer
<1>6. CASE Leaves
  BY <1>0, <1>6 DEF Leaves
<1>7. CASE Rests
  BY <1>0, <1>7 DEF Rests, turnVars
<1>8. QED
  BY <1>0, <1>1, <1>2, <1>3, <1>4, <1>5, <1>6, <1>7, TurnSteps

\* The turns put on the queue are later than all that wait already.
LEMMA OrderQueued ==
    ASSUME QInv, NEW x \in Turns \cup {Wake},
           queue' = Append(queue, x),
           x \in Turns => submitted' = Append(submitted, x),
           x = Wake => UNCHANGED submitted,
           UNCHANGED <<got, deferred, pc, cur>>
    PROVE  OrderInv'
<1>1. /\ queue \in Seq(Turns \cup {Wake}) /\ submitted \in Seq(Turns)
      /\ Wake \notin Turns
  BY DEF QInv, IInv, TypeOK, TurnTypeOK
<1>2. /\ DOMAIN queue = 1 .. Len(queue) /\ DOMAIN queue' = 1 .. Len(queue) + 1
      /\ Len(queue) \in Nat
      /\ \A i \in 1 .. Len(queue) : queue'[i] = queue[i]
      /\ queue'[Len(queue) + 1] = x
  BY <1>1
<1>3. ASSUME NEW t, NEW u, Before(t, u)
      PROVE  Before(t, u)'
  <2>1. PICK i, j \in DOMAIN submitted : i < j /\ submitted[i] = t /\ submitted[j] = u
    BY <1>3 DEF Before
  <2>2. \A k \in DOMAIN submitted : k \in DOMAIN submitted' /\ submitted'[k] = submitted[k]
    <3>1. CASE x = Wake
      BY <3>1
    <3>2. CASE x \in Turns
      BY <1>1, <3>2
    <3>3. QED
      BY <3>1, <3>2
  <2>3. QED
    BY <2>1, <2>2 DEF Before
<1>4. ASSUME NEW t \in Turns, t \in Elems(submitted), x \in Turns
      PROVE  Before(t, x)'
  <2>1. PICK i \in DOMAIN submitted : submitted[i] = t
    BY <1>4 DEF Elems
  <2>2. submitted' = Append(submitted, x)
    BY <1>4
  <2>3. /\ i \in DOMAIN submitted' /\ Len(submitted) + 1 \in DOMAIN submitted'
        /\ i < Len(submitted) + 1
        /\ submitted'[i] = t /\ submitted'[Len(submitted) + 1] = x
    BY <1>1, <2>1, <2>2
  <2>4. QED
    BY <2>3 DEF Before
<1>5. \A t \in Turns : t \in Elems(queue) \/ Ahead(t) => t \in Elems(submitted)
  BY DEF QInv, IInv, PlacesInv, Held, Ahead
<1>6. \A u : Ahead(u)' <=> Ahead(u)
  BY DEF Ahead, InHand
<1>7. ASSUME NEW i \in DOMAIN queue', NEW j \in DOMAIN queue', NEW t \in Turns, NEW u \in Turns,
             i < j, queue'[i] = t, queue'[j] = u
      PROVE  Before(t, u)'
  <2>1. i \in 1 .. Len(queue) /\ queue[i] = t
    BY <1>2, <1>7
  <2>2. CASE j \in 1 .. Len(queue)
    <3>1. Before(t, u)
      BY <1>2, <1>7, <2>1, <2>2 DEF QInv, OrderInv
    <3>2. QED
      BY <1>3, <3>1
  <2>3. CASE j = Len(queue) + 1
    <3>1. t \in Elems(queue) /\ u = x
      BY <1>2, <1>7, <2>1, <2>3 DEF Elems
    <3>2. QED
      BY <1>4, <1>5, <3>1
  <2>4. QED
    BY <1>2, <2>2, <2>3
<1>8. ASSUME NEW t \in Elems(queue)' \cap Turns, NEW u \in Turns, Ahead(u)'
      PROVE  Before(u, t)'
  <2>1. Ahead(u) /\ u \in Elems(submitted)
    BY <1>5, <1>6, <1>8
  <2>2. PICK j \in DOMAIN queue' : queue'[j] = t
    BY <1>8 DEF Elems
  <2>3. CASE j \in 1 .. Len(queue)
    <3>1. t \in Elems(queue)
      BY <1>2, <2>2, <2>3 DEF Elems
    <3>2. QED
      BY <1>3, <1>8, <2>1, <3>1 DEF QInv, OrderInv
  <2>4. CASE j = Len(queue) + 1
    BY <1>2, <1>4, <1>8, <2>1, <2>2, <2>4
  <2>5. QED
    BY <1>2, <2>2, <2>3, <2>4
<1>9. \A i, j \in DOMAIN queue' :
         i < j /\ queue'[i] \in Turns /\ queue'[j] \in Turns => Before(queue[i], queue[j])'
  BY <1>7
<1>10. QED
  BY <1>8, <1>9 DEF OrderInv

\* Whatever a step does with the turn ahead of the queue, it is not a later one.
LEMMA OrderKept ==
    ASSUME QInv, UNCHANGED <<queue, submitted>>,
           \A u \in Turns : Ahead(u)' => Ahead(u)
    PROVE  OrderInv'
<1>1. /\ Elems(queue)' = Elems(queue)
      /\ \A t, u : Before(t, u)' <=> Before(t, u)
  BY DEF Elems, Before
<1>2. QED
  BY <1>1 DEF QInv, OrderInv

\* The order in which the turns were submitted is the order in which they wait.
LEMMA OrderStep ==
    ASSUME QInv, [Next]_vars
    PROVE  OrderInv'
<1>0. TypeOK /\ AheadInv /\ PlacesInv
  BY DEF QInv, IInv
<1>1. CASE \E t \in Turns : (Enqueue(t) \/ Skip(t)) /\ UNCHANGED <<pc, cur>>
  <2>1. PICK t \in Turns : (Enqueue(t) \/ Skip(t)) /\ UNCHANGED <<pc, cur>>
    BY <1>1
  <2>2. CASE Enqueue(t)
    BY <2>1, <2>2, OrderQueued DEF Enqueue
  <2>3. CASE Skip(t)
    BY <2>1, <2>3, OrderKept DEF Skip, Ahead, InHand
  <2>4. QED
    BY <2>1, <2>2, <2>3
<1>2. CASE ArmReconnect /\ UNCHANGED <<pc, cur>>
  BY <1>2, OrderQueued DEF ArmReconnect
<1>3. CASE RunDeferred \/ RunDequeued
  BY <1>0, <1>3, OrderKept
  DEF RunDeferred, RunDequeued, ClearDeferred, StartTurn, Ahead, InHand
<1>4. CASE GetTask /\ UNCHANGED <<pc, cur>>
  <2>1. /\ queue \in Seq(Turns \cup {Wake}) /\ queue # <<>> /\ pc = "idle" /\ deferred = None
        /\ got' = Head(queue) /\ queue' = Tail(queue)
        /\ UNCHANGED <<submitted, deferred>>
    BY <1>0, <1>4 DEF GetTask, AheadInv, TypeOK, TurnTypeOK
  <2>2. /\ got' = queue[1]
        /\ Len(queue) \in Nat /\ DOMAIN queue = 1 .. Len(queue)
        /\ DOMAIN queue' = 1 .. Len(queue) - 1
        /\ \A i \in 1 .. Len(queue) - 1 : queue'[i] = queue[i + 1]
    BY <2>1, HeadTailProperties
  <2>3. \A t, u : Before(t, u)' <=> Before(t, u)
    BY <2>1 DEF Before
  <2>4. \A u \in Turns : Ahead(u)' => u = queue[1]
    BY <1>4, <2>1, <2>2 DEF Ahead, InHand
  <2>5. ASSUME NEW i \in DOMAIN queue', NEW j \in DOMAIN queue',
               i < j, queue'[i] \in Turns, queue'[j] \in Turns
        PROVE  Before(queue'[i], queue'[j])
    <3>1. /\ i + 1 \in DOMAIN queue /\ j + 1 \in DOMAIN queue /\ i + 1 < j + 1
          /\ queue'[i] = queue[i + 1] /\ queue'[j] = queue[j + 1]
      BY <2>2, <2>5
    <3>2. QED
      BY <2>5, <3>1 DEF QInv, OrderInv
  <2>6. ASSUME NEW t \in Elems(queue)' \cap Turns, NEW u \in Turns, Ahead(u)'
        PROVE  Before(u, t)
    <3>1. PICK i \in DOMAIN queue' : queue'[i] = t
      BY <2>6 DEF Elems
    <3>2. 1 \in DOMAIN queue /\ i + 1 \in DOMAIN queue /\ 1 < i + 1 /\ queue[i + 1] = t
      BY <2>2, <3>1
    <3>3. u = queue[1]
      BY <2>4, <2>6
    <3>4. QED
      BY <3>2, <3>3, <2>6 DEF QInv, OrderInv
  <2>7. QED
    BY <2>3, <2>5, <2>6 DEF OrderInv
<1>5. CASE Passed
  BY <1>0, <1>5, OrderKept DEF Passed, Defer, Ahead, InHand, TypeOK, TurnTypeOK
<1>6. CASE Leaves
  BY <1>0, <1>6, OrderKept DEF Leaves, Ahead, InHand, TypeOK, TurnTypeOK
<1>7. CASE Rests
  BY <1>0, <1>7, OrderKept DEF Rests, turnVars, Ahead, InHand
<1>8. QED
  BY <1>0, <1>1, <1>2, <1>3, <1>4, <1>5, <1>6, <1>7, TurnSteps

\* A turn leaves those that wait when it starts or its skip mark is consumed.
StartsOrDrops ==
    /\ ~Closed /\ ~Closed'
    /\ \E t \in Waiting :
        /\ t = deferred \/ InHand(t)
        /\ StartTurn(t)
        /\ Waiting' = Waiting \ {t}

\* What a step may do to the set of turns that wait.
LEMMA WaitingSteps ==
    ASSUME QInv, [Next]_vars
    PROVE  \/ \E t \in Turns : /\ Enqueue(t) /\ UNCHANGED pc
                               /\ Waiting' = Waiting \cup {t}
           \/ \E t \in Turns : Skip(t) /\ UNCHANGED <<pc, Waiting>>
           \/ StartsOrDrops
           \/ Leaves
           \/ /\ UNCHANGED <<Waiting, pending, skipped, submitted, ran, skipOk>>
              /\ Closed' <=> Closed
<1>0. /\ TypeOK /\ AheadInv /\ PlacesInv
      /\ queue \in Seq(Turns \cup {Wake})
  BY DEF QInv, IInv, TypeOK, TurnTypeOK
<1>1. ASSUME NEW t \in Turns, Enqueue(t), UNCHANGED <<pc, cur>>
      PROVE  Waiting' = Waiting \cup {t}
  <2>1. Elems(Append(queue, t)) = Elems(queue) \cup {t}
    BY <1>0, ElemsAppend
  <2>2. Elems(queue)' = Elems(queue) \cup {t}
    BY <1>1, <2>1 DEF Enqueue, Elems
  <2>3. QED
    BY <1>1, <2>2 DEF Enqueue, Waiting, Held, InHand
<1>2. ASSUME NEW t \in Turns, Skip(t), UNCHANGED <<pc, cur>>
      PROVE  UNCHANGED Waiting
  BY <1>2 DEF Skip, Waiting, Held, InHand, Elems
<1>3. CASE ArmReconnect /\ UNCHANGED <<pc, cur>>
  <2>1. Elems(Append(queue, Wake)) = Elems(queue) \cup {Wake}
    BY <1>0, ElemsAppend
  <2>2. Elems(queue)' = Elems(queue) \cup {Wake}
    BY <1>3, <2>1 DEF ArmReconnect, Elems
  <2>3. UNCHANGED Waiting
    BY <1>3, <2>2 DEF ArmReconnect, Waiting, Held, InHand
  <2>4. QED
    BY <1>3, <2>3 DEF ArmReconnect, Closed
<1>4. CASE RunDeferred
  <2>1. /\ deferred \in Turns /\ StartTurn(deferred) /\ deferred' = None /\ pc = "loop"
        /\ UNCHANGED <<queue, got>> /\ pc' # "dequeued"
    BY <1>0, <1>4 DEF RunDeferred, ClearDeferred, StartTurn, TypeOK, TurnTypeOK
  <2>2. Waiting' = Waiting \ {deferred}
    BY <1>0, <2>1 DEF Waiting, Held, InHand, Elems, PlacesInv
  <2>3. deferred \in Waiting
    BY <2>1 DEF Waiting, Held
  <2>4. ~Closed /\ ~Closed'
    BY <1>4 DEF RunDeferred, StartTurn, Closed
  <2>5. QED
    BY <2>1, <2>2, <2>3, <2>4 DEF StartsOrDrops
<1>5. CASE RunDequeued
  <2>1. /\ cur \in Turns /\ StartTurn(cur) /\ InHand(cur)
        /\ UNCHANGED <<queue, got, deferred>> /\ pc' # "dequeued"
    BY <1>0, <1>5 DEF RunDequeued, StartTurn, TypeOK, RunTypeOK, InHand
  <2>2. Waiting' = Waiting \ {cur}
    BY <1>0, <2>1 DEF Waiting, Held, InHand, Elems, PlacesInv
  <2>3. cur \in Waiting
    BY <2>1 DEF Waiting, Held
  <2>4. ~Closed /\ ~Closed'
    BY <1>5 DEF RunDequeued, StartTurn, Closed
  <2>5. QED
    BY <2>1, <2>2, <2>3, <2>4 DEF StartsOrDrops
<1>6. CASE GetTask /\ UNCHANGED <<pc, cur>>
  <2>1. got = None /\ got' = Head(queue) /\ queue' = Tail(queue) /\ UNCHANGED deferred
    BY <1>6 DEF GetTask
  <2>2. Elems(queue) = {Head(queue)} \cup Elems(Tail(queue))
    BY <1>0, <1>6, ElemsTail DEF GetTask
  <2>3. Elems(queue)' = Elems(Tail(queue))
    BY <2>1 DEF Elems
  <2>4. UNCHANGED Waiting
    BY <1>6, <2>1, <2>2, <2>3 DEF Waiting, Held, InHand
  <2>5. QED
    BY <1>6, <2>4 DEF GetTask, Closed
<1>7. CASE Passed
  <2>1. deferred = None /\ None \notin Turns /\ got \in Turns \cup {Wake, None}
    BY <1>0, <1>7 DEF Passed, AheadInv, TypeOK, TurnTypeOK
  <2>2. UNCHANGED Waiting
    BY <1>7, <2>1 DEF Passed, Defer, Waiting, Held, InHand, Elems
  <2>3. QED
    BY <1>7, <2>2 DEF Passed, Closed
<1>8. CASE Rests
  <2>1. UNCHANGED Waiting
    BY <1>8 DEF Rests, turnVars, Waiting, Held, InHand, Elems
  <2>2. QED
    BY <1>8, <2>1 DEF Rests, turnVars, Closed
<1>9. QED
  BY <1>0, <1>1, <1>2, <1>3, <1>4, <1>5, <1>6, <1>7, <1>8, TurnSteps

\* The marks and the list of waiting turns speak of turns that were submitted.
LEMMA MarksStep ==
    ASSUME QInv, [Next]_vars
    PROVE  MarksInv'
<1> USE DEF QInv, MarksInv
<1>1. CASE \E t \in Turns : Enqueue(t)
  <2>1. PICK t \in Turns : Enqueue(t)
    BY <1>1
  <2>2. submitted \in Seq(Turns)
    BY DEF IInv, TypeOK, TurnTypeOK
  <2>3. Elems(submitted)' = Elems(submitted) \cup {t}
    <3>1. Elems(Append(submitted, t)) = Elems(submitted) \cup {t}
      BY <2>2, ElemsAppend
    <3>2. QED
      BY <2>1, <3>1 DEF Enqueue, Elems
  <2>4. QED
    BY <2>1, <2>3 DEF Enqueue
<1>2. CASE \E t \in Turns : Skip(t)
  BY <1>2 DEF Skip, DropPending, Elems
<1>3. CASE StartsOrDrops
  BY <1>3 DEF StartsOrDrops, StartTurn, Unmark, DropPending, Elems
<1>4. CASE UNCHANGED <<pending, skipped, submitted>>
  BY <1>4 DEF Elems
<1>5. QED
  BY <1>1, <1>2, <1>3, <1>4, WaitingSteps DEF Leaves

LEMMA QInvHolds == Spec => []QInv
<1>1. Init => QInv
  BY TypeInit, PlacesInit, QueueInit DEF QInv, IInv
<1>2. QInv /\ [Next]_vars => QInv'
  <2> SUFFICES ASSUME QInv, [Next]_vars PROVE QInv'
    OBVIOUS
  <2>1. IInv'
    BY TypeStep, PlacesStep DEF QInv, IInv
  <2>2. QED
    BY <2>1, AheadStep, OrderStep, MarksStep DEF QInv
<1>3. QED
  BY <1>1, <1>2, PTL DEF Spec

\* The list of waiting messages the browser is shown is what will still run,
\* less what was skipped: a turn is on it from enqueue() until it is started or
\* skipped, on whatever way it travels meanwhile.
THEOREM PendingShowsWaiting == Spec => []PendingIsWaiting
<1>1. Init => PendingIsWaiting
  BY DEF Init, PendingIsWaiting, Waiting, Held, InHand, Elems
<1>2. QInv /\ PendingIsWaiting /\ [Next]_vars => PendingIsWaiting'
  <2> SUFFICES ASSUME QInv, PendingIsWaiting, [Next]_vars
               PROVE  PendingIsWaiting'
    OBVIOUS
  <2> USE DEF PendingIsWaiting
  <2>1. CASE \E t \in Turns : Enqueue(t) /\ UNCHANGED pc /\ Waiting' = Waiting \cup {t}
    <3>1. PICK t \in Turns : Enqueue(t) /\ UNCHANGED pc /\ Waiting' = Waiting \cup {t}
      BY <2>1
    <3>2. t \notin skipped
      BY <3>1 DEF Enqueue, QInv, MarksInv
    <3>3. QED
      BY <3>1, <3>2 DEF Enqueue, Closed
  <2>2. CASE \E t \in Turns : Skip(t) /\ UNCHANGED <<pc, Waiting>>
    BY <2>2 DEF Skip, DropPending, Closed
  <2>3. CASE StartsOrDrops
    <3>1. PICK t \in Waiting : /\ t = deferred \/ InHand(t)
                               /\ StartTurn(t) /\ Waiting' = Waiting \ {t}
      BY <2>3 DEF StartsOrDrops
    <3>2. pending' = pending \ {t} /\ skipped' = skipped \ {t}
      BY <3>1 DEF StartTurn, Unmark, DropPending
    <3>3. QED
      BY <2>3, <3>1, <3>2 DEF StartsOrDrops
  <2>4. CASE Leaves
    BY <2>4 DEF Leaves, Closed
  <2>5. CASE UNCHANGED <<Waiting, pending, skipped>> /\ (Closed' <=> Closed)
    BY <2>5
  <2>6. QED
    BY <2>1, <2>2, <2>3, <2>4, <2>5, WaitingSteps
<1>3. QED
  BY <1>1, <1>2, QInvHolds, PTL DEF Spec

\* No skip mark outlives its turn: each belongs to a turn that is still to be
\* popped, so the set does not grow with every skip (skip, WasSkipped).
THEOREM MarksGoWithTheirTurns == Spec => []SkipMarksConsumed
<1>1. Init => SkipMarksConsumed
  BY DEF Init, SkipMarksConsumed
<1>2. QInv /\ PendingIsWaiting /\ SkipMarksConsumed /\ [Next]_vars => SkipMarksConsumed'
  <2> SUFFICES ASSUME QInv, PendingIsWaiting, SkipMarksConsumed, [Next]_vars, ~Closed'
               PROVE  skipped' \subseteq Waiting'
    BY DEF SkipMarksConsumed
  <2>1. CASE \E t \in Turns : Enqueue(t) /\ UNCHANGED pc /\ Waiting' = Waiting \cup {t}
    BY <2>1 DEF Enqueue, Closed, SkipMarksConsumed
  <2>2. CASE \E t \in Turns : Skip(t) /\ UNCHANGED <<pc, Waiting>>
    <3>1. PICK t \in pending : skipped' = skipped \cup {t}
      BY <2>2 DEF Skip
    <3>2. ~Closed
      BY <2>2 DEF Closed
    <3>3. t \in Waiting
      BY <3>1, <3>2 DEF PendingIsWaiting
    <3>4. QED
      BY <2>2, <3>1, <3>2, <3>3 DEF SkipMarksConsumed
  <2>3. CASE StartsOrDrops
    <3>1. PICK t \in Waiting : StartTurn(t) /\ Waiting' = Waiting \ {t}
      BY <2>3 DEF StartsOrDrops
    <3>2. skipped' = skipped \ {t} /\ ~Closed
      BY <2>3, <3>1 DEF StartsOrDrops, StartTurn, Unmark
    <3>3. QED
      BY <3>1, <3>2 DEF SkipMarksConsumed
  <2>4. CASE Leaves
    BY <2>4 DEF Leaves, Closed
  <2>5. CASE UNCHANGED <<Waiting, pending, skipped>> /\ (Closed' <=> Closed)
    BY <2>5 DEF SkipMarksConsumed
  <2>6. QED
    BY <2>1, <2>2, <2>3, <2>4, <2>5, WaitingSteps
<1>3. QED
  BY <1>1, <1>2, QInvHolds, PendingShowsWaiting, PTL DEF Spec

-----------------------------------------------------------------------------
(* The session implements the turn queue.                                  *)

\* The turn the owner task starts is the oldest of those that wait.
LEMMA OldestFirst ==
    ASSUME QInv, NEW t \in Waiting, t = deferred \/ InHand(t),
           NEW u \in Waiting, u # t
    PROVE  Before(t, u)
<1>1. Ahead(t) /\ t \in Turns
  BY DEF Ahead, Waiting
<1>2. u \in Elems(queue) \/ Ahead(u)
  BY DEF Waiting, Held, Ahead
<1>3. ~Ahead(u)
  BY DEF Ahead, InHand, Waiting, QInv, AheadInv
<1>4. QED
  BY <1>1, <1>2, <1>3 DEF QInv, OrderInv, Waiting

\* Every step of the session is a step of the queue, or leaves it alone.
LEMMA QueueStep ==
    ASSUME QInv, PendingIsWaiting, [Next]_vars
    PROVE  [TQ!Next]_(TQ!vars)
<1> DEFINE W == IF Closed THEN {} ELSE Waiting \ skipped
<1>1. ASSUME NEW t \in Turns, Enqueue(t), UNCHANGED pc, Waiting' = Waiting \cup {t}
      PROVE  TQ!Submit(t)
  <2>1. t \notin Elems(submitted) /\ submitted' = Append(submitted, t)
        /\ UNCHANGED <<skipped, ran, skipOk>> /\ (Closed' <=> Closed)
    BY <1>1 DEF Enqueue, Closed
  <2>2. t \notin skipped
    BY <2>1 DEF QInv, MarksInv
  <2>3. W' = IF Closed THEN W ELSE W \cup {t}
    BY <1>1, <2>1, <2>2
  <2>4. Closed' = Closed
    BY <2>1 DEF Closed
  <2>5. QED
    BY <2>1, <2>3, <2>4 DEF TQ!Submit, TQ!Seen, Elems
<1>2. ASSUME NEW t \in Turns, Skip(t), UNCHANGED <<pc, Waiting>>
      PROVE  TQ!Skip(t)
  <2>1. /\ t \in pending /\ skipped' = skipped \cup {t} /\ UNCHANGED <<submitted, ran>>
        /\ skipOk' = skipOk \cup {t}
        /\ Closed' = Closed
    BY <1>2 DEF Skip, Closed
  <2>2. t \in Recording /\ TQ!Seen(t)
    BY <2>1 DEF QInv, MarksInv, Elems, TQ!Seen
  <2>3. t \in W \/ Closed
    <3>1. CASE ~Closed
      BY <2>1, <3>1 DEF PendingIsWaiting
    <3>2. QED
      BY <3>1
  <2>4. W' = W \ {t}
    BY <1>2, <2>1
  <2>5. QED
    BY <2>1, <2>2, <2>3, <2>4 DEF TQ!Skip
<1>3. CASE StartsOrDrops
  <2>1. PICK t \in Waiting : /\ t = deferred \/ InHand(t)
                             /\ StartTurn(t) /\ Waiting' = Waiting \ {t}
    BY <1>3 DEF StartsOrDrops
  <2>2. ~Closed /\ ~Closed' /\ skipped' = skipped \ {t} /\ t \in Turns
        /\ UNCHANGED <<submitted, skipOk>>
    BY <1>3, <2>1 DEF StartsOrDrops, StartTurn, Unmark, Waiting
  <2>0. Closed' = Closed
    BY <2>2 DEF Closed
  <2>3. CASE t \in skipped
    <3>1. W' = W /\ ran' = ran
      BY <2>1, <2>2, <2>3 DEF StartTurn, WasSkipped
    <3>2. QED
      BY <2>0, <2>2, <3>1 DEF TQ!vars
  <2>4. CASE t \notin skipped
    <3>1. t \in W /\ W' = W \ {t} /\ ran' = Append(ran, t)
      BY <2>1, <2>2, <2>4 DEF StartTurn, WasSkipped
    <3>2. \A u \in W \ {t} : TQ!Earlier(t, u)
      BY <2>1, <2>2, OldestFirst DEF Before, TQ!Earlier
    <3>3. TQ!Serve(t)
      BY <2>0, <2>2, <3>1, <3>2 DEF TQ!Serve
    <3>4. QED
      BY <2>2, <3>3 DEF TQ!Next
  <2>5. QED
    BY <2>3, <2>4
<1>4. CASE Leaves
  <2>1. ~Closed /\ Closed' /\ UNCHANGED <<submitted, ran, skipOk>>
    BY <1>4 DEF Leaves, Closed
  <2>2. TQ!Close
    BY <2>1 DEF TQ!Close
  <2>3. QED
    BY <2>2 DEF TQ!Next
<1>5. CASE UNCHANGED <<Waiting, pending, skipped, submitted, ran, skipOk>> /\ (Closed' <=> Closed)
  BY <1>5 DEF TQ!vars
<1>6. QED
  BY <1>1, <1>2, <1>3, <1>4, <1>5, WaitingSteps DEF TQ!Next

\* The session keeps the promise of TurnQueue for any turns, tasks, faults and
\* bounds: whatever detours a turn takes (the transport queue, the idle wait, a
\* deferral, a reconnect), turns run in the order in which they were submitted,
\* each once, and until the session closes none is left out that skip() did not
\* report.
THEOREM RefinesTurnQueue == Spec => ImplementsTurnQueue
<1>1. Init => TQ!Init
  BY DEF Init, TQ!Init, Closed, Waiting, Held, InHand, Elems
<1>2. QInv /\ PendingIsWaiting /\ [Next]_vars => [TQ!Next]_(TQ!vars)
  BY QueueStep
<1>3. QED
  BY <1>1, <1>2, QInvHolds, PendingShowsWaiting, PTL DEF Spec, TQ!Spec, ImplementsTurnQueue
-----------------------------------------------------------------------------
(* The talk with the CLI: a prompt is not sent again once some of its      *)
(* reply was shown, and a reply is shown under its own prompt.             *)
(*                                                                         *)
(* The first rests on SaidInv: whatever the CLI runs, has queued or has    *)
(* said belongs to a turn that was started, so that a turn that starts has *)
(* no reply yet.  The second, MatchInv, follows the shared stream: outside *)
(* of a response it holds nothing of any turn, during a response only what *)
(* was said for that turn, and nothing of it after its terminal message.   *)

Carries(s, t) == \E i \in DOMAIN s : s[i].by = t

\* The CLI, or something it said, knows of turn t.
Known(t) ==
    \/ t = cliRun \/ t \in Elems(cliIn) \/ Carries(stream, t)
    \/ heldBack # None /\ heldBack.by = t
    \/ recvd # None /\ recvd.by = t
    \/ \E x \in relays : x[1] = t

\* No reply that turn cur was sent for has been shown under a prompt.
Unanswered == \A u \in Turns : <<cur, u>> \notin relays

SaidInv ==
    /\ \A t \in Turns : Known(t) => t \in Elems(ran)
    /\ pc \in {"starting", "query", "stream", "backoff"} => cur \in Elems(ran)
    /\ pc \in {"starting", "query", "backoff"} => Unanswered
    /\ pc = "stream" /\ ~relayed => Unanswered

TInv == IInv /\ SaidInv

-----------------------------------------------------------------------------
(* What the CLI can know of.                                               *)

\* Adding a message adds at most its run.
LEMMA CarriesAppend ==
    ASSUME NEW m \in Msg, NEW t
    PROVE  stream \in Seq(Msg) /\ Carries(Append(stream, m), t) => Carries(stream, t) \/ m.by = t
<1> SUFFICES ASSUME stream \in Seq(Msg), NEW i \in DOMAIN Append(stream, m),
                    Append(stream, m)[i].by = t, m.by # t
             PROVE  stream[i].by = t /\ i \in DOMAIN stream
  BY DEF Carries
<1>1. i \in 1 .. Len(stream) + 1
  OBVIOUS
<1>2. i # Len(stream) + 1
  OBVIOUS
<1>3. i \in 1 .. Len(stream) /\ Append(stream, m)[i] = stream[i]
  BY <1>1, <1>2
<1>4. QED
  BY <1>3

\* Reading a message leaves a part of the stream, and what is read was on it.
LEMMA CarriesRead ==
    ASSUME CliTypeOK, CliRead, NEW t
    PROVE  /\ Carries(stream, t)' => Carries(stream, t)
           /\ Head(stream).by = t => Carries(stream, t)
           /\ Head(stream) \in Msg
           /\ UNCHANGED <<cliRun, cliIn>>
<1>1. stream \in Seq(Msg) /\ stream # <<>>
  BY DEF CliTypeOK, CliRead
<1>2. Head(stream) = stream[1] /\ 1 \in DOMAIN stream /\ Head(stream) \in Msg
  BY <1>1, HeadTailProperties
<1>3. ASSUME Carries(Tail(stream), t)
      PROVE  Carries(stream, t)
  <2>1. PICK i \in DOMAIN Tail(stream) : Tail(stream)[i].by = t
    BY <1>3 DEF Carries
  <2>2. i \in 1 .. Len(stream) - 1 /\ Tail(stream)[i] = stream[i + 1]
    BY <1>1, <2>1, HeadTailProperties
  <2>3. i + 1 \in DOMAIN stream
    BY <1>1, <2>2
  <2>4. QED
    BY <2>1, <2>2, <2>3 DEF Carries
<1>4. stream' \in {stream, Tail(stream)}
  BY DEF CliRead, Rest
<1>5. QED
  BY <1>2, <1>3, <1>4 DEF CliRead, Carries

\* What the CLI puts on the stream, and whose it is.
LEMMA Messages ==
    /\ \A r \in Runs : \A kind \in {"asst", "result", "retryable"} :
         RunMsg(kind, r) \in Msg /\ RunMsg(kind, r).by = r /\ RunMsg(kind, r).kind = kind
    /\ \A k \in Tasks : \A kind \in TaskKinds :
         TaskMsg(kind, k) \in Msg /\ TaskMsg(kind, k).by = NoRun /\ TaskMsg(kind, k).kind = kind
    /\ Eof \in Msg /\ Eof.by = NoRun /\ Eof.kind = "eof"
BY DEF RunMsg, TaskMsg, Eof, Msg, Runs, TaskKinds, ResultKinds

\* By itself the CLI learns of no turn.
LEMMA CliLearnsNothing ==
    ASSUME CliTypeOK, CliNext, NEW t \in Turns,
           t = cliRun' \/ t \in Elems(cliIn)' \/ Carries(stream, t)'
    PROVE  t = cliRun \/ t \in Elems(cliIn) \/ Carries(stream, t)
<1> USE DEF CliTypeOK
<1>0. t # NoRun /\ t # Agent
  OBVIOUS
<1>1. Eof \in Msg /\ Eof.by # t /\ \A k \in Tasks : \A kind \in TaskKinds :
          TaskMsg(kind, k) \in Msg /\ TaskMsg(kind, k).by # t
  BY <1>0, Messages
<1>2. CASE CliTakeQuery
  <2>1. Head(cliIn) \in Elems(cliIn) /\ Elems(Tail(cliIn)) \subseteq Elems(cliIn)
    BY <1>2, ElemsTail DEF CliTakeQuery
  <2>2. QED
    BY <1>2, <2>1 DEF CliTakeQuery, Elems, Carries
<1>3. CASE CliReactToTask
  BY <1>0, <1>3 DEF CliReactToTask, Elems, Carries
<1>4. CASE CliSay \/ CliFinishRun \/ CliApiError
  <2>1. UNCHANGED cliIn /\ cliRun' \in {cliRun, NoRun}
    BY <1>4 DEF CliSay, CliFinishRun, CliApiError
  <2>2. PICK m \in Msg : m.by = cliRun /\ stream' = Append(stream, m)
    BY <1>0, <1>4, Messages DEF CliSay, CliFinishRun, CliApiError, Emit
  <2>3. QED
    BY <1>0, <2>1, <2>2, CarriesAppend DEF Elems, Carries
<1>5. CASE CliInterrupt
  <2>1. UNCHANGED cliIn /\ cliRun' = NoRun
    BY <1>5 DEF CliInterrupt
  <2>2. stream' = stream \/ \E m \in Msg : m.by = cliRun /\ stream' = Append(stream, m)
    BY <1>0, <1>5, Messages DEF CliInterrupt, Emit
  <2>3. QED
    BY <1>0, <2>1, <2>2, CarriesAppend DEF Elems, Carries
<1>6. CASE CliExit
  <2>1. cliIn' = <<>> /\ cliRun' = NoRun /\ stream' = Append(stream, Eof)
    BY <1>6 DEF CliExit
  <2>2. QED
    BY <1>0, <1>1, <2>1, CarriesAppend DEF Elems, Carries
<1>7. ASSUME NEW k \in Tasks, CliLaunchTask(k) \/ CliTaskProgress(k) \/ CliTaskDone(k)
      PROVE  t = cliRun \/ t \in Elems(cliIn) \/ Carries(stream, t)
  <2>1. UNCHANGED <<cliIn, cliRun>>
    BY <1>7 DEF CliLaunchTask, CliTaskProgress, CliTaskDone
  <2>2. stream' = stream \/ \E m \in Msg : m.by # t /\ stream' = Append(stream, m)
    BY <1>1, <1>7 DEF CliLaunchTask, CliTaskProgress, CliTaskDone, Emit, TaskKinds
  <2>3. Carries(stream, t)' => Carries(stream, t)
    <3>1. CASE stream' = stream
      BY <3>1 DEF Carries
    <3>2. ASSUME NEW m \in Msg, m.by # t, stream' = Append(stream, m)
          PROVE  Carries(stream, t)' => Carries(stream, t)
      BY <3>2, CarriesAppend DEF Carries
    <3>3. QED
      BY <2>2, <3>1, <3>2
  <2>4. QED
    BY <2>1, <2>3 DEF Elems
<1>8. QED
  BY <1>2, <1>3, <1>4, <1>5, <1>6, <1>7 DEF CliNext

-----------------------------------------------------------------------------
(* A prompt whose reply was shown is not sent again.                       *)

\* What the owner task has of a turn that it read from the stream.
LEMMA KnownRead ==
    ASSUME TypeOK, CliRead, NEW t \in Turns, Known(t)',
           heldBack' \in {heldBack, Head(stream), None},
           recvd' \in {recvd, Head(stream), None},
           \A x \in relays' \ relays : x[1] = Head(stream).by
    PROVE  Known(t)
<1>1. CliTypeOK
  BY DEF TypeOK
<1>2. QED
  BY <1>1, CarriesRead DEF Known, Elems

\* The same when the step reads no message.
LEMMA KnownKept ==
    ASSUME UNCHANGED cliVars \/ CliClose \/ CliOpen \/ CliWriteInterrupt,
           NEW t \in Turns, Known(t)',
           heldBack' \in {heldBack, None}, recvd' \in {recvd, None},
           \A x \in relays' \ relays : \/ heldBack # None /\ x[1] = heldBack.by
                                       \/ recvd # None /\ x[1] = recvd.by
    PROVE  Known(t)
<1>1. t # NoRun /\ Elems(<<>>) = {} /\ ~Carries(<<>>, t)
  BY DEF Elems, Carries
<1>2. t = cliRun' \/ t \in Elems(cliIn)' \/ Carries(stream, t)'
         => t = cliRun \/ t \in Elems(cliIn) \/ Carries(stream, t)
  BY <1>1 DEF cliVars, CliClose, CliOpen, CliWriteInterrupt, Elems, Carries
<1>3. QED
  BY <1>2 DEF Known

\* The CLI comes to know of a turn only by the query that starts it.
LEMMA KnownStep ==
    ASSUME TypeOK, [Next]_vars, NEW t \in Turns, Known(t)'
    PROVE  Known(t) \/ (pc = "query" /\ t = cur)
<1>1. CASE Cli
  <2>1. CliTypeOK /\ CliNext /\ UNCHANGED <<heldBack, recvd, relays>>
    BY <1>1 DEF Cli, SessVars, runVars, talkVars, TypeOK
  <2>2. QED
    BY <2>1, CliLearnsNothing DEF Known
<1>2. CASE SendQuery
  <2>1. /\ pc = "query" /\ cur \in Turns /\ cliIn \in Seq(Turns)
        /\ cliIn' \in {cliIn, Append(cliIn, cur)}
        /\ UNCHANGED <<cliRun, stream, heldBack, recvd, relays>>
    BY <1>2 DEF SendQuery, CliWriteQuery, Goto, talkVars, TypeOK, RunTypeOK, CliTypeOK
  <2>2. Elems(cliIn)' \subseteq Elems(cliIn) \cup {cur}
    BY <2>1, ElemsAppend
  <2>3. QED
    BY <2>1, <2>2 DEF Known, Carries
<1>3. CASE \E u \in Turns : Enqueue(u) \/ Skip(u)
  BY <1>3, KnownKept DEF Enqueue, Skip, runVars, talkVars
<1>4. CASE Interrupt \/ Reconnect \/ ReconnectInterrupted
  BY <1>4, KnownKept DEF Interrupt, Reconnect, ReconnectInterrupted, runVars, talkVars
<1>5. CASE Connect \/ LeaveForReconnect \/ Reopen
  BY <1>5, KnownKept DEF Connect, LeaveForReconnect, Reopen, talkVars
<1>6. CASE ConnectFails \/ RecordFails
  BY <1>6, KnownKept DEF ConnectFails, RecordFails, ServeRaises, ServeFails, talkVars
<1>7. CASE RunDeferred \/ RunDequeued
  BY <1>7, KnownKept DEF RunDeferred, RunDequeued, StartTurn, talkVars
<1>8. CASE HandleHeldBack \/ WakeWithMessage
  <2>1. \A x \in relays' \ relays : \/ heldBack # None /\ x[1] = heldBack.by
                                    \/ recvd # None /\ x[1] = recvd.by
    BY <1>8 DEF HandleHeldBack, WakeWithMessage, HandleIdle
  <2>2. UNCHANGED cliVars /\ heldBack' \in {heldBack, None} /\ recvd' \in {recvd, None}
    BY <1>8 DEF HandleHeldBack, WakeWithMessage, HandleIdle
  <2>3. QED
    BY <2>1, <2>2, KnownKept
<1>9. CASE BeginWait \/ TimerFires \/ FinishTurn
  BY <1>9, KnownKept DEF BeginWait, TimerFires, FinishTurn, talkVars
<1>10. CASE GetTask
  BY <1>10, KnownKept DEF GetTask, runVars, talkVars
<1>11. CASE RecvTask
  BY <1>11, KnownRead DEF RecvTask, talkVars
<1>12. CASE WakeWithEof
  BY <1>12, KnownKept DEF WakeWithEof, ServeRaises, ServeFails, talkVars
<1>13. CASE WakeWithTurn \/ StallTasks
  <2>1. UNCHANGED <<recvd, relays>> /\ CancelRecv
    BY <1>13 DEF WakeWithTurn, StallTasks, talkVars
  <2>2. CASE UNCHANGED <<heldBack, cliVars>>
    BY <2>1, <2>2, KnownKept
  <2>3. CASE CliRead /\ heldBack' = Head(stream)
    BY <2>1, <2>3, KnownRead
  <2>4. QED
    BY <2>1, <2>2, <2>3 DEF CancelRecv
<1>14. CASE IdleClose \/ Shutdown \/ EndSession
  BY <1>14, KnownKept DEF IdleClose, Shutdown, EndSession, talkVars
<1>15. CASE BeginTurn \/ BeginBackground \/ BackoffOver \/ DrainTimeout
  BY <1>15, KnownKept DEF BeginTurn, BeginBackground, BackoffOver, DrainTimeout, Goto, talkVars
<1>16. CASE InterruptSeen \/ StreamTaskMessage
  BY <1>16, KnownRead DEF InterruptSeen, StreamTaskMessage, Goto, runVars
<1>17. CASE StreamAssistant
  BY <1>17, KnownRead DEF StreamAssistant
<1>18. CASE StreamResult \/ StreamRetry \/ DrainMessage
  BY <1>18, KnownRead DEF StreamResult, StreamRetry, DrainMessage, Goto, talkVars
<1>19. CASE UNCHANGED vars
  BY <1>19, KnownKept DEF vars, runVars, talkVars
<1>20. CASE ReportFails \/ IdleResultFails \/ ReportError
  BY <1>20, KnownKept DEF ReportFails, IdleResultFails, ReportError, ServeRaises, ServeFails, Goto, talkVars
<1>21. CASE RelayFails
  BY <1>21, KnownRead DEF RelayFails, Goto
<1>22. QED
  BY <1>1, <1>2, <1>3, <1>4, <1>5, <1>6, <1>7, <1>8, <1>9, <1>10, <1>11, <1>12, <1>13,
     <1>14, <1>15, <1>16, <1>17, <1>18, <1>19, <1>20, <1>21
  DEF Next, Handlers, Owner, Ended

\* What a step may do to the attempt of a turn.
LEMMA AttemptSteps ==
    ASSUME TypeOK, [Next]_vars
    PROVE  \/ (RunDeferred \/ RunDequeued) /\ UNCHANGED relays
           \/ /\ UNCHANGED ran
              /\ \/ UNCHANGED <<pc, cur, relayed, relays>>
                 \/ pc = "stream" /\ relayed' /\ UNCHANGED <<pc, cur>>
                 \/ pc' \notin {"starting", "query", "stream", "backoff"}
                 \/ pc = "starting" /\ pc' = "query" /\ UNCHANGED <<cur, relays>>
                 \/ pc = "query" /\ pc' = "stream" /\ UNCHANGED <<cur, relays>>
                 \/ pc = "stream" /\ ~relayed /\ pc' = "backoff" /\ UNCHANGED <<cur, relays>>
                 \/ pc = "backoff" /\ pc' = "query" /\ UNCHANGED <<cur, relays>>
<1>1. CASE Cli \/ UNCHANGED vars
  BY <1>1 DEF Cli, SessVars, vars, turnVars, runVars, talkVars
<1>2. CASE \E u \in Turns : Enqueue(u) \/ Skip(u)
  BY <1>2 DEF Enqueue, Skip, runVars, talkVars
<1>3. CASE Interrupt \/ Reconnect \/ ReconnectInterrupted
  BY <1>3 DEF Interrupt, Reconnect, ReconnectInterrupted, ArmReconnect, turnVars, runVars, talkVars
<1>4. CASE Connect \/ LeaveForReconnect \/ Reopen
  BY <1>4 DEF Connect, LeaveForReconnect, Reopen, turnVars
<1>5. CASE ConnectFails \/ RecordFails
  BY <1>5 DEF ConnectFails, RecordFails, ServeRaises, ServeFails
<1>6. CASE RunDeferred \/ RunDequeued
  BY <1>6 DEF RunDeferred, RunDequeued, StartTurn, talkVars
<1>7. CASE HandleHeldBack \/ WakeWithMessage
  BY <1>7 DEF HandleHeldBack, WakeWithMessage, HandleIdle, turnVars
<1>8. CASE BeginWait \/ TimerFires \/ FinishTurn \/ StallTasks
  BY <1>8 DEF BeginWait, TimerFires, FinishTurn, StallTasks, turnVars
<1>9. CASE GetTask
  BY <1>9 DEF GetTask, runVars, talkVars
<1>10. CASE RecvTask
  BY <1>10 DEF RecvTask, turnVars, talkVars
<1>11. CASE WakeWithEof \/ WakeWithTurn
  BY <1>11 DEF WakeWithEof, WakeWithTurn, ServeRaises, ServeFails
<1>12. CASE IdleClose \/ Shutdown \/ EndSession
  BY <1>12 DEF IdleClose, Shutdown, EndSession, turnVars
<1>13. CASE BeginTurn \/ SendQuery
  BY <1>13 DEF BeginTurn, SendQuery, Goto, turnVars, talkVars
<1>14. CASE BeginBackground \/ DrainTimeout \/ DrainMessage
  BY <1>14 DEF BeginBackground, DrainTimeout, DrainMessage, Goto, turnVars
<1>15. CASE InterruptSeen
  BY <1>15 DEF InterruptSeen, AfterInterrupt, Goto, turnVars
<1>16. CASE StreamTaskMessage
  BY <1>16 DEF StreamTaskMessage, runVars, turnVars
<1>17. CASE StreamAssistant
  BY <1>17 DEF StreamAssistant, turnVars
<1>18. CASE StreamResult \/ StreamRetry
  BY <1>18 DEF StreamResult, StreamRetry, MayRetry, Goto, turnVars, talkVars
<1>19. CASE BackoffOver
  BY <1>19 DEF BackoffOver, Goto, turnVars, talkVars
<1>20. CASE ReportFails \/ IdleResultFails
  BY <1>20 DEF ReportFails, IdleResultFails, ServeRaises, ServeFails
<1>21. CASE RelayFails \/ ReportError
  BY <1>21 DEF RelayFails, ReportError, Goto, turnVars
<1>22. QED
  BY <1>1, <1>2, <1>3, <1>4, <1>5, <1>6, <1>7, <1>8, <1>9, <1>10, <1>11, <1>12, <1>13,
     <1>14, <1>15, <1>16, <1>17, <1>18, <1>19, <1>20, <1>21
  DEF Next, Handlers, Owner, Ended

\* Every step keeps what the CLI can know of.
LEMMA SaidStep ==
    ASSUME TInv, [Next]_vars
    PROVE  SaidInv'
<1> USE DEF TInv, IInv
<1>1. \A t \in Turns : t \in Elems(ran) => t \in Elems(ran)'
  <2>1. CASE UNCHANGED ran
    BY <2>1 DEF Elems
  <2>2. CASE RunDeferred \/ RunDequeued
    <3>1. PICK u \in Turns : StartTurn(u)
      BY <2>2 DEF RunDeferred, RunDequeued, TypeOK, TurnTypeOK, RunTypeOK
    <3>2. ran' = ran \/ Elems(ran)' = Elems(ran) \cup {u}
      BY <3>1, ElemsAppend DEF StartTurn, TypeOK, TurnTypeOK
    <3>3. QED
      BY <3>2 DEF Elems
  <2>3. QED
    BY <2>1, <2>2, AttemptSteps
<1>2. ASSUME NEW t \in Turns, Known(t)'
      PROVE  t \in Elems(ran)'
  BY <1>1, <1>2, KnownStep DEF SaidInv
<1>3. CASE RunDeferred \/ RunDequeued
  <2>1. UNCHANGED relays
    BY <1>3 DEF RunDeferred, RunDequeued, StartTurn, talkVars
  <2>2. PICK u \in Turns : StartTurn(u) /\ Held(u)
    BY <1>3 DEF RunDeferred, RunDequeued, TypeOK, TurnTypeOK, RunTypeOK, Held, InHand
  <2>3. CASE u \in skipped
    BY <1>2, <2>2, <2>3 DEF StartTurn, WasSkipped, SaidInv
  <2>4. CASE u \notin skipped
    <3>1. pc' = "starting" /\ cur' = u /\ u \in Elems(ran)'
      <4>1. pc' = "starting" /\ cur' = u /\ ran' = Append(ran, u)
        BY <2>2, <2>4 DEF StartTurn, WasSkipped
      <4>2. ran \in Seq(Turns)
        BY DEF TypeOK, TurnTypeOK
      <4>3. Elems(Append(ran, u)) = Elems(ran) \cup {u}
        BY <4>2, ElemsAppend
      <4>4. QED
        BY <4>1, <4>3 DEF Elems
    <3>2. ~Known(u)
      BY <2>2 DEF SaidInv, PlacesInv
    <3>3. Unanswered'
      BY <2>1, <3>1, <3>2 DEF Known, Unanswered
    <3>4. QED
      BY <1>2, <3>1, <3>3 DEF SaidInv
  <2>5. QED
    BY <2>3, <2>4
<1>4. CASE ~(RunDeferred \/ RunDequeued)
  <2>1. Elems(ran)' = Elems(ran)
    BY <1>4, AttemptSteps DEF Elems
  <2>2. UNCHANGED <<cur, relays>> => (Unanswered' <=> Unanswered)
    BY DEF Unanswered
  <2>3. QED
    BY <1>2, <1>4, <2>1, <2>2, AttemptSteps DEF SaidInv
<1>5. QED
  BY <1>3, <1>4

\* So it always holds.
LEMMA TInvHolds == Spec => []TInv
<1>1. Init => SaidInv
  BY DEF Init, CliInit, SaidInv, Known, Carries, Elems
<1>2. TInv /\ [Next]_vars => SaidInv'
  BY SaidStep
<1>3. QED
  BY <1>1, <1>2, IInvHolds, PTL DEF Spec, TInv

\* A prompt is not sent again once some of its reply was shown, for any number
\* of attempts, API errors and stops: a retry is taken only while nothing was
\* relayed, and a turn that starts has no reply yet (_run_turn, _attempt_turn).
THEOREM NeverResentAfterReply == Spec => NoResendAfterReply
<1>1. TInv => (pc = "query" /\ pc' = "stream" => \A u \in Turns : <<cur, u>> \notin relays)
  BY DEF TInv, SaidInv, Unanswered
<1>2. QED
  BY <1>1, TInvHolds, PTL DEF Spec, NoResendAfterReply

-----------------------------------------------------------------------------
(* Which prompt a reply is shown under.                                    *)

\* The stream holds nothing that a turn would read as its reply.
Aside(m) == m = Eof \/ m.kind \in TaskKinds \/ (m.by = Agent /\ m.kind # "eof")

\* What the reader of turn t takes for the end of its response.
Ends(m, t) == m = Eof \/ (m.by = t /\ m.kind \in ResultKinds)
Over(t) == \E i \in DOMAIN stream : Ends(stream[i], t)

\* No user turn is under way in the CLI or has left anything to be read.
Quiet ==
    /\ cliIn = <<>> /\ cliRun \in {NoRun, Agent}
    /\ \A i \in DOMAIN stream : Aside(stream[i])

\* The CLI is asked for turn t alone, and says nothing unasked before t is over.
Answering(t) ==
    /\ cliRun \in {NoRun, t, Agent}
    /\ cliIn # <<>> => cliIn = <<t>> /\ cliRun = NoRun
    /\ cliIn # <<>> \/ cliRun = t => ~Over(t)
    /\ cliIn = <<>> /\ cliRun # t /\ cliUp => Over(t)
    /\ \A i \in DOMAIN stream :
         /\ Aside(stream[i]) \/ (stream[i].by = t /\ stream[i].kind # "eof")
         /\ stream[i].by = Agent => \E j \in DOMAIN stream : j < i /\ Ends(stream[j], t)
         /\ Ends(stream[i], t) => \A j \in DOMAIN stream : j > i => Aside(stream[j])

\* The owner task reads, or discards, the response of the turn in its hand.
Reading == pc = "stream" \/ (pc = "drain" /\ cur # None)

\* What a leak cannot disturb: the stream of a subprocess that runs has not
\* ended, and what is not connected has no stream.
BaseInv ==
    /\ \A i \in DOMAIN stream : stream[i] = Eof => ~cliUp
    /\ cliRun # NoRun => cliUp
    /\ pc \in {"connect", "reopen"} => ~cliUp /\ stream = <<>> /\ cliIn = <<>>
    /\ pc # "idle" => recvd = None
    /\ pc \in {"bgstart", "bg"} => cur = None

MatchInv ==
    /\ Reading => Answering(cur)
    /\ ~Reading => Quiet
    /\ heldBack # None => Aside(heldBack)
    /\ recvd # None => Aside(recvd)

PairInv == BaseInv /\ (leaked \/ MatchInv)

\* The kinds of messages, told apart by what a reader does with them.
LEMMA Kinds ==
    \A m \in Msg : /\ m.kind \in TaskKinds \union ResultKinds \union {"asst", "eof"}
                   /\ m.kind \in TaskKinds => m.by = NoRun /\ m # Eof
                   /\ m.kind = "eof" /\ Aside(m) => m = Eof
                   /\ m.kind = "asst" /\ Aside(m) => m.by = Agent
                   /\ m = Eof => m.kind = "eof" /\ m.by = NoRun
                   /\ \A t \in Turns : Ends(m, t) => m.by # Agent /\ m.kind \in ResultKinds \union {"eof"}
BY DEF Eof, RunMsg, Msg, Runs, Agent, NoRun, TaskKinds, ResultKinds, Aside, Ends

\* The constants of the CLI are told apart.
LEMMA RunNames ==
    /\ Agent # NoRun /\ None \notin Turns /\ Unprompted \notin Turns
    /\ \A t \in Turns : t # Agent /\ t # NoRun
BY DEF Agent, NoRun

-----------------------------------------------------------------------------
(* The base.                                                               *)

\* What a step of the CLI does to the stream.
LEMMA CliAppends ==
    ASSUME CliTypeOK, CliNext
    PROVE  \/ UNCHANGED stream
           \/ \E m \in Msg : stream' = Append(stream, m) /\ cliUp /\ (m = Eof => ~cliUp')
<1>1. /\ \A r \in Runs : \A kind \in {"asst", "result", "retryable"} :
           RunMsg(kind, r) \in Msg /\ RunMsg(kind, r) # Eof
      /\ \A k \in Tasks : \A kind \in TaskKinds :
           TaskMsg(kind, k) \in Msg /\ TaskMsg(kind, k) # Eof
      /\ Eof \in Msg
  BY Messages DEF TaskKinds
<1>2. CASE CliExit
  BY <1>1, <1>2 DEF CliExit
<1>3. CASE CliTakeQuery \/ CliReactToTask
  BY <1>3 DEF CliTakeQuery, CliReactToTask
<1>4. CASE CliSay \/ CliFinishRun \/ CliApiError \/ CliInterrupt
  BY <1>1, <1>4 DEF CliSay, CliFinishRun, CliApiError, CliInterrupt, Emit, CliTypeOK
<1>5. ASSUME NEW k \in Tasks, CliLaunchTask(k) \/ CliTaskProgress(k) \/ CliTaskDone(k)
      PROVE  \/ UNCHANGED stream
             \/ \E m \in Msg : stream' = Append(stream, m) /\ cliUp /\ (m = Eof => ~cliUp')
  BY <1>1, <1>5 DEF CliLaunchTask, CliTaskProgress, CliTaskDone, Emit, TaskKinds
<1>6. QED
  BY <1>2, <1>3, <1>4, <1>5 DEF CliNext

\* The elements of a stream that got longer, or shorter.
LEMMA Appended ==
    ASSUME CliTypeOK, NEW m \in Msg, stream' = Append(stream, m)
    PROVE  /\ Len(stream) \in Nat /\ DOMAIN stream = 1 .. Len(stream)
           /\ DOMAIN stream' = 1 .. Len(stream) + 1
           /\ stream'[Len(stream) + 1] = m
           /\ \A i \in DOMAIN stream : i \in DOMAIN stream' /\ i < Len(stream) + 1 /\ stream'[i] = stream[i]
           /\ \A i \in DOMAIN stream' : i \in DOMAIN stream \/ i = Len(stream) + 1
<1>1. stream \in Seq(Msg)
  BY DEF CliTypeOK
<1>2. QED
  BY <1>1

LEMMA ReadOff ==
    ASSUME CliTypeOK, CliRead
    PROVE  /\ UNCHANGED <<cliUp, cliIn, cliRun>>
           /\ 1 \in DOMAIN stream /\ Head(stream) = stream[1] /\ Head(stream) \in Msg
           /\ \A i \in DOMAIN stream : i \in Nat /\ i >= 1 /\ stream[i] \in Msg
           /\ \A i \in DOMAIN stream' : i \in Nat /\ i + 1 > 1
           /\ \/ Head(stream) = Eof /\ stream' = stream
              \/ /\ Head(stream) # Eof
                 /\ \A i \in DOMAIN stream' : i + 1 \in DOMAIN stream /\ stream'[i] = stream[i + 1]
                 /\ \A i \in DOMAIN stream : i > 1 => i - 1 \in DOMAIN stream' /\ stream'[i - 1] = stream[i]
<1>1. stream \in Seq(Msg) /\ stream # <<>>
  BY DEF CliTypeOK, CliRead
<1>2. Head(stream) = stream[1] /\ 1 \in DOMAIN stream /\ Head(stream) \in Msg
  BY <1>1, HeadTailProperties
<1>3. DOMAIN stream = 1 .. Len(stream) /\ DOMAIN Tail(stream) = 1 .. Len(stream) - 1
      /\ Len(stream) \in Nat
      /\ \A i \in DOMAIN Tail(stream) : Tail(stream)[i] = stream[i + 1]
  BY <1>1, HeadTailProperties
<1>4. CASE Head(stream) = Eof
  BY <1>1, <1>2, <1>3, <1>4 DEF CliRead, Rest
<1>5. CASE Head(stream) # Eof
  <2>1. stream' = Tail(stream)
    BY <1>5 DEF CliRead, Rest
  <2>2. \A i \in DOMAIN stream' : i + 1 \in DOMAIN stream /\ stream'[i] = stream[i + 1]
    BY <1>3, <2>1
  <2>3. \A i \in DOMAIN stream : i > 1 => i - 1 \in DOMAIN stream' /\ stream'[i - 1] = stream[i]
    BY <1>3, <2>1
  <2>4. QED
    BY <1>1, <1>2, <1>3, <1>5, <2>2, <2>3 DEF CliRead
<1>6. QED
  BY <1>4, <1>5

\* A step that leaves the connection alone, or closes it.
LEMMA BaseKept ==
    ASSUME BaseInv, UNCHANGED <<cliUp, cliRun, stream, cliIn>> \/ CliClose,
           pc' \in {"connect", "reopen"} => CliClose \/ pc \in {"connect", "reopen"},
           recvd' = None \/ (recvd' = recvd /\ (pc' = pc \/ pc # "idle")),
           pc' \in {"bgstart", "bg"} => cur' = None
    PROVE  BaseInv'
<1>1. CASE CliClose
  BY <1>1 DEF CliClose, BaseInv
<1>2. CASE UNCHANGED <<cliUp, cliRun, stream, cliIn>> /\ ~CliClose
  BY <1>2 DEF BaseInv
<1>3. QED
  BY <1>1, <1>2

\* Reading does not bring the end of the stream forward.
LEMMA BaseRead ==
    ASSUME CliTypeOK, BaseInv, CliRead, pc' \notin {"connect", "reopen"},
           recvd' = None \/ pc' = "idle", pc' \in {"bgstart", "bg"} => cur' = None
    PROVE  BaseInv'
<1>1. (\A i \in DOMAIN stream' : \E j \in DOMAIN stream : stream'[i] = stream[j])
      /\ UNCHANGED <<cliUp, cliRun>>
  BY ReadOff
<1>2. QED
  BY <1>1 DEF BaseInv

LEMMA BaseCli ==
    ASSUME CliTypeOK, BaseInv, CliNext, UNCHANGED <<pc, cur, recvd>>
    PROVE  BaseInv'
<1>1. \A i \in DOMAIN stream' : stream'[i] = Eof => ~cliUp'
  <2>1. CASE UNCHANGED stream
    <3>1. cliUp' => cliUp
      BY DEF CliNext, CliTakeQuery, CliReactToTask, CliSay, CliFinishRun, CliApiError,
             CliInterrupt, CliExit, CliLaunchTask, CliTaskProgress, CliTaskDone
    <3>2. QED
      BY <2>1, <3>1 DEF BaseInv
  <2>2. ASSUME NEW m \in Msg, stream' = Append(stream, m), cliUp, m = Eof => ~cliUp'
        PROVE  \A i \in DOMAIN stream' : stream'[i] = Eof => ~cliUp'
    BY <2>2, Appended DEF BaseInv
  <2>3. QED
    BY <2>1, <2>2, CliAppends
<1>2. cliRun' # NoRun => cliUp'
  BY DEF BaseInv, CliNext, CliTakeQuery, CliReactToTask, CliSay, CliFinishRun, CliApiError,
         CliInterrupt, CliExit, CliLaunchTask, CliTaskProgress, CliTaskDone
<1>3. pc \in {"connect", "reopen"} => ~cliUp /\ cliRun = NoRun
  BY DEF BaseInv
<1>4. ~cliUp /\ cliRun = NoRun => UNCHANGED <<cliUp, stream, cliIn>>
  BY DEF CliNext, CliTakeQuery, CliReactToTask, CliSay, CliFinishRun, CliApiError, Emit,
         CliInterrupt, CliExit, CliLaunchTask, CliTaskProgress, CliTaskDone
<1>5. QED
  BY <1>1, <1>2, <1>3, <1>4 DEF BaseInv

\* Every step keeps the base.
LEMMA BaseStep ==
    ASSUME TypeOK, BaseInv, [Next]_vars
    PROVE  BaseInv'
<1> USE DEF TypeOK
<1>1. CASE Cli
  BY <1>1, BaseCli DEF Cli, SessVars, runVars
<1>2. CASE UNCHANGED vars \/ \E t \in Turns : Enqueue(t) \/ Skip(t)
  BY <1>2, BaseKept DEF BaseInv, vars, Enqueue, Skip, runVars, cliVars
<1>3. CASE Interrupt \/ Reconnect \/ ReconnectInterrupted
  BY <1>3, BaseKept
  DEF BaseInv, Interrupt, Reconnect, ReconnectInterrupted, CliWriteInterrupt, runVars, cliVars
<1>4. CASE Connect
  BY <1>4 DEF BaseInv, Connect, CliOpen
<1>5. CASE ConnectFails \/ RecordFails \/ ReportFails \/ IdleResultFails
  BY <1>5, BaseKept DEF ConnectFails, RecordFails, ReportFails, IdleResultFails, ServeRaises, ServeFails
<1>6. CASE LeaveForReconnect \/ Reopen
  BY <1>6, BaseKept DEF LeaveForReconnect, Reopen, cliVars
<1>7. CASE RunDeferred \/ RunDequeued
  BY <1>7, BaseKept DEF RunDeferred, RunDequeued, StartTurn, cliVars
<1>8. CASE HandleHeldBack \/ WakeWithMessage
  BY <1>8, BaseKept DEF HandleHeldBack, WakeWithMessage, HandleIdle, cliVars
<1>9. CASE BeginWait \/ TimerFires \/ FinishTurn
  BY <1>9, BaseKept DEF BaseInv, BeginWait, TimerFires, FinishTurn, cliVars
<1>10. CASE GetTask
  BY <1>10, BaseKept DEF BaseInv, GetTask, runVars, cliVars
<1>11. CASE RecvTask
  BY <1>11, BaseRead DEF RecvTask
<1>12. CASE WakeWithEof
  BY <1>12, BaseKept DEF WakeWithEof, ServeRaises, ServeFails
<1>13. CASE WakeWithTurn \/ StallTasks
  <2>1. pc' \in {"loop", "dequeued"} /\ recvd' = None /\ CancelRecv
    BY <1>13 DEF WakeWithTurn, StallTasks, BaseInv
  <2>2. QED
    BY <2>1, BaseKept, BaseRead DEF CancelRecv, cliVars
<1>14. CASE IdleClose \/ Shutdown \/ EndSession
  BY <1>14, BaseKept DEF BaseInv, IdleClose, Shutdown, EndSession, cliVars
<1>15. CASE BeginTurn \/ BackoffOver \/ BeginBackground \/ ReportError \/ DrainTimeout
  BY <1>15, BaseKept
  DEF BaseInv, BeginTurn, BackoffOver, BeginBackground, ReportError, DrainTimeout, Goto, cliVars
<1>16. CASE SendQuery
  BY <1>16 DEF BaseInv, SendQuery, CliWriteQuery, Goto
<1>17. CASE InterruptSeen \/ StreamTaskMessage \/ StreamAssistant
  <2>1. CliRead /\ pc' \in {pc, "finish", "drain"} /\ UNCHANGED <<cur, recvd>> /\ pc \in {"stream", "bg", "drain"}
    BY <1>17 DEF InterruptSeen, AfterInterrupt, StreamTaskMessage, StreamAssistant, Goto, runVars
  <2>2. QED
    BY <2>1, BaseRead DEF BaseInv
<1>18. CASE StreamResult \/ RelayFails \/ StreamRetry \/ DrainMessage
  <2>1. CliRead /\ pc' \in {"finish", "drain", "report", "backoff"} /\ recvd' = recvd /\ pc # "idle"
    BY <1>18 DEF StreamResult, RelayFails, StreamRetry, MayRetry, DrainMessage, Goto
  <2>2. QED
    BY <2>1, BaseRead DEF BaseInv
<1>19. QED
  BY <1>1, <1>2, <1>3, <1>4, <1>5, <1>6, <1>7, <1>8, <1>9, <1>10, <1>11, <1>12, <1>13,
     <1>14, <1>15, <1>16, <1>17, <1>18
  DEF Next, Handlers, Owner, Ended

-----------------------------------------------------------------------------
(* The stream while no response was left unread.                           *)

\* A message added to the stream.
LEMMA QuietAppend ==
    ASSUME CliTypeOK, NEW m \in Msg, Aside(m), Quiet, stream' = Append(stream, m),
           cliIn' = <<>>, cliRun' \in {NoRun, Agent}
    PROVE  Quiet'
<1>1. \A i \in DOMAIN stream' : stream'[i] = m \/ \E j \in DOMAIN stream : stream'[i] = stream[j]
  BY Appended
<1>2. QED
  BY <1>1 DEF Quiet, Aside

LEMMA AnsweringAppend ==
    ASSUME CliTypeOK, NEW t \in Turns, Answering(t), NEW m \in Msg,
           stream' = Append(stream, m),
           Aside(m) \/ (m.by = t /\ m.kind # "eof" /\ ~Over(t)),
           m.by = Agent => Over(t),
           cliRun' \in {NoRun, t, Agent},
           cliIn' # <<>> => cliIn' = <<t>> /\ cliRun' = NoRun,
           cliIn' # <<>> \/ cliRun' = t => ~Over(t) /\ ~Ends(m, t),
           cliIn' = <<>> /\ cliRun' # t /\ cliUp' => Over(t) \/ Ends(m, t)
    PROVE  Answering(t)'
<1>1. /\ Len(stream) \in Nat /\ DOMAIN stream = 1 .. Len(stream)
      /\ DOMAIN stream' = 1 .. Len(stream) + 1
      /\ stream'[Len(stream) + 1] = m
      /\ \A i \in DOMAIN stream : i \in DOMAIN stream' /\ i < Len(stream) + 1 /\ stream'[i] = stream[i]
      /\ \A i \in DOMAIN stream' : i \in DOMAIN stream \/ i = Len(stream) + 1
  BY Appended
<1>2. Over(t)' <=> Over(t) \/ Ends(m, t)
  BY <1>1 DEF Over, Ends
<1>3. ASSUME NEW i \in DOMAIN stream'
      PROVE  Aside(stream'[i]) \/ (stream'[i].by = t /\ stream'[i].kind # "eof")
  BY <1>1, <1>3 DEF Answering
<1>4. ASSUME NEW i \in DOMAIN stream', stream'[i].by = Agent
      PROVE  \E j \in DOMAIN stream' : j < i /\ Ends(stream'[j], t)
  <2>1. CASE i \in DOMAIN stream
    <3>1. PICK j \in DOMAIN stream : j < i /\ Ends(stream[j], t)
      BY <1>1, <1>4, <2>1 DEF Answering
    <3>2. QED
      BY <1>1, <3>1
  <2>2. CASE i = Len(stream) + 1
    <3>1. PICK j \in DOMAIN stream : Ends(stream[j], t)
      BY <1>1, <1>4, <2>2 DEF Over
    <3>2. QED
      BY <1>1, <2>2, <3>1
  <2>3. QED
    BY <1>1, <2>1, <2>2
<1>5. ASSUME NEW i \in DOMAIN stream', Ends(stream'[i], t), NEW j \in DOMAIN stream', j > i
      PROVE  Aside(stream'[j])
  <2>1. i \in DOMAIN stream
    BY <1>1, <1>5
  <2>2. CASE j \in DOMAIN stream
    BY <1>1, <1>5, <2>1, <2>2 DEF Answering
  <2>3. CASE j = Len(stream) + 1
    BY <1>1, <1>5, <2>1, <2>3 DEF Over
  <2>4. QED
    BY <1>1, <2>2, <2>3
<1>6. QED
  BY <1>2, <1>3, <1>4, <1>5 DEF Answering, Aside, Ends

\* A message read: what ends a response leaves nothing of it behind.
LEMMA QuietRead ==
    ASSUME CliTypeOK, Quiet, CliRead
    PROVE  Quiet' /\ Aside(Head(stream)) /\ Head(stream) \in Msg
<1>1. \A i \in DOMAIN stream' : \E j \in DOMAIN stream : stream'[i] = stream[j]
  BY ReadOff
<1>2. \A i \in DOMAIN stream' : Aside(stream'[i])
  BY <1>1 DEF Quiet
<1>3. UNCHANGED <<cliIn, cliRun>> /\ Head(stream) \in Msg /\ Aside(Head(stream))
  BY ReadOff DEF Quiet
<1>4. QED
  BY <1>2, <1>3 DEF Quiet, Aside

LEMMA AnsweringRead ==
    ASSUME CliTypeOK, NEW t \in Turns, Answering(t), CliRead
    PROVE  /\ Head(stream) \in Msg
           /\ Ends(Head(stream), t) => Quiet'
           /\ ~Ends(Head(stream), t) => Answering(t)'
           /\ Ends(Head(stream), t) <=> Head(stream).kind \in ResultKinds \union {"eof"}
           /\ Head(stream).kind = "asst" => Head(stream).by = t
<1>1. /\ 1 \in DOMAIN stream /\ Head(stream) = stream[1] /\ Head(stream) \in Msg
      /\ \A i \in DOMAIN stream : i \in Nat /\ i >= 1 /\ stream[i] \in Msg
  BY ReadOff
<1>2. Head(stream).by # Agent
  BY <1>1 DEF Answering
<1>3. Ends(Head(stream), t) <=> Head(stream).kind \in ResultKinds \union {"eof"}
  <2>1. Aside(Head(stream)) => Head(stream) = Eof \/ Head(stream).kind \in TaskKinds
    BY <1>2 DEF Aside
  <2>2. Aside(Head(stream)) \/ (Head(stream).by = t /\ Head(stream).kind # "eof")
    BY <1>1 DEF Answering
  <2>3. Head(stream).kind \in TaskKinds => Head(stream).kind \notin ResultKinds \union {"eof"}
    BY DEF TaskKinds, ResultKinds
  <2>4. Head(stream).kind \in TaskKinds => Head(stream).by # t /\ Head(stream) # Eof
    BY <1>1, Kinds, RunNames
  <2>5. QED
    BY <1>1, <2>1, <2>2, <2>3, <2>4, Kinds DEF Ends, ResultKinds
<1>4. Head(stream).kind = "asst" => Head(stream).by = t
  BY <1>1, <1>2, Kinds DEF Answering
<1>5. ASSUME Ends(Head(stream), t)
      PROVE  Quiet'
  <2>1. Over(t)
    BY <1>1, <1>5 DEF Over
  <2>2. cliIn' = <<>> /\ cliRun' \in {NoRun, Agent}
    BY <2>1, ReadOff DEF Answering
  <2>3. \A j \in DOMAIN stream : j > 1 => Aside(stream[j])
    BY <1>1, <1>5 DEF Answering
  <2>4. ASSUME NEW i \in DOMAIN stream'
        PROVE  Aside(stream'[i])
    <3>1. CASE Head(stream) = Eof /\ stream' = stream
      BY <1>1, <2>3, <2>4, <3>1 DEF Aside
    <3>2. CASE /\ \A k \in DOMAIN stream' : k + 1 \in DOMAIN stream /\ stream'[k] = stream[k + 1]
               /\ \A k \in DOMAIN stream : k > 1 => k - 1 \in DOMAIN stream' /\ stream'[k - 1] = stream[k]
      <4>1. i + 1 \in DOMAIN stream /\ stream'[i] = stream[i + 1]
        BY <2>4, <3>2
      <4>2. i + 1 > 1
        BY <2>4, ReadOff
      <4>3. QED
        BY <2>3, <4>1, <4>2
    <3>3. QED
      BY <3>1, <3>2, ReadOff
  <2>5. QED
    BY <2>2, <2>4 DEF Quiet, Aside
<1>6. ASSUME ~Ends(Head(stream), t)
      PROVE  Answering(t)'
  <2>1. /\ Head(stream) # Eof
        /\ \A k \in DOMAIN stream' : k \in Nat /\ k + 1 \in DOMAIN stream /\ stream'[k] = stream[k + 1]
        /\ \A k \in DOMAIN stream : k > 1 => k - 1 \in DOMAIN stream' /\ stream'[k - 1] = stream[k]
    BY <1>6, ReadOff DEF Ends
  <2>2. UNCHANGED <<cliUp, cliIn, cliRun>>
    BY ReadOff
  <2>3. \A k \in DOMAIN stream : Ends(stream[k], t) => k > 1
    BY <1>1, <1>6
  <2>4. Over(t)' <=> Over(t)
    <3>1. ASSUME Over(t)
          PROVE  Over(t)'
      <4>1. PICK k \in DOMAIN stream : Ends(stream[k], t)
        BY <3>1 DEF Over
      <4>2. k - 1 \in DOMAIN stream' /\ stream'[k - 1] = stream[k]
        BY <2>1, <2>3, <4>1
      <4>3. QED
        BY <4>1, <4>2 DEF Over, Ends
    <3>2. ASSUME Over(t)'
          PROVE  Over(t)
      BY <2>1, <3>2 DEF Over, Ends
    <3>3. QED
      BY <3>1, <3>2
  <2>5. ASSUME NEW i \in DOMAIN stream'
        PROVE  Aside(stream'[i]) \/ (stream'[i].by = t /\ stream'[i].kind # "eof")
    BY <2>1, <2>5 DEF Answering
  <2>6. ASSUME NEW i \in DOMAIN stream', stream'[i].by = Agent
        PROVE  \E j \in DOMAIN stream' : j < i /\ Ends(stream'[j], t)
    <3>1. i \in Nat /\ i + 1 \in DOMAIN stream /\ stream[i + 1].by = Agent
      BY <2>1, <2>6
    <3>2. PICK j \in DOMAIN stream : j < i + 1 /\ Ends(stream[j], t)
      BY <3>1 DEF Answering
    <3>3. j > 1 /\ j \in Nat
      BY <1>1, <2>3, <3>2
    <3>4. j - 1 \in DOMAIN stream' /\ stream'[j - 1] = stream[j]
      BY <2>1, <3>3
    <3>5. j - 1 < i
      BY <3>1, <3>2, <3>3
    <3>6. QED
      BY <3>2, <3>4, <3>5
  <2>7. ASSUME NEW i \in DOMAIN stream', Ends(stream'[i], t), NEW j \in DOMAIN stream', j > i
        PROVE  Aside(stream'[j])
    <3>1. /\ i + 1 \in DOMAIN stream /\ stream'[i] = stream[i + 1] /\ i \in Nat
          /\ j + 1 \in DOMAIN stream /\ stream'[j] = stream[j + 1] /\ j \in Nat
      BY <2>1
    <3>2. j + 1 > i + 1
      BY <2>7, <3>1
    <3>3. QED
      BY <2>7, <3>1, <3>2 DEF Answering
  <2>8. QED
    BY <2>2, <2>4, <2>5, <2>6, <2>7 DEF Answering, Aside, Ends
<1>7. QED
  BY <1>1, <1>3, <1>4, <1>5, <1>6

\* What the CLI says by itself keeps to the turn it is busy with.
LEMMA CliAnswers ==
    ASSUME CliTypeOK, BaseInv, CliNext, ~SpokenAhead,
           ~(CliInterrupt /\ cliRun \in Turns /\ stream' = stream),
           NEW t \in Turns, Answering(t)
    PROVE  Answering(t)'
<1> USE DEF CliTypeOK
<1>1. \A r \in Runs : \A kind \in {"asst", "result", "retryable"} :
          RunMsg(kind, r) \in Msg /\ RunMsg(kind, r).by = r /\ RunMsg(kind, r).kind = kind
  BY Messages
<1>2. /\ Eof \in Msg /\ Aside(Eof) /\ Ends(Eof, t) /\ Eof.by = NoRun
      /\ \A k \in Tasks : \A kind \in TaskKinds :
           /\ TaskMsg(kind, k) \in Msg /\ Aside(TaskMsg(kind, k))
           /\ TaskMsg(kind, k).by = NoRun /\ ~Ends(TaskMsg(kind, k), t)
  BY Messages, Kinds, RunNames DEF Aside, Ends
<1>3. Agent # NoRun /\ t # Agent /\ t # NoRun
  BY RunNames
<1>4. CASE CliTakeQuery
  <2>1. cliIn = <<t>> /\ cliRun' = t /\ cliIn' = <<>> /\ UNCHANGED stream
    BY <1>4 DEF CliTakeQuery, Answering
  <2>2. ~Over(t)
    BY <2>1 DEF Answering
  <2>3. QED
    BY <1>3, <2>1, <2>2 DEF Answering, Aside, Ends, Over
<1>5. CASE CliReactToTask
  <2>1. cliIn = <<>> /\ cliRun = NoRun /\ cliUp /\ cliRun' = Agent /\ UNCHANGED <<cliIn, stream>>
    BY <1>5 DEF CliReactToTask, SpokenAhead
  <2>2. Over(t)
    BY <1>3, <2>1 DEF Answering
  <2>3. QED
    BY <1>3, <2>1, <2>2 DEF Answering, Aside, Ends, Over
<1>6. CASE CliSay \/ CliFinishRun \/ CliApiError
  <2>1. cliRun \in {t, Agent} /\ cliIn' = <<>> /\ cliIn = <<>> /\ cliRun' \in {cliRun, NoRun} /\ cliUp
    BY <1>6 DEF CliSay, CliFinishRun, CliApiError, Emit, Answering
  <2>2. PICK m \in Msg : /\ m.by = cliRun /\ m.kind # "eof" /\ stream' = Append(stream, m)
                         /\ m.kind \in ResultKinds <=> cliRun' = NoRun
    <3>1. PICK kind \in {"asst", "result", "retryable"} :
             /\ stream' = Append(stream, RunMsg(kind, cliRun))
             /\ kind \in ResultKinds <=> cliRun' = NoRun
      BY <1>6 DEF CliSay, CliFinishRun, CliApiError, Emit, ResultKinds
    <3>2. /\ RunMsg(kind, cliRun) \in Msg /\ RunMsg(kind, cliRun).by = cliRun
          /\ RunMsg(kind, cliRun).kind = kind
      BY <1>1
    <3>3. QED
      BY <3>1, <3>2
  <2>3. CASE cliRun = t
    <3>1. ~Over(t) /\ m # Eof /\ m.by # Agent
      BY <1>3, <2>2, <2>3, Kinds DEF Answering
    <3>2. Ends(m, t) <=> cliRun' = NoRun
      BY <2>2, <2>3, <3>1 DEF Ends
    <3>3. QED
      BY <1>3, <2>1, <2>2, <2>3, <3>1, <3>2, AnsweringAppend
  <2>4. CASE cliRun = Agent
    <3>1. Over(t) /\ Aside(m)
      BY <1>3, <2>1, <2>2, <2>4 DEF Answering, Aside
    <3>2. QED
      BY <1>3, <2>1, <2>2, <2>4, <3>1, AnsweringAppend
  <2>5. QED
    BY <2>1, <2>3, <2>4
<1>7. CASE CliInterrupt
  <2>1. cliIn' = cliIn /\ cliRun' = NoRun /\ cliUp /\ UNCHANGED cliUp
    BY <1>7 DEF CliInterrupt
  <2>2. CASE stream' = stream
    <3>1. cliRun # t
      BY <1>7, <2>2
    <3>2. QED
      BY <1>3, <2>1, <2>2, <3>1 DEF Answering, Aside, Ends, Over
  <2>3. CASE stream' # stream
    <3>1. cliRun \in {t, Agent} /\ stream' = Append(stream, RunMsg("result", cliRun)) /\ cliIn = <<>>
      BY <1>7, <2>3 DEF CliInterrupt, Emit, Answering
    <3>2. PICK m \in Msg : m = RunMsg("result", cliRun) /\ m.by = cliRun /\ m.kind = "result"
      BY <1>1, <3>1
    <3>3. CASE cliRun = t
      <4>1. ~Over(t) /\ Ends(m, t)
        BY <3>2, <3>3 DEF Answering, Ends, ResultKinds
      <4>2. QED
        BY <1>3, <2>1, <3>1, <3>2, <3>3, <4>1, AnsweringAppend
    <3>4. CASE cliRun = Agent
      <4>1. Over(t) /\ Aside(m)
        BY <1>3, <2>1, <3>1, <3>2, <3>4 DEF Answering, Aside
      <4>2. QED
        BY <1>3, <2>1, <3>1, <3>2, <3>4, <4>1, AnsweringAppend
    <3>5. QED
      BY <3>1, <3>3, <3>4
  <2>4. QED
    BY <2>2, <2>3
<1>8. CASE CliExit
  <2>1. cliIn' = <<>> /\ cliRun' = NoRun /\ stream' = Append(stream, Eof)
    BY <1>8 DEF CliExit
  <2>2. QED
    BY <1>2, <1>3, <2>1, AnsweringAppend
<1>9. ASSUME NEW k \in Tasks, CliLaunchTask(k) \/ CliTaskProgress(k) \/ CliTaskDone(k)
      PROVE  Answering(t)'
  <2>1. UNCHANGED <<cliIn, cliRun, cliUp>>
    BY <1>9 DEF CliLaunchTask, CliTaskProgress, CliTaskDone
  <2>2. CASE stream' = stream
    BY <2>1, <2>2 DEF Answering, Aside, Ends, Over
  <2>3. ASSUME NEW kind \in TaskKinds, stream' = Append(stream, TaskMsg(kind, k))
        PROVE  Answering(t)'
    <3>1. PICK m \in Msg : /\ m = TaskMsg(kind, k) /\ Aside(m) /\ m.by = NoRun /\ ~Ends(m, t)
      BY <1>2
    <3>2. /\ cliRun \in {NoRun, t, Agent} /\ (cliIn # <<>> => cliIn = <<t>> /\ cliRun = NoRun)
          /\ cliIn # <<>> \/ cliRun = t => ~Over(t)
          /\ cliIn = <<>> /\ cliRun # t /\ cliUp => Over(t)
      BY DEF Answering
    <3>3. QED
      BY <1>3, <2>1, <2>3, <3>1, <3>2, AnsweringAppend
  <2>4. QED
    BY <1>9, <2>2, <2>3 DEF CliLaunchTask, CliTaskProgress, CliTaskDone, Emit, TaskKinds
<1>10. QED
  BY <1>4, <1>5, <1>6, <1>7, <1>8, <1>9 DEF CliNext

\* A CLI that was asked nothing says nothing of any turn.
LEMMA CliStaysQuiet ==
    ASSUME CliTypeOK, CliNext, Quiet
    PROVE  Quiet'
<1>1. /\ Eof \in Msg /\ Aside(Eof)
      /\ \A k \in Tasks : \A kind \in TaskKinds : TaskMsg(kind, k) \in Msg /\ Aside(TaskMsg(kind, k))
      /\ \A kind \in ResultKinds \union {"asst"} :
            RunMsg(kind, Agent) \in Msg /\ Aside(RunMsg(kind, Agent))
  BY Messages DEF Aside, Runs, ResultKinds
<1>2. cliIn' = <<>> /\ cliRun' \in {NoRun, Agent}
  BY DEF CliNext, Quiet, CliTakeQuery, CliReactToTask, CliSay, CliFinishRun, CliApiError,
         CliInterrupt, CliExit, CliLaunchTask, CliTaskProgress, CliTaskDone
<1>3. stream' = stream \/ \E m \in Msg : Aside(m) /\ stream' = Append(stream, m)
  <2>1. CASE CliTakeQuery \/ CliReactToTask
    BY <2>1 DEF CliTakeQuery, CliReactToTask
  <2>2. CASE CliSay \/ CliFinishRun \/ CliApiError \/ CliInterrupt
    <3>1. cliRun = NoRun \/ cliRun = Agent
      BY DEF Quiet
    <3>2. stream' = stream \/ \E kind \in ResultKinds \union {"asst"} :
                                cliRun # NoRun /\ stream' = Append(stream, RunMsg(kind, cliRun))
      BY <2>2 DEF CliSay, CliFinishRun, CliApiError, CliInterrupt, Emit, CliTypeOK, ResultKinds
    <3>3. ASSUME NEW kind \in ResultKinds \union {"asst"}, cliRun # NoRun,
                 stream' = Append(stream, RunMsg(kind, cliRun))
          PROVE  \E m \in Msg : Aside(m) /\ stream' = Append(stream, m)
      <4>1. cliRun = Agent
        BY <3>1, <3>3
      <4>2. RunMsg(kind, cliRun) = RunMsg(kind, Agent)
        BY <4>1
      <4>3. RunMsg(kind, Agent) \in Msg /\ Aside(RunMsg(kind, Agent))
        BY <1>1
      <4>4. QED
        BY <3>3, <4>2, <4>3
    <3>4. QED
      BY <3>2, <3>3
  <2>3. CASE CliExit
    BY <1>1, <2>3 DEF CliExit
  <2>4. ASSUME NEW k \in Tasks, CliLaunchTask(k) \/ CliTaskProgress(k) \/ CliTaskDone(k)
        PROVE  stream' = stream \/ \E m \in Msg : Aside(m) /\ stream' = Append(stream, m)
    BY <1>1, <2>4 DEF CliLaunchTask, CliTaskProgress, CliTaskDone, Emit, TaskKinds
  <2>5. QED
    BY <2>1, <2>2, <2>3, <2>4 DEF CliNext
<1>4. QED
  BY <1>2, <1>3, QuietAppend DEF Quiet, Aside

\* A step that leaves the CLI alone, or closes it, where no response is read.
LEMMA MatchKept ==
    ASSUME MatchInv, UNCHANGED <<cliUp, cliIn, cliRun, stream>> \/ CliClose, ~Reading',
           ~Reading \/ CliClose, heldBack' \in {heldBack, None}, recvd' \in {recvd, None}
    PROVE  MatchInv'
<1>1. Quiet'
  BY DEF CliClose, MatchInv, Quiet, Aside
<1>2. QED
  BY <1>1 DEF MatchInv, Aside

\* A step that leaves the owner task and the stream as they are.
LEMMA MatchStays ==
    ASSUME MatchInv, UNCHANGED <<pc, cur, heldBack, recvd>>,
           UNCHANGED <<cliUp, cliIn, cliRun, stream>>
    PROVE  MatchInv'
BY DEF MatchInv, Reading, Quiet, Answering, Over, Ends, Aside

\* Reading the stream where no response is expected.
LEMMA MatchIdleRead ==
    ASSUME TypeOK, MatchInv, CliRead, ~Reading, ~Reading',
           heldBack' \in {heldBack, Head(stream)}, recvd' \in {recvd, Head(stream)}
    PROVE  MatchInv'
<1>1. Quiet' /\ Aside(Head(stream))
  BY QuietRead DEF MatchInv, TypeOK
<1>2. QED
  BY <1>1 DEF MatchInv, Aside

\* Reading the response of the turn in hand: it goes on, or it ends.
LEMMA MatchResponseRead ==
    ASSUME TypeOK, MatchInv, CliRead, Reading, UNCHANGED <<cur, heldBack, recvd>>,
           \/ Reading' /\ Head(stream).kind \notin ResultKinds \union {"eof"}
           \/ ~Reading' /\ Head(stream).kind \in ResultKinds \union {"eof"}
    PROVE  MatchInv'
<1>1. PICK t \in Turns : t = cur
  BY DEF Reading, TypeOK, RunTypeOK
<1>2. CliTypeOK /\ Answering(t)
  BY <1>1 DEF MatchInv, TypeOK
<1>3. /\ Reading' => Answering(t)'
      /\ ~Reading' => Quiet'
  BY <1>2, AnsweringRead
<1>4. Answering(t)' => Answering(cur)'
  BY <1>1 DEF Answering, Aside, Ends, Over
<1>5. QED
  BY <1>3, <1>4 DEF MatchInv, Aside

\* Every step at which no response is left unread keeps the stream in order.
LEMMA MatchStep ==
    ASSUME TypeOK, BaseInv, MatchInv, [Next]_vars, ~LeftUnread, ~SpokenAhead
    PROVE  MatchInv'
<1>1. CASE Cli
  <2>1. CliTypeOK /\ CliNext /\ UNCHANGED <<pc, cur, heldBack, recvd>>
    BY <1>1 DEF Cli, SessVars, runVars, TypeOK
  <2>2. ASSUME Reading
        PROVE  Answering(cur)'
    <3>1. PICK t \in Turns : t = cur
      BY <2>2 DEF Reading, TypeOK, RunTypeOK
    <3>2. Answering(t)
      BY <2>2, <3>1 DEF MatchInv
    <3>3. Answering(t)'
      BY <2>1, <3>2, CliAnswers DEF LeftUnread
    <3>4. QED
      BY <2>1, <3>1, <3>3 DEF Answering, Aside, Ends, Over
  <2>3. ~Reading => Quiet'
    BY <2>1, CliStaysQuiet DEF MatchInv
  <2>4. QED
    BY <2>1, <2>2, <2>3 DEF MatchInv, Reading, Aside
<1>2. CASE SendQuery
  <2>1. /\ pc = "query" /\ pc' = "stream" /\ UNCHANGED <<cur, heldBack, recvd>>
        /\ Quiet /\ cliRun = NoRun
        /\ cliIn' = IF cliUp THEN Append(cliIn, cur) ELSE cliIn
        /\ UNCHANGED <<cliUp, cliRun, stream>>
        /\ \A i \in DOMAIN stream : stream[i].by # Agent
    BY <1>2 DEF SendQuery, CliWriteQuery, Goto, MatchInv, Reading, SpokenAhead, Quiet, Elems
  <2>2. PICK t \in Turns : t = cur
    BY <2>1 DEF TypeOK, RunTypeOK
  <2>3. \A i \in DOMAIN stream : stream[i] \in Msg
    BY DEF TypeOK, CliTypeOK
  <2>4. ASSUME NEW i \in DOMAIN stream
        PROVE  /\ Aside(stream[i]) /\ stream[i].by # Agent
               /\ Ends(stream[i], t) => ~cliUp
    <3>1. Aside(stream[i]) /\ stream[i].by # Agent
      BY <2>1, <2>4 DEF Quiet
    <3>2. stream[i] = Eof => ~cliUp
      BY DEF BaseInv
    <3>3. stream[i] # Eof => ~Ends(stream[i], t)
      BY <2>3, <3>1, Kinds, RunNames DEF Ends, Aside
    <3>4. QED
      BY <3>1, <3>2, <3>3
  <2>5. IF cliUp THEN cliIn' = <<t>> ELSE cliIn' = <<>>
    BY <2>1, <2>2 DEF Quiet
  <2>6. cliUp => ~Over(t)
    BY <2>4 DEF Over
  <2>7. Answering(t)'
    BY <2>1, <2>4, <2>5, <2>6, RunNames DEF Answering, Aside, Ends, Over
  <2>8. Answering(cur)'
    BY <2>1, <2>2, <2>7 DEF Answering, Aside, Ends, Over
  <2>9. QED
    BY <2>1, <2>8 DEF MatchInv, Reading, Aside
<1>3. CASE Connect
  BY <1>3 DEF Connect, CliOpen, MatchInv, Reading, Quiet, Aside
<1>4. CASE \E u \in Turns : Enqueue(u) \/ Skip(u)
  BY <1>4, MatchStays DEF Enqueue, Skip, runVars, cliVars
<1>5. CASE Interrupt \/ Reconnect \/ ReconnectInterrupted
  BY <1>5, MatchStays
  DEF Interrupt, Reconnect, ReconnectInterrupted, CliWriteInterrupt, runVars, cliVars
<1>6. CASE GetTask \/ UNCHANGED vars
  BY <1>6, MatchStays DEF GetTask, vars, runVars, cliVars
<1>7. CASE LeaveForReconnect \/ Reopen
  BY <1>7, MatchKept DEF LeaveForReconnect, Reopen, Reading, cliVars
<1>8. CASE ConnectFails \/ RecordFails \/ ReportFails
  BY <1>8, MatchKept DEF ConnectFails, RecordFails, ReportFails, ServeRaises, ServeFails, Reading
<1>9. CASE IdleResultFails
  BY <1>9, MatchKept DEF IdleResultFails, ServeFails, Reading
<1>10. CASE RunDeferred \/ RunDequeued
  BY <1>10, MatchKept DEF RunDeferred, RunDequeued, StartTurn, Reading, cliVars
<1>11. CASE HandleHeldBack \/ WakeWithMessage
  <2>1. /\ pc \in {"loop", "idle"} /\ pc' \in {"loop", "bgstart"} /\ UNCHANGED cliVars
        /\ heldBack' \in {heldBack, None} /\ recvd' \in {recvd, None}
    BY <1>11 DEF HandleHeldBack, WakeWithMessage, HandleIdle
  <2>2. QED
    BY <2>1, MatchKept DEF Reading, cliVars
<1>12. CASE BeginWait \/ TimerFires
  BY <1>12, MatchKept DEF BeginWait, TimerFires, Reading, cliVars
<1>13. CASE RecvTask
  BY <1>13, MatchIdleRead DEF RecvTask, Reading
<1>14. CASE WakeWithEof
  BY <1>14, MatchKept DEF WakeWithEof, ServeRaises, ServeFails, Reading
<1>15. CASE WakeWithTurn \/ StallTasks
  <2>1. /\ pc \in {"idle", "expired"} /\ pc' \in {"loop", "dequeued"} /\ recvd' = recvd /\ CancelRecv
    BY <1>15 DEF WakeWithTurn, StallTasks
  <2>2. CASE UNCHANGED <<heldBack, cliVars>>
    BY <2>1, <2>2, MatchKept DEF Reading, cliVars
  <2>3. CASE CliRead /\ heldBack' = Head(stream)
    BY <2>1, <2>3, MatchIdleRead DEF Reading
  <2>4. QED
    BY <2>1, <2>2, <2>3 DEF CancelRecv
<1>16. CASE IdleClose \/ Shutdown
  BY <1>16, MatchKept DEF IdleClose, Shutdown, Reading
<1>17. CASE BeginTurn \/ BackoffOver \/ BeginBackground \/ ReportError
  BY <1>17, MatchKept DEF BeginTurn, BackoffOver, BeginBackground, ReportError, Goto, Reading, cliVars
<1>18. CASE EndSession \/ FinishTurn
  BY <1>18, MatchKept DEF EndSession, FinishTurn, Reading, cliVars
<1>19. CASE DrainTimeout
  <2>1. /\ pc' = "finish" /\ UNCHANGED <<heldBack, recvd>>
        /\ stream' = <<>> /\ cliRun' = cliRun /\ cliIn' = <<>> /\ cliRun \notin Turns
    BY <1>19 DEF DrainTimeout, Goto, cliVars, LeftUnread
  <2>2. cliRun \in {NoRun, Agent}
    BY <2>1 DEF TypeOK, CliTypeOK, Runs
  <2>3. QED
    BY <2>1, <2>2 DEF MatchInv, Reading, Quiet, Aside
<1>20. CASE pc \in {"stream", "drain"} /\ Reading /\
            (InterruptSeen \/ StreamTaskMessage \/ StreamAssistant \/ StreamResult
             \/ StreamRetry \/ RelayFails \/ DrainMessage)
  <2>1. Head(stream) \in Msg /\ CliRead /\ UNCHANGED <<cur, heldBack, recvd>>
    BY <1>20, ReadOff
    DEF InterruptSeen, StreamTaskMessage, StreamAssistant, StreamResult, StreamRetry, RelayFails,
        DrainMessage, Goto, runVars, TypeOK
  <2>2. cur # None
    BY <1>20, RunNames DEF Reading, TypeOK, RunTypeOK
  <2>3. \/ pc' \in {"stream", "drain"} /\ Head(stream).kind \in TaskKinds \union {"asst"}
        \/ pc' \notin {"stream", "drain"} /\ Head(stream).kind \in ResultKinds \union {"eof"}
    <3>1. Head(stream).kind \in TaskKinds \union ResultKinds \union {"asst", "eof"}
      BY <2>1, Kinds
    <3>2. CASE InterruptSeen
      BY <1>20, <3>1, <3>2 DEF InterruptSeen, AfterInterrupt, Goto
    <3>3. CASE StreamTaskMessage \/ StreamAssistant
      BY <1>20, <3>3 DEF StreamTaskMessage, StreamAssistant, runVars
    <3>4. CASE StreamResult \/ StreamRetry
      BY <1>20, <3>4 DEF StreamResult, StreamRetry, Goto, ResultKinds
    <3>5. CASE RelayFails
      BY <1>20, <3>5 DEF RelayFails, LeftUnread, Goto, Reading
    <3>6. CASE DrainMessage
      BY <1>20, <3>1, <3>6 DEF DrainMessage, Goto
    <3>7. QED
      BY <1>20, <3>2, <3>3, <3>4, <3>5, <3>6
  <2>4. \/ Reading' /\ Head(stream).kind \notin ResultKinds \union {"eof"}
        \/ ~Reading' /\ Head(stream).kind \in ResultKinds \union {"eof"}
    BY <2>1, <2>2, <2>3 DEF Reading, TaskKinds, ResultKinds
  <2>5. QED
    BY <1>20, <2>1, <2>4, MatchResponseRead
<1>21. CASE ~Reading /\ (InterruptSeen \/ StreamTaskMessage \/ StreamAssistant \/ StreamResult
                         \/ StreamRetry \/ RelayFails \/ DrainMessage)
  <2>1. CliRead /\ UNCHANGED <<cur, heldBack, recvd>>
    BY <1>21
    DEF InterruptSeen, StreamTaskMessage, StreamAssistant, StreamResult, StreamRetry, RelayFails,
        DrainMessage, Goto, runVars
  <2>2. cur = None /\ pc # "stream"
    BY <1>21
    DEF Reading, BaseInv, InterruptSeen, StreamTaskMessage, StreamAssistant, StreamResult,
        StreamRetry, MayRetry, RelayFails, DrainMessage
  <2>3. pc' # "stream"
    BY <1>21, <2>2
    DEF InterruptSeen, AfterInterrupt, StreamTaskMessage, StreamAssistant, StreamResult,
        StreamRetry, RelayFails, DrainMessage, Goto, runVars
  <2>4. QED
    BY <1>21, <2>1, <2>2, <2>3, MatchIdleRead DEF Reading
<1>22. pc \in {"stream", "drain"} \/ ~Reading
  BY DEF Reading
<1>23. QED
  BY <1>1, <1>2, <1>3, <1>4, <1>5, <1>6, <1>7, <1>8, <1>9, <1>10, <1>11, <1>12, <1>13,
     <1>14, <1>15, <1>16, <1>17, <1>18, <1>19, <1>20, <1>21, <1>22
  DEF Next, Handlers, Owner, Ended

\* What is shown of a reply while no response was left unread.
LEMMA RelayedInPlace ==
    ASSUME TypeOK, BaseInv, MatchInv, [Next]_vars, NEW x \in relays' \ relays,
           x[1] \in Turns \/ x[2] \in Turns
    PROVE  x[1] = x[2]
<1>1. \/ UNCHANGED relays
      \/ \E m \in {heldBack, recvd} : m # None /\ m.kind = "asst" /\ relays' = relays \union {<<m.by, Unprompted>>}
      \/ /\ pc \in {"stream", "bg"} /\ CliRead /\ Head(stream).kind = "asst"
         /\ relays' = relays \union {<<Head(stream).by, Under>>}
  <2>1. CASE HandleHeldBack \/ WakeWithMessage
    BY <2>1 DEF HandleHeldBack, WakeWithMessage, HandleIdle, StartsTurn
  <2>2. CASE StreamAssistant \/ RelayFails
    BY <2>2 DEF StreamAssistant, RelayFails
  <2>3. CASE ~(HandleHeldBack \/ WakeWithMessage \/ StreamAssistant \/ RelayFails)
    BY <2>3
    DEF Next, Handlers, Owner, Ended, Cli, SessVars, vars, talkVars, Enqueue, Skip, Interrupt,
        Reconnect, ReconnectInterrupted, Connect, ConnectFails, ServeRaises, ServeFails,
        LeaveForReconnect, Reopen, RunDeferred, RunDequeued, StartTurn, BeginWait, GetTask,
        RecvTask, IdleResultFails, WakeWithEof, WakeWithTurn, TimerFires, StallTasks, IdleClose,
        BeginTurn, RecordFails, SendQuery, InterruptSeen, StreamTaskMessage, StreamResult,
        ReportError, ReportFails, StreamRetry, BackoffOver, BeginBackground, DrainMessage,
        DrainTimeout, FinishTurn, EndSession, Shutdown
  <2>4. QED
    BY <2>1, <2>2, <2>3
<1>2. ASSUME NEW m \in {heldBack, recvd}, m # None, m.kind = "asst", x = <<m.by, Unprompted>>
      PROVE  FALSE
  <2>1. m \in Msg /\ Aside(m)
    BY <1>2 DEF TypeOK, RunTypeOK, MatchInv
  <2>2. m.by = Agent
    BY <1>2, <2>1, Kinds
  <2>3. QED
    BY <1>2, <2>2, RunNames
<1>3. ASSUME pc \in {"stream", "bg"}, CliRead, Head(stream).kind = "asst",
             x = <<Head(stream).by, Under>>
      PROVE  x[1] = x[2]
  <2>1. CASE pc = "stream"
    <3>1. PICK t \in Turns : t = cur
      BY <2>1 DEF TypeOK, RunTypeOK
    <3>2. Answering(t)
      BY <2>1, <3>1 DEF MatchInv, Reading
    <3>3. Head(stream).by = t
      BY <1>3, <3>2, AnsweringRead DEF TypeOK
    <3>4. QED
      BY <1>3, <2>1, <3>1, <3>3 DEF Under
  <2>2. CASE pc = "bg"
    <3>1. Quiet
      BY <2>2 DEF MatchInv, Reading
    <3>2. Head(stream).by = Agent
      BY <1>3, <3>1, QuietRead, Kinds DEF TypeOK
    <3>3. QED
      BY <1>3, <2>2, <3>2, RunNames DEF Under
  <2>3. QED
    BY <1>3, <2>1, <2>2
<1>4. QED
  BY <1>1, <1>2, <1>3

\* Every step of the model with its history keeps the two in step.
LEMMA PairStep ==
    ASSUME TypeOK, PairInv, [PairNext]_<<vars, leaked>>
    PROVE  PairInv'
<1>1. CASE UNCHANGED <<vars, leaked>>
  <2>1. BaseInv'
    BY <1>1, BaseStep DEF PairInv, vars
  <2>2. MatchInv => MatchInv'
    BY <1>1, MatchStays DEF vars, runVars, cliVars
  <2>3. QED
    BY <1>1, <2>1, <2>2 DEF PairInv
<1>2. CASE PairNext
  <2>1. Next /\ (leaked' <=> (leaked /\ (Connect => heldBack # None)) \/ LeftUnread \/ SpokenAhead)
    BY <1>2 DEF PairNext, Remember
  <2>2. BaseInv'
    BY <2>1, BaseStep DEF PairInv
  <2>3. ASSUME ~leaked'
        PROVE  MatchInv'
    <3>1. CASE ~leaked
      BY <2>1, <2>3, <3>1, MatchStep DEF PairInv
    <3>2. CASE Connect /\ heldBack = None
      BY <3>2 DEF Connect, CliOpen, PairInv, BaseInv, MatchInv, Reading, Quiet, Aside
    <3>3. QED
      BY <2>1, <2>3, <3>1, <3>2
  <2>4. QED
    BY <2>2, <2>3 DEF PairInv
<1>3. QED
  BY <1>1, <1>2

\* For any turns, tasks, stops, retries, reconnects and faults, and however the
\* steps interleave: a reply is shown under another prompt than its own only by
\* a client on whose stream a response was left unread or the CLI spoke ahead
\* of a prompt (_attempt_turn, _drain_interrupted).  The six causes in leaked
\* are thus all there are, and a reopened client is clean again.
THEOREM MisplacedReplies == PairSpec => MisplacedOnlyAfterLeak
<1>1. PairInit => PairInv
  BY DEF PairInit, Init, CliInit, PairInv, BaseInv, MatchInv, Reading, Quiet
<1>2. TypeOK /\ PairInv /\ [PairNext]_<<vars, leaked>> => PairInv'
  BY PairStep
<1>3. TypeOK /\ PairInv /\ [PairNext]_<<vars, leaked>> =>
        \A x \in relays' \ relays :
          (x[1] \in Turns \/ x[2] \in Turns) /\ x[1] # x[2] => leaked
  <2> SUFFICES ASSUME TypeOK, PairInv, [PairNext]_<<vars, leaked>>, NEW x \in relays' \ relays,
                      x[1] \in Turns \/ x[2] \in Turns, x[1] # x[2], ~leaked
               PROVE  FALSE
    OBVIOUS
  <2>1. [Next]_vars
    BY DEF PairNext
  <2>2. BaseInv /\ MatchInv
    BY DEF PairInv
  <2>3. QED
    BY <2>1, <2>2, RelayedInPlace
<1>4. PairSpec => Spec
  <2>1. PairInit => Init
    BY DEF PairInit
  <2>2. [PairNext]_<<vars, leaked>> => [Next]_vars
    BY DEF PairNext
  <2>3. QED
    BY <2>1, <2>2, PTL DEF PairSpec, Spec
<1>5. QED
  BY <1>1, <1>2, <1>3, <1>4, TypeCorrect, PTL DEF PairSpec, MisplacedOnlyAfterLeak
=============================================================================
