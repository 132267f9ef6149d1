------------------------- MODULE SurfaceView_proofs -------------------------
(***************************************************************************)
(* Proofs about SurfaceView for any sockets, texts, bills and restarts:    *)
(* what was recorded is in the transcript, every browser converges to it,  *)
(* the token total is the persisted sum and an answer has one bubble, as   *)
(* long as no socket connects while another one hydrates the surface.      *)
(*                                                                         *)
(* They rest on PhaseInv: between a start of the daemon and the end of its *)
(* one hydration nothing else runs, so that the rows and the total read by *)
(* it are the current ones.  MemInv then ties the store to the database    *)
(* through the rows on their way, SeenInv a browser to the store through   *)
(* the events on their way, and BubbleInv counts who still owes a bubble.  *)
(***************************************************************************)
EXTENDS SurfaceView, SequenceTheorems, FiniteSetTheorems, TLAPS

USE ViewAssumption

Labels == {"idle", "insert", "inserted", "lock", "bill", "billed", "push"}
Phases == {"off", "list", "listed", "totals", "seed", "open"}

\* What a coroutine at an await is in the middle of.
CallsInv ==
    /\ \A p \in Procs :
         /\ at[p] \in {"insert", "inserted"} => event[p] \in Entries
         /\ at[p] \in {"bill", "billed"} => p = Owner
         /\ at[p] = "push" => event[p] \in Events
         /\ at[p] = "lock" => event[p] = "answer"
    /\ at[Owner] = "bill" => billed < MaxBills
    /\ \A c \in Sockets : conn[c] = "listed" => rows[c] \in Rows

Typed == TypeOK /\ CallsInv

-----------------------------------------------------------------------------
(* The awaits of the coroutines.                                           *)

\* A coroutine goes on to another await; the others stay where they are.
LEMMA GotoEffect ==
    ASSUME TypeOK, NEW p \in Procs, NEW label \in Labels, NEW ev \in Events \union {None},
           Goto(p, label, ev)
    PROVE  /\ at' \in [Procs -> Labels] /\ event' \in [Procs -> Events \union {None}]
           /\ todo' = todo
           /\ at'[p] = label /\ event'[p] = ev
           /\ \A q \in Procs \ {p} : at'[q] = at[q] /\ event'[q] = event[q]
BY DEF TypeOK, Goto, Labels

\* A broadcast starts with every open socket still to be sent to.
LEMMA BroadcastEffect ==
    ASSUME TypeOK, NEW p \in Procs, NEW ev \in Events, Broadcast(p, ev)
    PROVE  /\ at' \in [Procs -> Labels] /\ event' \in [Procs -> Events \union {None}]
           /\ todo' \in [Procs -> SUBSET Sockets]
           /\ at'[p] = "push" /\ event'[p] = ev /\ todo'[p] = Open
           /\ \A q \in Procs \ {p} : at'[q] = at[q] /\ event'[q] = event[q] /\ todo'[q] = todo[q]
<1>1. Open \subseteq Sockets
  BY DEF Open
<1>2. QED
  BY <1>1 DEF TypeOK, Broadcast, Labels

\* Joining touches one socket, and takes it off every list of sockets to send to.
LEMMA JoinEffect ==
    ASSUME Typed, NEW c \in Sockets, Join(c)
    PROVE  /\ conn' \in [Sockets -> Phases] /\ rows' \in [Sockets -> Rows \union {None}]
           /\ total' \in [Sockets -> 0 .. MaxBills]
           /\ feed' \in [Sockets -> Seq(Entries)] /\ shownLamp' \in [Sockets -> BOOLEAN]
           /\ picker' \in [Sockets -> {"none", "open", "locked"}]
           /\ doubled' \in [Sockets -> SUBSET Entries]
           /\ todo' \in [Procs -> SUBSET Sockets] /\ UNCHANGED <<at, event>> /\ woken' = TRUE
           /\ conn'[c] = "open" /\ feed'[c] = mem /\ shownLamp'[c] = lamp
           /\ doubled'[c] = Recording
           /\ \A d \in Sockets \ {c} : /\ conn'[d] = conn[d] /\ feed'[d] = feed[d]
                                       /\ shownLamp'[d] = shownLamp[d] /\ doubled'[d] = doubled[d]
                                       /\ rows'[d] = rows[d] /\ total'[d] = total[d]
           /\ \A p \in Procs : todo'[p] = todo[p] \ {c}
<1> USE DEF Typed
<1>1. Recording \subseteq Entries
  BY DEF Recording, CallsInv
<1>2. /\ feed' \in [Sockets -> Seq(Entries)] /\ feed'[c] = mem
      /\ \A d \in Sockets \ {c} : feed'[d] = feed[d]
  BY DEF TypeOK, Join, Snapshot
<1>21. /\ doubled' \in [Sockets -> SUBSET Entries] /\ doubled'[c] = Recording
       /\ \A d \in Sockets \ {c} : doubled'[d] = doubled[d]
  <2> DEFINE R == Recording
  <2>1. R \subseteq Entries /\ doubled' = [doubled EXCEPT ![c] = R]
    BY <1>1 DEF Join
  <2> HIDE DEF R
  <2>2. /\ doubled' \in [Sockets -> SUBSET Entries] /\ doubled'[c] = R
        /\ \A d \in Sockets \ {c} : doubled'[d] = doubled[d]
    BY <2>1 DEF TypeOK
  <2>3. QED
    BY <2>2 DEF R
<1>3. /\ conn' \in [Sockets -> Phases] /\ conn'[c] = "open"
      /\ \A d \in Sockets \ {c} : conn'[d] = conn[d]
  BY DEF TypeOK, Join, Phases
<1>4. /\ shownLamp' \in [Sockets -> BOOLEAN] /\ shownLamp'[c] = lamp
      /\ \A d \in Sockets \ {c} : shownLamp'[d] = shownLamp[d]
  BY DEF TypeOK, Join
<1>5. picker' \in [Sockets -> {"none", "open", "locked"}]
  BY DEF TypeOK, Join
<1>6. /\ rows' \in [Sockets -> Rows \union {None}] /\ total' \in [Sockets -> 0 .. MaxBills]
      /\ \A d \in Sockets \ {c} : rows'[d] = rows[d] /\ total'[d] = total[d]
  BY DEF TypeOK, Join
<1>7. /\ todo' \in [Procs -> SUBSET Sockets] /\ UNCHANGED <<at, event>> /\ woken' = TRUE
      /\ \A p \in Procs : todo'[p] = todo[p] \ {c}
  BY DEF TypeOK, Join
<1>8. QED
  BY <1>2, <1>21, <1>3, <1>4, <1>5, <1>6, <1>7

-----------------------------------------------------------------------------
(* Type correctness.                                                       *)

DbType ==
    /\ db \in Seq(Entries) /\ dbAnswered \in BOOLEAN /\ billed \in 0 .. MaxBills
    /\ unsaved \subseteq Entries /\ unseeded \in BOOLEAN

MemType ==
    /\ mem \in Seq(Entries) /\ tokens \in Nat
    /\ {hydrated, rowKnown, answered, lamp} \subseteq BOOLEAN

ConnType ==
    /\ conn \in [Sockets -> Phases]
    /\ rows \in [Sockets -> Rows \union {None}] /\ total \in [Sockets -> 0 .. MaxBills]

ViewType ==
    /\ feed \in [Sockets -> Seq(Entries)] /\ shownLamp \in [Sockets -> BOOLEAN]
    /\ picker \in [Sockets -> {"none", "open", "locked"}]
    /\ doubled \in [Sockets -> SUBSET Entries]

ProcType ==
    /\ at \in [Procs -> Labels] /\ event \in [Procs -> Events \union {None}]
    /\ todo \in [Procs -> SUBSET Sockets]

RestType ==
    woken \in BOOLEAN /\ said \subseteq Entries /\ raced \in BOOLEAN /\ crashes \in 0 .. MaxCrashes

\* The type invariant in parts.
LEMMA TypeParts == TypeOK <=> DbType /\ MemType /\ ConnType /\ ViewType /\ ProcType /\ RestType
BY DEF TypeOK, DbType, MemType, ConnType, ViewType, ProcType, RestType, Phases, Labels

\* The initial state is typed.
LEMMA TypedInit == Init => Typed
<1> SUFFICES ASSUME Init
             PROVE  Typed
  OBVIOUS
<1>1. <<>> \in Seq(Entries)
  BY EmptySeq
<1>2. DbType /\ MemType /\ RestType
  <2>1. (Early # {}) \in BOOLEAN
    OBVIOUS
  <2>2. hydrated \in BOOLEAN /\ woken \in BOOLEAN
    BY <2>1 DEF Init
  <2>3. DbType
    <3>1. db = <<>> /\ dbAnswered = FALSE /\ billed = 0 /\ unsaved = {} /\ unseeded = FALSE
      BY DEF Init
    <3>2. dbAnswered \in BOOLEAN /\ unseeded \in BOOLEAN
      BY <3>1
    <3>3. QED
      BY <1>1, <3>1, <3>2 DEF DbType
  <2>4. MemType
    BY <1>1, <2>2 DEF Init, MemType
  <2>5. RestType
    <3>1. said = {} /\ raced = FALSE /\ crashes = 0
      BY DEF Init
    <3>2. raced \in BOOLEAN
      BY <3>1
    <3>3. QED
      BY <2>2, <3>1, <3>2 DEF RestType
  <2>6. QED
    BY <2>3, <2>4, <2>5
<1>3. ConnType
  BY DEF Init, ConnType, Phases
<1>4. ViewType
  BY <1>1 DEF Init, ViewType
<1>5. ProcType
  BY DEF Init, ProcType, Labels
<1>6. CallsInv
  BY DEF Init, CallsInv, Procs
<1>7. QED
  BY <1>2, <1>3, <1>4, <1>5, <1>6, TypeParts DEF Typed

\* A step that goes to another await and keeps within what may be written there.
LEMMA CallsKept ==
    ASSUME Typed, NEW p \in Procs, UNCHANGED <<connVars, billed>>,
           \A q \in Procs \ {p} : at'[q] = at[q] /\ event'[q] = event[q],
           at'[p] \in {"insert", "inserted"} => event'[p] \in Entries,
           at'[p] \in {"bill", "billed"} => p = Owner,
           at'[p] = "push" => event'[p] \in Events,
           at'[p] = "lock" => event'[p] = "answer",
           at'[p] = "bill" => billed < MaxBills
    PROVE  CallsInv'
BY DEF Typed, CallsInv, connVars, Procs

\* Every step keeps the types.
LEMMA TypedStep ==
    ASSUME Typed, [Next]_vars
    PROVE  Typed'
<1> USE DEF Typed
<1>0. DbType /\ MemType /\ ConnType /\ ViewType /\ ProcType /\ RestType
  BY TypeParts
<1>01. DbType' /\ MemType' /\ ConnType' /\ ViewType' /\ ProcType' /\ RestType' => TypeOK'
  BY DEF TypeOK, DbType, MemType, ConnType, ViewType, ProcType, RestType, Phases, Labels
<1>1. /\ UNCHANGED dbVars => DbType'
      /\ UNCHANGED memVars => MemType'
      /\ UNCHANGED connVars => ConnType'
      /\ UNCHANGED viewVars => ViewType'
      /\ UNCHANGED procVars => ProcType'
      /\ UNCHANGED <<woken, said, raced, crashes>> => RestType'
  BY <1>0 DEF dbVars, faultVars, DbType, memVars, MemType, connVars, ConnType, viewVars, ViewType,
              procVars, ProcType, RestType
<1>2. ASSUME NEW p \in Procs, Insert(p)
      PROVE  Typed'
  <2>1. event[p] \in Entries /\ Goto(p, "inserted", event[p])
    BY <1>2 DEF Insert, CallsInv
  <2>2. DbType'
    BY <1>0, <1>2, <2>1 DEF Insert, DbType, faultVars
  <2>3. ProcType' /\ CallsInv'
    BY <1>0, <1>2, <2>1, GotoEffect, CallsKept DEF Insert, ProcType, Labels, Events
  <2>4. QED
    BY <1>0, <1>1, <1>2, <2>2, <2>3, <1>01 DEF Insert
<1>3. ASSUME NEW p \in Procs, Inserted(p)
      PROVE  Typed'
  <2>1. event[p] \in Events /\ Broadcast(p, event[p])
    BY <1>3 DEF Inserted, CallsInv, Events
  <2>2. MemType'
    BY <1>0, <1>3 DEF Inserted, MemType
  <2>3. ProcType' /\ CallsInv'
    BY <1>3, <2>1, BroadcastEffect, CallsKept DEF Inserted, ProcType, dbVars
  <2>4. QED
    BY <1>0, <1>1, <1>3, <2>2, <2>3, <1>01 DEF Inserted
<1>4. ASSUME NEW p \in Procs, Send(p)
      PROVE  Typed'
  <2>1. PICK c \in todo[p] :
          /\ todo' = [todo EXCEPT ![p] = todo[p] \ {c}]
          /\ IF c \in Open THEN Deliver(c, event[p]) ELSE UNCHANGED viewVars
    BY <1>4 DEF Send, Remaining
  <2>2. c \in Sockets /\ event[p] \in Events
    BY <1>4, <2>1 DEF TypeOK, Send, CallsInv
  <2>3. Deliver(c, event[p]) => ViewType'
    <3>1. ASSUME Deliver(c, event[p])
          PROVE  feed' \in [Sockets -> Seq(Entries)]
      <4>1. event[p] \in Entries => Append(feed[c], event[p]) \in Seq(Entries)
        BY <1>0, <2>2 DEF ViewType
      <4>2. QED
        BY <1>0, <2>2, <3>1, <4>1 DEF Deliver, ViewType
    <3>2. ASSUME Deliver(c, event[p])
          PROVE  /\ shownLamp' \in [Sockets -> BOOLEAN] /\ picker' \in [Sockets -> {"none", "open", "locked"}]
                 /\ doubled' \in [Sockets -> SUBSET Entries]
      BY <1>0, <2>2, <3>2 DEF Deliver, ViewType, MemType
    <3>3. QED
      BY <3>1, <3>2 DEF ViewType
  <2>4. ViewType'
    BY <1>1, <2>1, <2>3
  <2>5. ProcType' /\ UNCHANGED <<at, event>>
    BY <1>0, <1>4, <2>1 DEF Send, ProcType
  <2>6. CallsInv'
    BY <1>4, <2>5 DEF Send, CallsInv, connVars, dbVars
  <2>7. QED
    BY <1>0, <1>1, <1>4, <2>4, <2>5, <2>6, <1>01 DEF Send
<1>5. ASSUME NEW p \in Procs, Sent(p)
      PROVE  Typed'
  <2>1. \/ Goto(p, "insert", Bubble) /\ mem' = Append(mem, Bubble)
        \/ Goto(p, "idle", None) /\ mem' = mem
    BY <1>5 DEF Sent, Record
  <2>2. MemType'
    <3>1. Bubble \in Entries
      BY DEF Entries
    <3>2. mem' \in Seq(Entries)
      BY <1>0, <2>1, <3>1 DEF MemType
    <3>3. QED
      BY <1>0, <1>5, <3>2 DEF Sent, MemType
  <2>3. ProcType' /\ CallsInv'
    BY <1>0, <1>5, <2>1, GotoEffect, CallsKept DEF Sent, ProcType, Labels, Events, Entries, dbVars
  <2>4. QED
    BY <1>0, <1>1, <1>5, <2>2, <2>3, <1>01 DEF Sent
<1>6. ASSUME NEW e \in Texts \union {Ask}, Say(e)
      PROVE  Typed'
  <2>1. e \in Entries /\ Owner \in Procs
    BY DEF Entries, Procs
  <2>2. MemType'
    BY <1>0, <1>6, <2>1 DEF Say, Record, MemType
  <2>3. ProcType' /\ CallsInv'
    BY <1>0, <1>6, <2>1, GotoEffect, CallsKept DEF Say, Record, ProcType, Labels, Events, dbVars
  <2>4. RestType'
    BY <1>0, <1>6, <2>1 DEF Say, RestType
  <2>5. QED
    BY <1>0, <1>1, <1>6, <2>2, <2>3, <2>4, <1>01 DEF Say
<1>7. CASE SetLamp
  <2>1. Owner \in Procs /\ "lamp" \in Events
    BY DEF Procs, Events
  <2>2. MemType'
    BY <1>0, <1>7 DEF SetLamp, MemType
  <2>3. ProcType' /\ CallsInv'
    BY <1>7, <2>1, BroadcastEffect, CallsKept DEF SetLamp, ProcType, dbVars
  <2>4. QED
    BY <1>0, <1>1, <1>7, <2>2, <2>3, <1>01 DEF SetLamp
<1>8. CASE Bill
  <2>1. Owner \in Procs /\ "tokens" \in Events
    BY DEF Procs, Events
  <2>2. ProcType' /\ CallsInv'
    BY <1>0, <1>8, <2>1, GotoEffect, CallsKept DEF Bill, ProcType, Labels, dbVars
  <2>3. QED
    BY <1>0, <1>1, <1>8, <2>2, <1>01 DEF Bill
<1>9. CASE InsertUsage
  <2>1. Owner \in Procs /\ "tokens" \in Events
    BY DEF Procs, Events
  <2>2. DbType'
    BY <1>0, <1>9 DEF InsertUsage, DbType, CallsInv, faultVars
  <2>3. ProcType' /\ at'[Owner] = "billed" /\ \A q \in Procs \ {Owner} : at'[q] = at[q] /\ event'[q] = event[q]
    BY <1>0, <1>9, <2>1, GotoEffect DEF InsertUsage, ProcType, Labels
  <2>4. CallsInv'
    BY <1>9, <2>1, <2>3 DEF InsertUsage, CallsInv, connVars
  <2>5. QED
    BY <1>0, <1>1, <1>9, <2>2, <2>3, <2>4, <1>01 DEF InsertUsage
<1>10. CASE AddTokens
  <2>1. Owner \in Procs /\ "tokens" \in Events
    BY DEF Procs, Events
  <2>2. MemType'
    BY <1>0, <1>10 DEF AddTokens, MemType
  <2>3. ProcType' /\ CallsInv'
    BY <1>10, <2>1, BroadcastEffect, CallsKept DEF AddTokens, ProcType, dbVars
  <2>4. QED
    BY <1>0, <1>1, <1>10, <2>2, <2>3, <1>01 DEF AddTokens
<1>11. ASSUME NEW c \in Sockets, Answer(c)
       PROVE  Typed'
  <2>1. c \in Procs /\ "answer" \in Events
    BY DEF Procs, Events
  <2>2. MemType'
    BY <1>0, <1>11 DEF Answer, MemType
  <2>3. Goto(c, "lock", "answer") \/ Broadcast(c, "answer")
    BY <1>11 DEF Answer
  <2>4. Goto(c, "lock", "answer") => ProcType' /\ CallsInv'
    BY <1>0, <1>11, <2>1, GotoEffect, CallsKept DEF Answer, ProcType, Labels, dbVars
  <2>5. Broadcast(c, "answer") => ProcType' /\ CallsInv'
    BY <1>11, <2>1, BroadcastEffect, CallsKept DEF Answer, ProcType, dbVars
  <2>6. QED
    BY <1>0, <1>1, <1>11, <2>2, <2>3, <2>4, <2>5, <1>01 DEF Answer
<1>12. ASSUME NEW c \in Sockets, LockRow(c)
       PROVE  Typed'
  <2>1. c \in Procs /\ "answer" \in Events
    BY DEF Procs, Events
  <2>2. DbType'
    BY <1>0, <1>12 DEF LockRow, DbType, faultVars
  <2>3. ProcType' /\ CallsInv'
    BY <1>12, <2>1, BroadcastEffect, CallsKept DEF LockRow, ProcType, dbVars
  <2>4. QED
    BY <1>0, <1>1, <1>12, <2>2, <2>3, <1>01 DEF LockRow
<1>13. ASSUME NEW c \in Sockets, Connect(c)
       PROVE  Typed'
  <2>1. raced' \in BOOLEAN
    <3>1. (raced \/ \E d \in Sockets : conn[d] \notin {"off", "open"}) \in BOOLEAN
      OBVIOUS
    <3>2. QED
      BY <1>13, <3>1 DEF Connect
  <2>2. CASE Join(c)
    <3>1. ConnType' /\ ViewType' /\ ProcType' /\ woken' = TRUE
      BY <2>2, JoinEffect, <1>0 DEF ConnType, ViewType, ProcType
    <3>2. RestType'
      BY <1>0, <1>13, <2>1, <3>1 DEF Connect, RestType
    <3>3. CallsInv'
      <4>1. UNCHANGED <<at, event>> /\ conn'[c] = "open"
        BY <1>13, <2>2, JoinEffect
      <4>2. \A d \in Sockets \ {c} : conn'[d] = conn[d] /\ rows'[d] = rows[d]
        BY <1>13, <2>2, JoinEffect
      <4>3. billed' = billed
        BY <1>13 DEF Connect, dbVars
      <4>4. QED
        BY <4>1, <4>2, <4>3 DEF CallsInv
    <3>4. QED
      BY <1>0, <1>1, <1>13, <3>1, <3>2, <3>3, <1>01 DEF Connect
  <2>3. CASE conn' = [conn EXCEPT ![c] = "list"] /\ UNCHANGED <<rows, total, viewVars, procVars, woken>>
    <3>1. ConnType' /\ RestType'
      BY <1>0, <1>13, <2>1, <2>3 DEF Connect, ConnType, RestType, Phases
    <3>2. CallsInv'
      BY <1>0, <1>13, <2>3 DEF Connect, CallsInv, dbVars, procVars, ConnType
    <3>3. QED
      BY <1>0, <1>1, <1>13, <2>3, <3>1, <3>2, <1>01 DEF Connect
  <2>4. QED
    BY <1>13, <2>2, <2>3 DEF Connect
<1>14. ASSUME NEW c \in Sockets, ListRows(c)
       PROVE  Typed'
  <2>1. [seq |-> db, locked |-> dbAnswered] \in Rows
    BY <1>0 DEF Rows, DbType
  <2>2. ConnType' /\ rows'[c] \in Rows /\ \A d \in Sockets \ {c} : conn'[d] = conn[d] /\ rows'[d] = rows[d]
    BY <1>0, <1>14, <2>1 DEF ListRows, ConnType, Phases
  <2>3. CallsInv'
    BY <1>14, <2>2 DEF ListRows, CallsInv, dbVars, procVars
  <2>4. QED
    BY <1>0, <1>1, <1>14, <2>2, <2>3, <1>01 DEF ListRows
<1>15. ASSUME NEW c \in Sockets, Load(c)
       PROVE  Typed'
  <2>1. rows[c] \in Rows
    BY <1>15 DEF Load, CallsInv
  <2>2. MemType'
    <3>1. rows[c].seq \in Seq(Entries) /\ rows[c].locked \in BOOLEAN
      BY <2>1 DEF Rows
    <3>2. (Ask \in Elems(rows[c].seq)) \in BOOLEAN
      OBVIOUS
    <3>3. rowKnown' \in BOOLEAN
      BY <1>15, <3>2 DEF Load
    <3>4. QED
      BY <1>0, <1>15, <3>1, <3>3 DEF Load, MarkHydrated, MemType
  <2>3. ConnType' /\ conn'[c] = "totals" /\ \A d \in Sockets \ {c} : conn'[d] = conn[d]
    BY <1>0, <1>15 DEF Load, ConnType, Phases
  <2>4. CallsInv'
    BY <1>15, <2>3 DEF Load, CallsInv, dbVars, procVars
  <2>5. QED
    BY <1>0, <1>1, <1>15, <2>2, <2>3, <2>4, <1>01 DEF Load
<1>16. ASSUME NEW c \in Sockets, SumUsage(c)
       PROVE  Typed'
  <2>1. ConnType' /\ conn'[c] = "seed" /\ \A d \in Sockets \ {c} : conn'[d] = conn[d]
    BY <1>0, <1>16 DEF SumUsage, ConnType, Phases, DbType
  <2>2. CallsInv'
    BY <1>16, <2>1 DEF SumUsage, CallsInv, dbVars, procVars
  <2>3. QED
    BY <1>0, <1>1, <1>16, <2>1, <2>2, <1>01 DEF SumUsage
<1>17. ASSUME NEW c \in Sockets, SeedAndJoin(c)
       PROVE  Typed'
  <2>1. Join(c)
    BY <1>17 DEF SeedAndJoin
  <2>2. ConnType' /\ ViewType' /\ ProcType' /\ woken' = TRUE
    BY <1>0, <2>1, JoinEffect DEF ConnType, ViewType, ProcType
  <2>3. RestType' /\ MemType'
    BY <1>0, <1>17, <2>2 DEF SeedAndJoin, RestType, MemType, ConnType, Seed
  <2>4. CallsInv'
    <3>1. UNCHANGED <<at, event>> /\ conn'[c] = "open"
      BY <1>17, <2>1, JoinEffect
    <3>2. \A d \in Sockets \ {c} : conn'[d] = conn[d] /\ rows'[d] = rows[d]
      BY <1>17, <2>1, JoinEffect
    <3>3. billed' = billed
      BY <1>17 DEF SeedAndJoin, dbVars
    <3>4. QED
      BY <3>1, <3>2, <3>3 DEF CallsInv
  <2>5. QED
    BY <1>0, <1>1, <1>17, <2>2, <2>3, <2>4, <1>01 DEF SeedAndJoin
<1>18. ASSUME NEW c \in Sockets, Disconnect(c)
       PROVE  Typed'
  <2>1. ConnType' /\ conn'[c] = "off" /\ \A d \in Sockets \ {c} : conn'[d] = conn[d]
    BY <1>0, <1>18 DEF Disconnect, ConnType, Phases
  <2>2. ViewType'
    BY <1>0, <1>18, EmptySeq DEF Disconnect, Gone, ViewType
  <2>3. CallsInv'
    BY <1>18, <2>1 DEF Disconnect, CallsInv, dbVars, procVars
  <2>4. QED
    BY <1>0, <1>1, <1>18, <2>1, <2>2, <2>3, <1>01 DEF Disconnect
<1>19. CASE Restart
  <2>1. MemType' /\ RestType'
    <3>1. /\ hydrated' \in BOOLEAN /\ rowKnown' \in BOOLEAN /\ answered' \in BOOLEAN
          /\ lamp' \in BOOLEAN /\ woken' \in BOOLEAN
      BY <1>19 DEF Restart
    <3>2. crashes' \in 0 .. MaxCrashes /\ mem' = <<>> /\ tokens' = 0 /\ UNCHANGED <<said, raced>>
      BY <1>0, <1>19 DEF Restart, RestType
    <3>3. QED
      BY <1>0, <3>1, <3>2, EmptySeq DEF MemType, RestType
  <2>2. ConnType'
    BY <1>19 DEF Restart, ConnType, Phases
  <2>3. ViewType' /\ DbType'
    <3>1. unseeded' \in BOOLEAN /\ unsaved' = {} /\ UNCHANGED <<db, dbAnswered, billed>>
      BY <1>19 DEF Restart
    <3>2. DbType'
      BY <1>0, <3>1 DEF DbType
    <3>3. QED
      BY <1>19, <3>2, EmptySeq DEF Restart, ViewType
  <2>4. ProcType'
    BY <1>19 DEF Restart, ProcType, Labels
  <2>5. CallsInv'
    BY <1>19 DEF Restart, CallsInv, Procs
  <2>6. QED
    BY <1>0, <1>1, <1>19, <2>1, <2>2, <2>3, <2>4, <2>5, <1>01 DEF Restart
<1>20. CASE UNCHANGED vars
  BY <1>0, <1>1, <1>20, <1>01 DEF vars, CallsInv, dbVars, connVars, procVars
<1>21. ASSUME NEW p \in Procs, CallFails(p)
       PROVE  Typed'
  <2>1. Goto(p, "idle", None)
    BY <1>21 DEF CallFails
  <2>2. DbType'
    BY <1>0, <1>21 DEF CallFails, DbType, CallsInv
  <2>3. /\ ProcType' /\ at'[p] = "idle"
        /\ \A q \in Procs \ {p} : at'[q] = at[q] /\ event'[q] = event[q]
    BY <1>0, <2>1, GotoEffect DEF ProcType, Labels
  <2>4. ConnType' /\ \A c \in Sockets : conn'[c] = "listed" => conn[c] = "listed" /\ rows'[c] = rows[c]
    BY <1>0, <1>21 DEF CallFails, ConnType, Phases
  <2>5. ViewType'
    <3>1. Gone(p) /\ p \in Sockets => ViewType'
      BY <1>0, EmptySeq DEF Gone, ViewType
    <3>2. QED
      BY <1>1, <1>21, <3>1 DEF CallFails
  <2>6. CallsInv'
    BY <1>21, <2>3, <2>4 DEF CallFails, CallsInv, Procs
  <2>7. QED
    BY <1>0, <1>1, <1>21, <2>2, <2>3, <2>4, <2>5, <2>6, <1>01 DEF CallFails
<1>22. ASSUME NEW c \in Sockets, HydrationFails(c)
       PROVE  Typed'
  <2>1. ConnType' /\ \A d \in Sockets : conn'[d] = "listed" => conn[d] = "listed" /\ rows'[d] = rows[d]
    BY <1>0, <1>22 DEF HydrationFails, ConnType, Phases
  <2>2. DbType'
    <3>1. (unseeded \/ conn[c] = "totals") \in BOOLEAN
      OBVIOUS
    <3>2. unseeded' \in BOOLEAN /\ UNCHANGED <<db, dbAnswered, billed, unsaved>>
      BY <1>22, <3>1 DEF HydrationFails
    <3>3. QED
      BY <1>0, <3>2 DEF DbType
  <2>3. CallsInv'
    BY <1>22, <2>1 DEF HydrationFails, CallsInv, procVars
  <2>4. QED
    BY <1>0, <1>1, <1>22, <2>1, <2>2, <2>3, <1>01 DEF HydrationFails
<1>23. QED
  BY <1>2, <1>3, <1>4, <1>5, <1>6, <1>7, <1>8, <1>9, <1>10, <1>11, <1>12, <1>13, <1>14,
     <1>15, <1>16, <1>17, <1>18, <1>19, <1>20, <1>21, <1>22
  DEF Next

\* The transcript, the store, the views and the coroutines are always typed.
THEOREM TypeCorrect == Spec => []TypeOK
<1>1. Typed => TypeOK
  BY DEF Typed
<1>2. QED
  BY <1>1, TypedInit, TypedStep, PTL DEF Spec

-----------------------------------------------------------------------------
(* One hydration at a time, and nothing beside it.                         *)

\* Socket c connects and waits for the hydration it runs.
Coming(c) == conn[c] \notin {"off", "open"}

PhaseInv ==
    /\ \A c, d \in Sockets : Coming(c) /\ Coming(d) => c = d
    /\ \A c \in Sockets :
         /\ Coming(c) => ~woken
         /\ conn[c] = "open" => woken
         /\ conn[c] \in {"list", "listed"} => ~hydrated
         /\ conn[c] \in {"totals", "seed"} => hydrated
         /\ conn[c] = "listed" => rows[c] = [seq |-> db, locked |-> dbAnswered]
         /\ conn[c] = "seed" => total[c] = billed
    /\ hydrated /\ ~woken => unseeded \/ \E c \in Sockets : Coming(c)
    /\ woken => hydrated
    /\ ~woken => Quiet /\ unsaved = {}

\* Who acts outside of a hydration: the coroutines of a surface that was opened.
Busy ==
    \/ \E p \in Procs : Insert(p) \/ Inserted(p) \/ Send(p) \/ Sent(p)
    \/ \E e \in Texts \union {Ask} : Say(e)
    \/ SetLamp \/ Bill \/ InsertUsage \/ AddTokens
    \/ \E c \in Sockets : Answer(c) \/ LockRow(c)

\* They act only once a socket was open, and leave the connections alone.
LEMMA BusyAwake ==
    ASSUME Typed, PhaseInv, Busy
    PROVE  woken /\ UNCHANGED <<connVars, faultVars, hydrated, woken, raced, crashes>>
<1>1. ASSUME NEW p \in Procs, Insert(p) \/ Inserted(p) \/ Send(p) \/ Sent(p)
      PROVE  woken
  BY <1>1 DEF Insert, Inserted, Send, Sent, PhaseInv, Quiet, Idle
<1>2. ASSUME NEW e \in Texts \union {Ask}, Say(e)
      PROVE  woken
  BY <1>2 DEF Say
<1>3. SetLamp \/ Bill => woken
  BY DEF SetLamp, Bill
<1>4. InsertUsage \/ AddTokens => woken
  BY DEF InsertUsage, AddTokens, PhaseInv, Quiet, Idle, Procs
<1>5. ASSUME NEW c \in Sockets, Answer(c) \/ LockRow(c)
      PROVE  woken
  <2>1. Answer(c) => woken
    BY DEF Answer, Open, PhaseInv
  <2>2. LockRow(c) => woken
    BY DEF LockRow, PhaseInv, Quiet, Idle, Procs
  <2>3. QED
    BY <1>5, <2>1, <2>2
<1>6. UNCHANGED <<connVars, faultVars, hydrated, woken, raced, crashes>>
  BY DEF Busy, Insert, Inserted, Send, Sent, Say, SetLamp, Bill, InsertUsage, AddTokens,
         Answer, LockRow, memVars, dbVars
<1>7. QED
  BY <1>1, <1>2, <1>3, <1>4, <1>5, <1>6 DEF Busy

\* A race, once it happened, is remembered.
LEMMA RaceRemembered ==
    ASSUME [Next]_vars, ~raced'
    PROVE  ~raced
<1>1. ASSUME NEW c \in Sockets, Connect(c)
      PROVE  ~raced
  BY <1>1 DEF Connect
<1>2. ASSUME ~ \E c \in Sockets : Connect(c)
      PROVE  raced' = raced
  BY <1>2 DEF Next, vars, Insert, Inserted, Send, Sent, Say, SetLamp, Bill, InsertUsage, AddTokens,
              Answer, LockRow, ListRows, Load, SumUsage, SeedAndJoin, Disconnect, Restart,
              CallFails, HydrationFails
<1>3. QED
  BY <1>1, <1>2

\* A socket that connects where none hydrates opens at once or hydrates alone.
LEMMA ConnectAlone ==
    ASSUME Typed, PhaseInv, NEW c \in Sockets, Connect(c), ~raced'
    PROVE  /\ \A d \in Sockets : ~Coming(d)
           /\ hydrated => Join(c) /\ (woken \/ unseeded)
           /\ ~hydrated => /\ conn' = [conn EXCEPT ![c] = "list"] /\ ~woken
                           /\ UNCHANGED <<rows, total, viewVars, procVars, woken>>
           /\ conn[c] = "off" /\ UNCHANGED <<dbVars, memVars, crashes>>
BY DEF Connect, Coming, PhaseInv

\* Every step keeps the phases, while there was no race.
LEMMA PhaseStep ==
    ASSUME Typed, PhaseInv, [Next]_vars, ~raced'
    PROVE  PhaseInv'
<1>0. ConnType
  BY TypeParts DEF Typed
<1>1. CASE Busy
  BY <1>1, BusyAwake DEF PhaseInv, Coming, connVars, faultVars
<1>2. ASSUME NEW c \in Sockets, Connect(c)
      PROVE  PhaseInv'
  <2>1. CASE hydrated
    <3>1. conn'[c] = "open" /\ woken' /\ hydrated' /\ \A d \in Sockets \ {c} : conn'[d] = conn[d]
      BY <1>2, <2>1, ConnectAlone, JoinEffect DEF Typed, memVars
    <3>2. \A d \in Sockets : ~Coming(d)'
      BY <1>2, <3>1, ConnectAlone DEF Coming
    <3>3. QED
      BY <3>1, <3>2 DEF PhaseInv, Coming
  <2>2. CASE ~hydrated
    <3>1. /\ conn'[c] = "list" /\ ~woken /\ \A d \in Sockets \ {c} : conn'[d] = conn[d]
          /\ UNCHANGED <<rows, total, procVars, woken, dbVars, memVars>>
      BY <1>0, <1>2, <2>2, ConnectAlone DEF ConnType
    <3>2. \A d \in Sockets : Coming(d)' => d = c
      BY <1>2, <3>1, ConnectAlone DEF Coming
    <3>3. QED
      BY <2>2, <3>1, <3>2 DEF PhaseInv, Coming, Quiet, Idle, procVars, dbVars, faultVars, memVars
  <2>3. QED
    BY <2>1, <2>2
<1>3. ASSUME NEW c \in Sockets, ListRows(c)
      PROVE  PhaseInv'
  <2>1. /\ conn[c] = "list" /\ conn'[c] = "listed"
        /\ rows'[c] = [seq |-> db, locked |-> dbAnswered]
        /\ \A d \in Sockets \ {c} : conn'[d] = conn[d] /\ rows'[d] = rows[d]
        /\ UNCHANGED <<total, dbVars, memVars, procVars, woken>>
    BY <1>0, <1>3 DEF ListRows, ConnType
  <2>2. \A d \in Sockets : Coming(d)' => d = c
    BY <2>1 DEF Coming, PhaseInv
  <2>3. QED
    BY <2>1, <2>2 DEF PhaseInv, Coming, Quiet, Idle, procVars, dbVars, faultVars, memVars
<1>4. ASSUME NEW c \in Sockets, Load(c)
      PROVE  PhaseInv'
  <2>1. /\ conn[c] = "listed" /\ conn'[c] = "totals" /\ hydrated' = TRUE
        /\ \A d \in Sockets \ {c} : conn'[d] = conn[d]
        /\ UNCHANGED <<rows, total, dbVars, procVars, woken>>
    BY <1>0, <1>4 DEF Load, ConnType, MarkHydrated
  <2>2. \A d \in Sockets : Coming(d)' => d = c
    BY <2>1 DEF Coming, PhaseInv
  <2>3. QED
    BY <2>1, <2>2 DEF PhaseInv, Coming, Quiet, Idle, procVars, dbVars, faultVars
<1>5. ASSUME NEW c \in Sockets, SumUsage(c)
      PROVE  PhaseInv'
  <2>1. /\ conn[c] = "totals" /\ conn'[c] = "seed" /\ total'[c] = billed
        /\ \A d \in Sockets \ {c} : conn'[d] = conn[d]
        /\ UNCHANGED <<rows, dbVars, memVars, procVars, woken>>
    BY <1>0, <1>5 DEF SumUsage, ConnType
  <2>2. \A d \in Sockets : Coming(d)' => d = c
    BY <2>1 DEF Coming, PhaseInv
  <2>3. QED
    BY <2>1, <2>2 DEF PhaseInv, Coming, Quiet, Idle, procVars, dbVars, faultVars, memVars
<1>6. ASSUME NEW c \in Sockets, SeedAndJoin(c)
      PROVE  PhaseInv'
  <2>1. /\ conn[c] = "seed" /\ conn'[c] = "open" /\ woken' = TRUE /\ hydrated' = hydrated
        /\ \A d \in Sockets \ {c} : conn'[d] = conn[d]
    BY <1>6, JoinEffect DEF SeedAndJoin, Typed
  <2>2. \A d \in Sockets : ~Coming(d)'
    BY <2>1 DEF Coming, PhaseInv
  <2>3. QED
    BY <2>1, <2>2 DEF PhaseInv, Coming
<1>7. ASSUME NEW c \in Sockets, Disconnect(c)
      PROVE  PhaseInv'
  <2>1. /\ conn[c] = "open" /\ conn'[c] = "off"
        /\ \A d \in Sockets \ {c} : conn'[d] = conn[d]
        /\ UNCHANGED <<rows, total, dbVars, memVars, procVars, woken>>
    BY <1>0, <1>7 DEF Disconnect, ConnType, Open
  <2>2. woken /\ \A d \in Sockets : ~Coming(d) /\ ~Coming(d)'
    BY <2>1 DEF Coming, PhaseInv
  <2>3. QED
    BY <2>1, <2>2 DEF PhaseInv, Coming, memVars
<1>8. CASE Restart
  <2>1. /\ woken' = FALSE /\ hydrated' = FALSE
        /\ \A d \in Sockets : conn'[d] = "off"
        /\ \A p \in Procs : at'[p] = "idle"
        /\ unsaved' = {}
    BY <1>8 DEF Restart
  <2>2. QED
    BY <2>1 DEF PhaseInv, Coming, Quiet, Idle
<1>9. CASE UNCHANGED vars
  BY <1>9 DEF vars, PhaseInv, Coming, Quiet, Idle, connVars, dbVars, faultVars, memVars, procVars
<1>10. ASSUME NEW p \in Procs, CallFails(p)
       PROVE  PhaseInv'
  <2>1. woken /\ \A c \in Sockets : conn[c] \in {"off", "open"}
    BY <1>10 DEF CallFails, PhaseInv, Quiet, Idle, Coming
  <2>2. woken' /\ hydrated' = hydrated /\ \A c \in Sockets : conn'[c] \in {"off", "open"}
    BY <1>0, <1>10, <2>1 DEF CallFails, ConnType, memVars
  <2>3. QED
    BY <2>1, <2>2 DEF PhaseInv, Coming
<1>11. ASSUME NEW c \in Sockets, HydrationFails(c)
       PROVE  PhaseInv'
  <2>1. /\ conn[c] \in {"list", "totals"} /\ conn'[c] = "off"
        /\ \A d \in Sockets \ {c} : conn'[d] = conn[d]
        /\ conn[c] = "totals" => unseeded'
        /\ UNCHANGED <<unsaved, memVars, procVars, woken>>
    BY <1>0, <1>11 DEF HydrationFails, ConnType
  <2>2. Coming(c) /\ ~woken /\ \A d \in Sockets : ~Coming(d)'
    BY <2>1 DEF Coming, PhaseInv
  <2>3. hydrated => unseeded'
    BY <2>1 DEF PhaseInv
  <2>4. \A d \in Sockets : conn'[d] = "off"
    BY <2>1, <2>2 DEF Coming, PhaseInv
  <2>5. QED
    BY <2>1, <2>2, <2>3, <2>4 DEF PhaseInv, Coming, Quiet, Idle, procVars, memVars
<1>12. QED
  BY <1>1, <1>2, <1>3, <1>4, <1>5, <1>6, <1>7, <1>8, <1>9, <1>10, <1>11 DEF Next, Busy

-----------------------------------------------------------------------------
(* The store and the database.                                             *)

\* What is computed with.
LEMMA StoreTypes ==
    ASSUME Typed
    PROVE  mem \in Seq(Entries) /\ db \in Seq(Entries) /\ billed \in Nat /\ tokens \in Nat
<1>1. DbType /\ MemType
  BY TypeParts DEF Typed
<1>2. QED
  BY <1>1 DEF DbType, MemType

\* Appending adds one element to the elements of a transcript.
LEMMA ElemsAppend ==
    ASSUME NEW s \in Seq(Entries), NEW e \in Entries
    PROVE  Elems(Append(s, e)) = Elems(s) \union {e}
BY DEF Elems

\* Entry e is in the store and its row is being written.
Inserting(e) == \E p \in Procs : at[p] = "insert" /\ event[p] = e

MemInv ==
    /\ hydrated => \A e \in Entries :
          /\ e \in Elems(mem) => e \in Elems(db) \/ Inserting(e) \/ e \in unsaved
          /\ e \in Elems(db) \/ Inserting(e) => e \in Elems(mem)
    /\ woken /\ ~unseeded => billed = tokens + (IF at[Owner] = "billed" THEN 1 ELSE 0)

\* A step in which a coroutine goes on without writing an entry.
LEMMA MemGoesOn ==
    ASSUME MemInv, NEW p \in Procs,
           UNCHANGED <<mem, db, billed, faultVars, tokens, hydrated, woken>>,
           \A q \in Procs \ {p} : at'[q] = at[q] /\ event'[q] = event[q],
           at[p] # "insert", at'[p] # "insert",
           (at'[p] = "billed") <=> (at[p] = "billed")
    PROVE  MemInv'
<1>1. \A e \in Entries : Inserting(e)' <=> Inserting(e)
  BY DEF Inserting
<1>2. (at'[Owner] = "billed") <=> (at[Owner] = "billed")
  BY DEF Procs
<1>3. QED
  BY <1>1, <1>2 DEF MemInv, Elems, faultVars

\* A step in which an entry goes into the store.
LEMMA MemRecord ==
    ASSUME Typed, MemInv, NEW p \in Procs, NEW e \in Entries,
           at[p] \in {"idle", "push"}, Record(p, e),
           UNCHANGED <<db, billed, faultVars, tokens, hydrated, woken>>
    PROVE  MemInv'
<1>1. /\ at'[p] = "insert" /\ event'[p] = e
      /\ \A q \in Procs \ {p} : at'[q] = at[q] /\ event'[q] = event[q]
  BY GotoEffect DEF Record, Labels, Events, Typed
<1>2. Elems(mem)' = Elems(mem) \union {e} /\ Elems(db)' = Elems(db)
  <2>1. mem' = Append(mem, e) /\ mem \in Seq(Entries)
    BY StoreTypes DEF Record
  <2>2. Elems(Append(mem, e)) = Elems(mem) \union {e}
    BY <2>1, ElemsAppend
  <2>3. QED
    BY <2>1, <2>2 DEF Elems
<1>3. \A f \in Entries : Inserting(f)' <=> Inserting(f) \/ f = e
  BY <1>1 DEF Inserting
<1>4. (at'[Owner] = "billed") <=> (at[Owner] = "billed")
  BY <1>1 DEF Procs
<1>5. hydrated' => \A f \in Entries :
         /\ f \in Elems(mem)' => f \in Elems(db)' \/ Inserting(f)' \/ f \in unsaved'
         /\ f \in Elems(db)' \/ Inserting(f)' => f \in Elems(mem)'
  BY <1>2, <1>3 DEF MemInv, faultVars
<1>6. woken' /\ ~unseeded' => billed' = tokens' + (IF at'[Owner] = "billed" THEN 1 ELSE 0)
  BY <1>4 DEF MemInv, faultVars
<1>7. QED
  BY <1>5, <1>6 DEF MemInv

\* Every step keeps the store and the database together, while there was no race.
LEMMA MemStep ==
    ASSUME Typed, PhaseInv, MemInv, [Next]_vars, ~raced'
    PROVE  MemInv'
<1>0. /\ mem \in Seq(Entries) /\ db \in Seq(Entries) /\ billed \in Nat /\ tokens \in Nat
      /\ Owner \in Procs /\ TypeOK /\ CallsInv /\ Sockets \subseteq Procs
      /\ {"lamp", "answer", "tokens"} \subseteq Events \ Entries
  BY StoreTypes DEF Typed, Procs, Events
<1>1. ASSUME NEW p \in Procs, Insert(p)
      PROVE  MemInv'
  <2>1. event[p] \in Entries /\ at[p] = "insert"
    BY <1>0, <1>1 DEF Insert, CallsInv
  <2>2. /\ at'[p] = "inserted" /\ event'[p] = event[p]
        /\ \A q \in Procs \ {p} : at'[q] = at[q] /\ event'[q] = event[q]
        /\ UNCHANGED <<billed, faultVars, mem, tokens, hydrated, woken>>
    BY <1>0, <1>1, <2>1, GotoEffect DEF Insert, Labels, Events, memVars
  <2>3. Elems(db)' = Elems(db) \union {event[p]} /\ Elems(mem)' = Elems(mem)
    <3>1. Elems(Append(db, event[p])) = Elems(db) \union {event[p]}
      BY <1>0, <2>1, ElemsAppend
    <3>2. db' = Append(db, event[p])
      BY <1>1 DEF Insert
    <3>3. QED
      BY <2>2, <3>1, <3>2 DEF Elems
  <2>4. \A e \in Entries : Inserting(e) \/ e = event[p] <=> Inserting(e)' \/ e = event[p]
    BY <2>1, <2>2 DEF Inserting
  <2>5. Inserting(event[p])
    BY <2>1 DEF Inserting
  <2>6. hydrated' => \A e \in Entries :
           /\ e \in Elems(mem)' => e \in Elems(db)' \/ Inserting(e)' \/ e \in unsaved'
           /\ e \in Elems(db)' \/ Inserting(e)' => e \in Elems(mem)'
    BY <2>2, <2>3, <2>4, <2>5 DEF MemInv, faultVars
  <2>7. (at'[Owner] = "billed") <=> (at[Owner] = "billed")
    BY <1>0, <2>1, <2>2
  <2>8. QED
    BY <2>1, <2>2, <2>3, <2>6, <2>7 DEF MemInv, faultVars
<1>2. ASSUME NEW p \in Procs, Inserted(p)
      PROVE  MemInv'
  <2>1. event[p] \in Events /\ at[p] = "inserted"
    BY <1>0, <1>2 DEF Inserted, CallsInv, Events
  <2>2. QED
    BY <1>0, <1>2, <2>1, BroadcastEffect, MemGoesOn DEF Inserted, dbVars
<1>3. ASSUME NEW p \in Procs, Send(p)
      PROVE  MemInv'
  BY <1>3 DEF Send, MemInv, Inserting, Elems, dbVars, faultVars, memVars
<1>4. ASSUME NEW p \in Procs, Sent(p)
      PROVE  MemInv'
  <2>1. CASE Record(p, Bubble)
    BY <1>4, <2>1, MemRecord DEF Sent, Entries, dbVars
  <2>2. CASE Goto(p, "idle", None) /\ UNCHANGED mem
    BY <1>0, <1>4, <2>2, GotoEffect, MemGoesOn DEF Sent, dbVars, Labels
  <2>3. QED
    BY <1>4, <2>1, <2>2 DEF Sent
<1>5. ASSUME NEW e \in Texts \union {Ask}, Say(e)
      PROVE  MemInv'
  BY <1>0, <1>5, MemRecord DEF Say, Idle, Entries, dbVars
<1>6. CASE SetLamp
  BY <1>0, <1>6, BroadcastEffect, MemGoesOn DEF SetLamp, Idle, dbVars
<1>7. CASE Bill
  BY <1>0, <1>7, GotoEffect, MemGoesOn DEF Bill, Idle, Labels, dbVars, memVars
<1>8. ASSUME InsertUsage \/ AddTokens
      PROVE  MemInv'
  <2>1. /\ at[Owner] \in {"bill", "billed"}
        /\ at'[Owner] \in {"billed", "push"} /\ event'[Owner] = "tokens"
        /\ (at[Owner] = "billed") <=> (at'[Owner] = "push")
        /\ \A q \in Procs \ {Owner} : at'[q] = at[q] /\ event'[q] = event[q]
        /\ UNCHANGED <<mem, db, faultVars, hydrated, woken>>
    BY <1>0, <1>8, GotoEffect, BroadcastEffect DEF InsertUsage, AddTokens, Labels, dbVars, memVars
  <2>2. woken /\ (at[Owner] = "bill" => billed' = billed + 1 /\ tokens' = tokens)
        /\ (at[Owner] = "billed" => billed' = billed /\ tokens' = tokens + 1)
    BY <1>0, <1>8, <2>1 DEF InsertUsage, AddTokens, PhaseInv, Quiet, Idle, dbVars, memVars
  <2>3. \A e \in Entries : Inserting(e)' <=> Inserting(e)
    BY <2>1 DEF Inserting
  <2>4. ~unseeded => billed' = tokens' + (IF at'[Owner] = "billed" THEN 1 ELSE 0)
    BY <1>0, <2>1, <2>2 DEF MemInv
  <2>5. QED
    BY <1>0, <2>1, <2>3, <2>4 DEF MemInv, Elems, faultVars
<1>9. ASSUME NEW c \in Sockets, Answer(c)
      PROVE  MemInv'
  <2>1. Goto(c, "lock", "answer") \/ Broadcast(c, "answer")
    BY <1>9 DEF Answer
  <2>2. QED
    BY <1>0, <1>9, <2>1, GotoEffect, BroadcastEffect, MemGoesOn DEF Answer, Idle, Labels, dbVars
<1>10. ASSUME NEW c \in Sockets, LockRow(c)
       PROVE  MemInv'
  BY <1>0, <1>10, BroadcastEffect, MemGoesOn DEF LockRow, dbVars, memVars
<1>11. ASSUME UNCHANGED <<mem, db, billed, unsaved, tokens, hydrated, woken, at, event>>,
              unseeded => unseeded'
       PROVE  MemInv'
  BY <1>11 DEF MemInv, Inserting, Elems
<1>12. ASSUME NEW c \in Sockets, Connect(c)
       PROVE  MemInv'
  <2>1. UNCHANGED <<mem, db, billed, unsaved, unseeded, tokens, hydrated, at, event>>
    BY <1>0, <1>12, ConnectAlone, JoinEffect DEF dbVars, faultVars, memVars, procVars
  <2>2. woken' => woken \/ unseeded
    BY <1>12, ConnectAlone
  <2>3. QED
    BY <2>1, <2>2 DEF MemInv, Inserting, Elems
<1>13. ASSUME NEW c \in Sockets, ListRows(c) \/ SumUsage(c) \/ Disconnect(c)
       PROVE  MemInv'
  BY <1>11, <1>13 DEF ListRows, SumUsage, Disconnect, dbVars, faultVars, memVars, procVars
<1>14. ASSUME NEW c \in Sockets, Load(c)
       PROVE  MemInv'
  <2>1. ~woken /\ Quiet /\ unsaved = {} /\ rows[c] = [seq |-> db, locked |-> dbAnswered]
    BY <1>14 DEF Load, PhaseInv, Coming
  <2>2. mem' = db /\ UNCHANGED <<db, billed, unsaved, tokens, woken, at, event>>
    BY <1>14, <2>1 DEF Load, dbVars, faultVars, procVars
  <2>3. \A p \in Procs : at'[p] = "idle"
    BY <2>1, <2>2 DEF Quiet, Idle
  <2>4. QED
    BY <2>1, <2>2, <2>3 DEF MemInv, Inserting, Elems
<1>15. ASSUME NEW c \in Sockets, SeedAndJoin(c)
       PROVE  MemInv'
  <2>1. ~woken /\ Quiet /\ total[c] = billed
    BY <1>15 DEF SeedAndJoin, PhaseInv, Coming
  <2>2. tokens' = billed /\ UNCHANGED <<mem, hydrated, db, billed, unsaved, at, event>>
    BY <1>0, <1>15, <2>1, JoinEffect DEF SeedAndJoin, Seed, dbVars, faultVars
  <2>3. at'[Owner] = "idle"
    BY <1>0, <2>1, <2>2 DEF Quiet, Idle
  <2>4. QED
    BY <1>0, <2>2, <2>3 DEF MemInv, Inserting, Elems
<1>16. CASE Restart
  <2>1. woken' = FALSE /\ hydrated' = FALSE /\ \A p \in Procs : at'[p] = "idle"
    BY <1>16 DEF Restart
  <2>2. QED
    BY <2>1 DEF MemInv
<1>17. CASE UNCHANGED vars
  BY <1>11, <1>17 DEF vars, dbVars, faultVars, memVars, procVars
<1>18. ASSUME NEW p \in Procs, CallFails(p)
       PROVE  MemInv'
  <2>1. /\ at[p] \in {"insert", "inserted", "lock", "bill"} /\ at'[p] = "idle"
        /\ \A q \in Procs \ {p} : at'[q] = at[q] /\ event'[q] = event[q]
        /\ unsaved' = unsaved \union (IF at[p] \in {"insert", "inserted"} THEN {event[p]} ELSE {})
        /\ UNCHANGED <<mem, db, billed, unseeded, tokens, hydrated, woken>>
    BY <1>0, <1>18, GotoEffect DEF CallFails, Labels, memVars
  <2>2. \A e \in Entries : /\ Inserting(e) \/ e \in unsaved => Inserting(e)' \/ e \in unsaved'
                           /\ Inserting(e)' => Inserting(e)
    BY <2>1 DEF Inserting
  <2>3. (at'[Owner] = "billed") <=> (at[Owner] = "billed")
    BY <1>0, <2>1
  <2>4. QED
    BY <2>1, <2>2, <2>3 DEF MemInv, Elems
<1>19. ASSUME NEW c \in Sockets, HydrationFails(c)
       PROVE  MemInv'
  BY <1>11, <1>19 DEF HydrationFails, memVars, procVars
<1>20. QED
  BY <1>1, <1>2, <1>3, <1>4, <1>5, <1>6, <1>7, <1>8, <1>9, <1>10, <1>12, <1>13, <1>14,
     <1>15, <1>16, <1>17, <1>18, <1>19
  DEF Next

-----------------------------------------------------------------------------
(* One coroutine at an entry.                                              *)

\* Coroutine p is recording entry e: writing its row or telling the browsers.
Records(p, e) == event[p] = e /\ at[p] \in {"insert", "inserted", "push"}

\* Coroutine p applied the answer and has not yet recorded its bubble.
Owes(p) == at[p] \in {"lock", "push"} /\ event[p] = "answer"

\* In one life of the daemon each entry is recorded by one coroutine, once.
OneInv ==
    /\ \A p \in Procs, e \in Texts \union {Ask} : Records(p, e) => p = Owner /\ e \in said
    /\ \A p \in Procs : Owes(p) \/ Records(p, Bubble) => answered
    /\ \A p, q \in Procs :
         (Owes(p) \/ Records(p, Bubble)) /\ (Owes(q) \/ Records(q, Bubble)) => p = q
    /\ unsaved \subseteq said \union {Bubble}
    /\ \A e \in unsaved, p \in Procs : ~Records(p, e)
    /\ Bubble \in unsaved => answered /\ \A p \in Procs : ~Owes(p)

\* Two coroutines never record the same entry.
LEMMA OneRecords ==
    ASSUME OneInv, NEW p \in Procs, NEW q \in Procs, NEW e \in Entries, Records(p, e), Records(q, e)
    PROVE  p = q
BY DEF OneInv, Entries

\* A coroutine goes on without starting on an entry or an answer.
LEMMA OneKept ==
    ASSUME Typed, OneInv, UNCHANGED <<answered, said, unsaved>>, NEW p \in Procs,
           \A q \in Procs \ {p} : at'[q] = at[q] /\ event'[q] = event[q],
           Owes(p)' => Owes(p),
           \A e \in Entries : Records(p, e)' => Records(p, e)
    PROVE  OneInv'
<1>1. \A q \in Procs : Owes(q)' => Owes(q)
  BY DEF Owes
<1>2. \A q \in Procs, e \in Entries : Records(q, e)' => Records(q, e)
  BY DEF Records
<1>3. unsaved \subseteq Entries
  BY DEF Typed, TypeOK
<1>4. Bubble \in Entries /\ Texts \union {Ask} \subseteq Entries
  BY DEF Entries
<1>5. \A e \in unsaved', q \in Procs : ~Records(q, e)'
  BY <1>2, <1>3 DEF OneInv
<1>6. \A q, r \in Procs :
        (Owes(q) \/ Records(q, Bubble))' /\ (Owes(r) \/ Records(r, Bubble))' => q = r
  BY <1>1, <1>2, <1>4 DEF OneInv
<1>7. QED
  BY <1>1, <1>2, <1>4, <1>5, <1>6 DEF OneInv

\* Every step keeps one coroutine at an entry, while there was no race.
LEMMA OneStep ==
    ASSUME Typed, PhaseInv, OneInv, [Next]_vars, ~raced'
    PROVE  OneInv'
<1>0. /\ Owner \in Procs /\ TypeOK /\ CallsInv /\ Sockets \subseteq Procs
      /\ {"lamp", "answer", "tokens"} \subseteq Events \ Entries /\ Bubble \in Entries
      /\ "answer" # "lamp" /\ "answer" # "tokens" /\ None \notin Events /\ Entries \subseteq Events
      /\ Texts \union {Ask} = Entries \ {Bubble} /\ unsaved \subseteq Entries
  BY DEF Typed, Procs, Events, Entries, TypeOK
<1>1. ASSUME NEW p \in Procs, Insert(p)
      PROVE  OneInv'
  <2>1. /\ event[p] \in Entries /\ at[p] = "insert" /\ at'[p] = "inserted" /\ event'[p] = event[p]
        /\ \A q \in Procs \ {p} : at'[q] = at[q] /\ event'[q] = event[q]
        /\ UNCHANGED <<answered, said, unsaved>>
    BY <1>0, <1>1, GotoEffect DEF Insert, CallsInv, Labels, memVars, faultVars
  <2>2. ~Owes(p)' /\ \A e \in Entries : Records(p, e)' => Records(p, e)
    BY <2>1 DEF Owes, Records
  <2>3. QED
    BY <2>1, <2>2, OneKept
<1>2. ASSUME NEW p \in Procs, Inserted(p)
      PROVE  OneInv'
  <2>1. event[p] \in Entries
    BY <1>0, <1>2 DEF Inserted, CallsInv
  <2>2. /\ at[p] = "inserted" /\ at'[p] = "push" /\ event'[p] = event[p]
        /\ \A q \in Procs \ {p} : at'[q] = at[q] /\ event'[q] = event[q]
        /\ UNCHANGED <<answered, said, unsaved>>
    BY <1>0, <1>2, <2>1, BroadcastEffect DEF Inserted, dbVars, faultVars
  <2>3. ~Owes(p)' /\ \A e \in Entries : Records(p, e)' => Records(p, e)
    BY <1>0, <2>1, <2>2 DEF Owes, Records
  <2>4. QED
    BY <2>2, <2>3, OneKept
<1>3. ASSUME UNCHANGED <<answered, said, unsaved, at, event>>
      PROVE  OneInv'
  BY <1>3 DEF OneInv, Owes, Records
<1>4. ASSUME NEW p \in Procs, Send(p)
      PROVE  OneInv'
  BY <1>3, <1>4 DEF Send, dbVars, faultVars, memVars
<1>5. ASSUME NEW p \in Procs, Sent(p)
      PROVE  OneInv'
  <2>1. CASE event[p] = "answer"
    <3>1. /\ Owes(p) /\ Goto(p, "insert", Bubble) /\ UNCHANGED <<answered, said, unsaved>>
      BY <1>5, <2>1 DEF Sent, Record, Owes, dbVars, faultVars
    <3>2. /\ at'[p] = "insert" /\ event'[p] = Bubble
          /\ \A q \in Procs \ {p} : at'[q] = at[q] /\ event'[q] = event[q]
      BY <1>0, <3>1, GotoEffect DEF Labels
    <3>3. answered /\ Bubble \notin unsaved /\ \A q \in Procs : Owes(q) \/ Records(q, Bubble) => q = p
      BY <3>1 DEF OneInv
    <3>4. \A q \in Procs, e \in Entries : Records(q, e)' => Records(q, e) \/ (q = p /\ e = Bubble)
      BY <3>2 DEF Records
    <3>5. \A q \in Procs : ~Owes(q)'
      BY <1>0, <3>2, <3>3 DEF Owes
    <3>6. \A e \in unsaved', q \in Procs : ~Records(q, e)'
      BY <1>0, <3>1, <3>3, <3>4 DEF OneInv
    <3>7. QED
      BY <1>0, <3>1, <3>3, <3>4, <3>5, <3>6 DEF OneInv
  <2>2. CASE event[p] # "answer"
    <3>1. /\ at'[p] = "idle" /\ \A q \in Procs \ {p} : at'[q] = at[q] /\ event'[q] = event[q]
          /\ UNCHANGED <<answered, said, unsaved>>
      BY <1>0, <1>5, <2>2, GotoEffect DEF Sent, Labels, dbVars, faultVars
    <3>2. ~Owes(p)' /\ \A e \in Entries : ~Records(p, e)'
      BY <3>1 DEF Owes, Records
    <3>3. QED
      BY <3>1, <3>2, OneKept
  <2>3. QED
    BY <2>1, <2>2
<1>6. ASSUME NEW e \in Texts \union {Ask}, Say(e)
      PROVE  OneInv'
  <2>1. e \in Entries /\ e # Bubble /\ e \notin said /\ said' = said \union {e}
    BY <1>0, <1>6 DEF Say
  <2>2. /\ at'[Owner] = "insert" /\ event'[Owner] = e
        /\ \A q \in Procs \ {Owner} : at'[q] = at[q] /\ event'[q] = event[q]
        /\ UNCHANGED <<answered, unsaved>>
    BY <1>0, <1>6, <2>1, GotoEffect DEF Say, Record, Idle, Labels, dbVars, faultVars
  <2>3. \A q \in Procs, f \in Entries : Records(q, f)' => Records(q, f) \/ (q = Owner /\ f = e)
    BY <2>2 DEF Records
  <2>4. \A q \in Procs : Owes(q)' => Owes(q)
    BY <2>2 DEF Owes
  <2>5. e \notin unsaved
    BY <2>1 DEF OneInv
  <2>6. \A f \in unsaved', q \in Procs : ~Records(q, f)'
    BY <1>0, <2>2, <2>3, <2>5 DEF OneInv
  <2>7. \A q, r \in Procs :
          (Owes(q) \/ Records(q, Bubble))' /\ (Owes(r) \/ Records(r, Bubble))' => q = r
    BY <1>0, <2>1, <2>3, <2>4 DEF OneInv
  <2>8. \A q \in Procs, f \in Texts \union {Ask} : Records(q, f)' => q = Owner /\ f \in said'
    BY <1>0, <2>1, <2>3 DEF OneInv
  <2>9. QED
    BY <1>0, <2>1, <2>2, <2>3, <2>4, <2>6, <2>7, <2>8 DEF OneInv
<1>7. CASE SetLamp \/ Bill \/ InsertUsage \/ AddTokens
  <2>1. /\ at'[Owner] \in {"push", "bill", "billed"} /\ event'[Owner] \in {"lamp", "tokens"}
        /\ \A q \in Procs \ {Owner} : at'[q] = at[q] /\ event'[q] = event[q]
        /\ UNCHANGED <<answered, said, unsaved>>
    BY <1>0, <1>7, GotoEffect, BroadcastEffect
    DEF SetLamp, Bill, InsertUsage, AddTokens, Labels, dbVars, faultVars, memVars
  <2>2. ~Owes(Owner)' /\ \A e \in Entries : ~Records(Owner, e)'
    BY <1>0, <2>1 DEF Owes, Records
  <2>3. QED
    BY <1>0, <2>1, <2>2, OneKept
<1>8. ASSUME NEW c \in Sockets, Answer(c)
      PROVE  OneInv'
  <2>1. Goto(c, "lock", "answer") \/ Broadcast(c, "answer")
    BY <1>8 DEF Answer
  <2>2. /\ at'[c] \in {"lock", "push"} /\ event'[c] = "answer"
        /\ \A q \in Procs \ {c} : at'[q] = at[q] /\ event'[q] = event[q]
    BY <1>0, <2>1, GotoEffect, BroadcastEffect DEF Labels
  <2>3. ~answered /\ answered' /\ UNCHANGED <<said, unsaved>>
    BY <1>8 DEF Answer, NewlyAnswered, dbVars, faultVars
  <2>4. Bubble \notin unsaved /\ \A q \in Procs : ~Owes(q) /\ ~Records(q, Bubble)
    BY <2>3 DEF OneInv
  <2>5. \A q \in Procs, e \in Entries : Records(q, e)' => Records(q, e)
    BY <1>0, <2>2 DEF Records
  <2>6. \A q \in Procs : Owes(q)' => q = c
    BY <2>2, <2>4 DEF Owes
  <2>7. \A e \in unsaved', q \in Procs : ~Records(q, e)'
    BY <1>0, <2>3, <2>5 DEF OneInv
  <2>8. QED
    BY <1>0, <2>3, <2>4, <2>5, <2>6, <2>7 DEF OneInv
<1>9. ASSUME NEW c \in Sockets, LockRow(c)
      PROVE  OneInv'
  <2>1. /\ at[c] = "lock" /\ event[c] = "answer"
        /\ at'[c] = "push" /\ event'[c] = "answer"
        /\ \A q \in Procs \ {c} : at'[q] = at[q] /\ event'[q] = event[q]
        /\ UNCHANGED <<answered, said, unsaved>>
    BY <1>0, <1>9, BroadcastEffect DEF LockRow, CallsInv, memVars, faultVars
  <2>2. Owes(c) /\ \A e \in Entries : ~Records(c, e)'
    BY <1>0, <2>1 DEF Owes, Records
  <2>3. QED
    BY <1>0, <2>1, <2>2, OneKept
<1>10. ASSUME NEW p \in Procs, CallFails(p)
       PROVE  OneInv'
  <2>1. /\ at[p] \in {"insert", "inserted", "lock", "bill"} /\ at'[p] = "idle"
        /\ \A q \in Procs \ {p} : at'[q] = at[q] /\ event'[q] = event[q]
        /\ unsaved' = unsaved \union (IF at[p] \in {"insert", "inserted"} THEN {event[p]} ELSE {})
        /\ UNCHANGED <<answered, said>>
    BY <1>0, <1>10, GotoEffect DEF CallFails, Labels, memVars
  <2>2. ~Owes(p)' /\ \A e \in Entries : ~Records(p, e)'
    BY <2>1 DEF Owes, Records
  <2>3. CASE at[p] \notin {"insert", "inserted"}
    <3>1. unsaved' = unsaved
      BY <2>1, <2>3
    <3>2. QED
      BY <2>1, <2>2, <3>1, OneKept
  <2>4. CASE at[p] \in {"insert", "inserted"}
    <3>0. PICK e \in Entries : e = event[p]
      BY <1>0, <2>4 DEF CallsInv
    <3>1. Records(p, e) /\ ~Owes(p) /\ unsaved' = unsaved \union {e}
      BY <2>1, <2>4, <3>0 DEF Records, Owes
    <3>2. \A q \in Procs : Owes(q)' => Owes(q)
      BY <2>1, <2>2 DEF Owes
    <3>3. \A q \in Procs, f \in Entries : Records(q, f)' => Records(q, f) /\ q # p
      BY <2>1, <2>2 DEF Records
    <3>4. \A q \in Procs : ~Records(q, e)'
      BY <3>1, <3>3, OneRecords
    <3>5. \A f \in unsaved', q \in Procs : ~Records(q, f)'
      BY <1>0, <3>1, <3>3, <3>4 DEF OneInv
    <3>6. e # Bubble => e \in said
      BY <1>0, <3>1 DEF OneInv
    <3>7. e = Bubble => answered /\ \A q \in Procs : ~Owes(q)
      BY <3>1 DEF OneInv
    <3>8. \A q, r \in Procs :
            (Owes(q) \/ Records(q, Bubble))' /\ (Owes(r) \/ Records(r, Bubble))' => q = r
      BY <1>0, <3>2, <3>3 DEF OneInv
    <3>9. Bubble \in unsaved' => answered' /\ \A q \in Procs : ~Owes(q)'
      BY <2>1, <3>1, <3>2, <3>7 DEF OneInv
    <3>10. unsaved' \subseteq said' \union {Bubble}
      BY <2>1, <3>1, <3>6 DEF OneInv
    <3>11. QED
      BY <1>0, <2>1, <3>2, <3>3, <3>5, <3>8, <3>9, <3>10 DEF OneInv
  <2>5. QED
    BY <2>3, <2>4
<1>11. ASSUME NEW c \in Sockets, Connect(c)
       PROVE  OneInv'
  BY <1>0, <1>3, <1>11, JoinEffect DEF Connect, dbVars, faultVars, memVars, procVars
<1>12. ASSUME NEW c \in Sockets, ListRows(c) \/ SumUsage(c) \/ Disconnect(c) \/ HydrationFails(c)
       PROVE  OneInv'
  BY <1>3, <1>12
  DEF ListRows, SumUsage, Disconnect, HydrationFails, dbVars, faultVars, memVars, procVars
<1>13. ASSUME NEW c \in Sockets, Load(c)
       PROVE  OneInv'
  <2>1. Quiet /\ unsaved = {} /\ UNCHANGED <<at, event, unsaved>>
    BY <1>13 DEF Load, PhaseInv, Coming, dbVars, faultVars, procVars
  <2>2. \A p \in Procs : ~Owes(p)' /\ \A e : ~Records(p, e)'
    BY <2>1 DEF Quiet, Idle, Owes, Records
  <2>3. QED
    BY <2>1, <2>2 DEF OneInv
<1>14. ASSUME NEW c \in Sockets, SeedAndJoin(c)
       PROVE  OneInv'
  BY <1>0, <1>3, <1>14, JoinEffect DEF SeedAndJoin, dbVars, faultVars
<1>15. CASE Restart
  <2>1. unsaved' = {} /\ \A p \in Procs : ~Owes(p)' /\ \A e : ~Records(p, e)'
    BY <1>15 DEF Restart, Owes, Records
  <2>2. QED
    BY <2>1 DEF OneInv
<1>16. CASE UNCHANGED vars
  BY <1>3, <1>16 DEF vars, dbVars, faultVars, memVars, procVars
<1>17. QED
  BY <1>1, <1>2, <1>4, <1>5, <1>6, <1>7, <1>8, <1>9, <1>10, <1>11, <1>12, <1>13, <1>14, <1>15, <1>16
  DEF Next

-----------------------------------------------------------------------------
(* The browsers and the store.                                             *)

\* Appending an entry counts it once more and leaves the other counts alone.
LEMMA CountAppend ==
    ASSUME NEW s \in Seq(Entries), NEW e, NEW f \in Entries
    PROVE  /\ Count(e, s) \in Nat
           /\ e = f => Count(e, Append(s, f)) = Count(e, s) + 1
           /\ e # f => Count(e, Append(s, f)) = Count(e, s)
<1> DEFINE I == {i \in DOMAIN s : s[i] = e}
           t == Append(s, f)
           J == {i \in DOMAIN t : t[i] = e}
<1>1. /\ Len(s) \in Nat /\ DOMAIN s = 1 .. Len(s) /\ DOMAIN t = 1 .. (Len(s) + 1)
      /\ t[Len(s) + 1] = f /\ \A i \in 1 .. Len(s) : t[i] = s[i]
  OBVIOUS
<1>2. IsFiniteSet(I) /\ Count(e, s) = Cardinality(I) /\ Count(e, t) = Cardinality(J)
  <2>1. IsFiniteSet(1 .. Len(s)) /\ I \subseteq 1 .. Len(s)
    BY <1>1, FS_Interval
  <2>2. QED
    BY <2>1, FS_Subset DEF Count
<1>3. Cardinality(I) \in Nat
  BY <1>2, FS_CardinalityType
<1>4. CASE e = f
  <2>1. J = I \union {Len(s) + 1} /\ Len(s) + 1 \notin I
    <3> HIDE DEF t
    <3>1. \A i : i \in DOMAIN t <=> i \in DOMAIN s \/ i = Len(s) + 1
      BY <1>1
    <3>2. Len(s) + 1 \notin DOMAIN s
      BY <1>1
    <3>3. QED
      BY <1>1, <1>4, <3>1, <3>2
  <2>2. Cardinality(J) = Cardinality(I) + 1
    BY <1>2, <2>1, FS_AddElement
  <2>3. QED
    BY <1>2, <1>3, <1>4, <2>2
<1>5. CASE e # f
  <2>1. J = I
    <3> HIDE DEF t
    <3>1. \A i : i \in DOMAIN t <=> i \in DOMAIN s \/ i = Len(s) + 1
      BY <1>1
    <3>2. QED
      BY <1>1, <1>5, <3>1
  <2>2. QED
    BY <1>2, <1>3, <1>5, <2>1
<1>6. QED
  BY <1>4, <1>5

\* Coroutine p will still send event e to socket c, unless c connects anew first.
Carries(p, e, c) ==
    /\ event[p] = e
    /\ at[p] \in {"insert", "inserted"} \/ (at[p] = "push" /\ c \in todo[p])

OnItsWay(e, c) == \E p \in Procs : Carries(p, e, c)

Waits(e, c) == IF OnItsWay(e, c) THEN 1 ELSE 0
Extra(e, c) == IF e \in doubled[c] THEN 1 ELSE 0

\* What browser c shows of entry e, with what is on its way, is what the store has.
Seen(e, c) ==
    /\ e \notin unsaved => Count(e, feed[c]) + Waits(e, c) = Count(e, mem) + Extra(e, c)
    /\ e \in unsaved => Count(e, feed[c]) <= Count(e, mem)

SeenInv ==
    \A c \in Open : /\ shownLamp[c] = lamp \/ OnItsWay("lamp", c)
                    /\ \A e \in Entries : Seen(e, c)

\* Every count is a number.
LEMMA CountTypes ==
    ASSUME Typed, NEW c \in Sockets, NEW e \in Entries
    PROVE  /\ mem \in Seq(Entries) /\ feed[c] \in Seq(Entries)
           /\ Count(e, mem) \in Nat /\ Count(e, feed[c]) \in Nat
<1>1. mem \in Seq(Entries) /\ feed[c] \in Seq(Entries)
  BY DEF Typed, TypeOK
<1>2. QED
  BY <1>1, CountAppend

\* What a coroutine carries and has carried decides what is on its way.
LEMMA WaySame ==
    ASSUME NEW p \in Procs, NEW e, NEW c,
           \A q \in Procs \ {p} : at'[q] = at[q] /\ event'[q] = event[q] /\ todo'[q] = todo[q],
           Carries(p, e, c)' <=> Carries(p, e, c)
    PROVE  OnItsWay(e, c)' <=> OnItsWay(e, c)
BY DEF OnItsWay, Carries

\* What a browser shows of an entry does not change when nothing about it does.
LEMMA SeenSame ==
    ASSUME NEW c, NEW e, feed'[c] = feed[c], doubled'[c] = doubled[c], mem' = mem,
           e \in unsaved' <=> e \in unsaved,
           OnItsWay(e, c)' <=> OnItsWay(e, c), Seen(e, c)
    PROVE  Seen(e, c)'
<1>1. Count(e, feed[c])' = Count(e, feed[c]) /\ Count(e, mem)' = Count(e, mem)
  BY DEF Count
<1>2. Waits(e, c)' = Waits(e, c) /\ Extra(e, c)' = Extra(e, c)
  BY DEF Waits, Extra
<1>3. QED
  BY <1>1, <1>2 DEF Seen

\* A step that shows nothing and records nothing new.
LEMMA SeenKept ==
    ASSUME SeenInv, UNCHANGED <<conn, feed, shownLamp, doubled, mem, lamp, unsaved>>,
           NEW p \in Procs,
           \A q \in Procs \ {p} : at'[q] = at[q] /\ event'[q] = event[q] /\ todo'[q] = todo[q],
           \A c \in Open, e \in Entries \union {"lamp"} : Carries(p, e, c)' <=> Carries(p, e, c)
    PROVE  SeenInv'
<1>1. Open' = Open
  BY DEF Open
<1>2. \A c \in Open, e \in Entries \union {"lamp"} : OnItsWay(e, c)' <=> OnItsWay(e, c)
  BY WaySame
<1>3. ASSUME NEW c \in Open, NEW e \in Entries
      PROVE  Seen(e, c)'
  BY <1>2, SeenSame DEF SeenInv
<1>4. QED
  BY <1>1, <1>2, <1>3 DEF SeenInv

\* An entry recorded now is on its way to everyone.
LEMMA SeenRecord ==
    ASSUME Typed, SeenInv, OneInv', UNCHANGED <<conn, feed, shownLamp, doubled, lamp, unsaved>>,
           NEW p \in Procs, NEW e \in Entries, Record(p, e),
           at[p] = "idle" \/ (at[p] = "push" /\ todo[p] = {})
    PROVE  SeenInv'
<1>1. /\ at'[p] = "insert" /\ event'[p] = e /\ todo' = todo
      /\ \A q \in Procs \ {p} : at'[q] = at[q] /\ event'[q] = event[q]
  BY GotoEffect DEF Record, Labels, Events, Typed
<1>2. mem' = Append(mem, e) /\ mem \in Seq(Entries)
  BY StoreTypes DEF Record
<1>3. Open' = Open /\ Open \subseteq Sockets
  BY DEF Open
<1>4. Records(p, e)' /\ \A q \in Procs : Records(q, e)' => q = p
  <2>1. Records(p, e)'
    BY <1>1 DEF Records
  <2>2. QED
    BY <2>1 DEF OneInv, Entries
<1>5. e \notin unsaved
  BY <1>4 DEF OneInv
<1>6. ASSUME NEW c \in Open, NEW f, f # e
      PROVE  OnItsWay(f, c)' <=> OnItsWay(f, c)
  BY <1>1, <1>6, WaySame DEF Carries
<1>7. ASSUME NEW c \in Open
      PROVE  OnItsWay(e, c)' /\ ~OnItsWay(e, c)
  <2>1. OnItsWay(e, c)'
    BY <1>1 DEF OnItsWay, Carries
  <2>2. ASSUME NEW q \in Procs, Carries(q, e, c)
        PROVE  FALSE
    <3>1. q # p
      BY <2>2 DEF Carries
    <3>2. Records(q, e)'
      BY <1>1, <2>2, <3>1 DEF Carries, Records
    <3>3. QED
      BY <1>4, <3>1, <3>2
  <2>3. QED
    BY <2>1, <2>2 DEF OnItsWay
<1>8. ASSUME NEW c \in Open, NEW f \in Entries
      PROVE  Seen(f, c)'
  <2>1. /\ Seen(f, c) /\ Count(f, mem) \in Nat /\ Count(f, feed[c]) \in Nat
        /\ Count(f, feed[c])' = Count(f, feed[c]) /\ Extra(f, c)' = Extra(f, c)
    BY <1>3, CountTypes DEF SeenInv, Count, Extra
  <2>2. CASE f = e
    <3>1. Waits(f, c) = 0 /\ Waits(f, c)' = 1
      BY <1>7, <2>2 DEF Waits
    <3>2. Count(f, Append(mem, e)) = Count(f, mem) + 1
      BY <1>2, <2>2, CountAppend
    <3>3. Count(f, mem)' = Count(f, mem) + 1
      BY <1>2, <3>2 DEF Count
    <3>4. Extra(f, c) \in Nat
      BY DEF Extra
    <3>5. QED
      BY <1>5, <2>1, <2>2, <3>1, <3>3, <3>4 DEF Seen
  <2>3. CASE f # e
    <3>1. Waits(f, c)' = Waits(f, c)
      BY <1>6, <2>3 DEF Waits
    <3>2. Count(f, Append(mem, e)) = Count(f, mem)
      BY <1>2, <2>3, CountAppend
    <3>3. Count(f, mem)' = Count(f, mem)
      BY <1>2, <3>2 DEF Count
    <3>4. QED
      BY <2>1, <3>1, <3>3 DEF Seen
  <2>4. QED
    BY <2>2, <2>3
<1>9. "lamp" # e
  BY DEF Entries, Events
<1>10. QED
  BY <1>3, <1>6, <1>8, <1>9 DEF SeenInv

\* A socket that joins sees everything; nothing changes for the others.
LEMMA SeenJoin ==
    ASSUME Typed, SeenInv, NEW c \in Sockets, Join(c), UNCHANGED <<mem, lamp, unsaved>>
    PROVE  SeenInv'
<1>1. /\ feed'[c] = mem /\ shownLamp'[c] = lamp /\ doubled'[c] = Recording
      /\ UNCHANGED <<at, event>>
      /\ \A d \in Sockets \ {c} : /\ conn'[d] = conn[d] /\ feed'[d] = feed[d]
                                  /\ shownLamp'[d] = shownLamp[d] /\ doubled'[d] = doubled[d]
      /\ \A p \in Procs : todo'[p] = todo[p] \ {c}
  BY JoinEffect DEF Typed
<1>2. ASSUME NEW d \in Open', d # c
      PROVE  d \in Open /\ \A e : OnItsWay(e, d)' <=> OnItsWay(e, d)
  BY <1>1, <1>2 DEF Open, OnItsWay, Carries
<1>3. ASSUME NEW d \in Open', d # c
      PROVE  /\ shownLamp'[d] = lamp' \/ OnItsWay("lamp", d)'
             /\ \A e \in Entries : Seen(e, d)'
  <2>1. d \in Sockets /\ d \in Open
    BY <1>2, <1>3 DEF Open
  <2>2. ASSUME NEW e \in Entries
        PROVE  Seen(e, d)'
    BY <1>1, <1>2, <1>3, <2>1, SeenSame DEF SeenInv
  <2>3. QED
    BY <1>1, <1>2, <1>3, <2>1, <2>2 DEF SeenInv
<1>4. ASSUME NEW e \in Entries
      PROVE  Seen(e, c)'
  <2>1. OnItsWay(e, c)' <=> e \in Recording
    BY <1>1 DEF OnItsWay, Carries, Recording
  <2>2. Waits(e, c)' = Extra(e, c)'
    BY <1>1, <2>1 DEF Waits, Extra
  <2>3. Count(e, feed[c])' = Count(e, mem)' /\ Count(e, mem)' \in Nat
    <3>1. Count(e, mem)' = Count(e, mem)
      BY DEF Count
    <3>2. QED
      BY <1>1, <3>1, CountTypes DEF Count
  <2>4. QED
    BY <2>2, <2>3 DEF Seen
<1>5. QED
  BY <1>1, <1>3, <1>4 DEF SeenInv

\* A message is sent to one of the sockets it was for.
LEMMA SeenSend ==
    ASSUME Typed, OneInv, SeenInv, NEW p \in Procs, Send(p)
    PROVE  SeenInv'
<1>0. ViewType /\ ProcType
  BY TypeParts DEF Typed
<1>1. PICK c \in todo[p] :
        /\ todo' = [todo EXCEPT ![p] = todo[p] \ {c}]
        /\ IF c \in Open THEN Deliver(c, event[p]) ELSE UNCHANGED viewVars
  BY DEF Send, Remaining
<1>2. /\ at[p] = "push" /\ UNCHANGED <<at, event, conn, mem, lamp, unsaved, doubled>>
      /\ \A q \in Procs \ {p} : todo'[q] = todo[q]
      /\ todo'[p] = todo[p] \ {c} /\ c \in Sockets
  BY <1>0, <1>1 DEF Send, connVars, memVars, dbVars, faultVars, viewVars, ProcType, Deliver
<1>3. Open' = Open /\ Open \subseteq Sockets
  BY <1>2 DEF Open
<1>4. PICK f : f = event[p]
  OBVIOUS
<1>5. ASSUME NEW d \in Open, d # c
      PROVE  /\ feed'[d] = feed[d] /\ shownLamp'[d] = shownLamp[d]
             /\ \A e : OnItsWay(e, d)' <=> OnItsWay(e, d)
  <2>1. feed'[d] = feed[d] /\ shownLamp'[d] = shownLamp[d]
    BY <1>0, <1>1, <1>5 DEF Deliver, viewVars, ViewType, Open
  <2>2. \A e : OnItsWay(e, d)' <=> OnItsWay(e, d)
    BY <1>2, <1>5 DEF OnItsWay, Carries
  <2>3. QED
    BY <2>1, <2>2
<1>6. ASSUME NEW d \in Open, d # c
      PROVE  /\ shownLamp'[d] = lamp' \/ OnItsWay("lamp", d)'
             /\ \A e \in Entries : Seen(e, d)'
  <2>1. ASSUME NEW e \in Entries
        PROVE  Seen(e, d)'
    BY <1>2, <1>5, <1>6, SeenSame DEF SeenInv
  <2>2. QED
    BY <1>2, <1>5, <1>6, <2>1 DEF SeenInv
<1>7. \A e : e # f => (OnItsWay(e, c)' <=> OnItsWay(e, c))
  BY <1>2, <1>4 DEF OnItsWay, Carries
<1>8. ASSUME c \in Open
      PROVE  \A e \in Entries : Seen(e, c)'
  <2>1. feed' = IF f \in Entries THEN [feed EXCEPT ![c] = Append(feed[c], f)] ELSE feed
    BY <1>1, <1>4, <1>8 DEF Deliver
  <2>2. feed'[c] = IF f \in Entries THEN Append(feed[c], f) ELSE feed[c]
    BY <1>0, <1>2, <2>1 DEF ViewType
  <2>3. ASSUME NEW e \in Entries
        PROVE  Seen(e, c)'
    <3>1. /\ Seen(e, c) /\ Count(e, mem) \in Nat /\ Count(e, feed[c]) \in Nat
          /\ Count(e, mem)' = Count(e, mem) /\ Extra(e, c)' = Extra(e, c) /\ Extra(e, c) \in Nat
      BY <1>2, <1>8, CountTypes DEF SeenInv, Count, Extra
    <3>2. CASE e = f
      <4>1. Carries(p, f, c) /\ Records(p, f)
        BY <1>1, <1>2, <1>4 DEF Carries, Records
      <4>2. OnItsWay(e, c) /\ e \notin unsaved
        BY <3>2, <4>1 DEF OnItsWay, OneInv
      <4>3. ASSUME NEW q \in Procs, Carries(q, e, c)'
            PROVE  FALSE
        <5>1. q # p
          BY <1>2, <4>3 DEF Carries
        <5>2. Records(q, e)
          BY <1>2, <4>3 DEF Carries, Records
        <5>3. QED
          BY <3>2, <4>1, <5>1, <5>2, OneRecords
      <4>4. Waits(e, c) = 1 /\ Waits(e, c)' = 0
        BY <4>2, <4>3 DEF Waits, OnItsWay
      <4>5. Count(e, Append(feed[c], f)) = Count(e, feed[c]) + 1
        <5>1. feed[c] \in Seq(Entries)
          BY <1>2, CountTypes
        <5>2. QED
          BY <3>2, <5>1, CountAppend
      <4>6. Count(e, feed[c])' = Count(e, feed[c]) + 1
        BY <2>2, <3>2, <4>5 DEF Count
      <4>7. e \notin unsaved'
        BY <1>2, <4>2
      <4>8. QED
        BY <3>1, <4>2, <4>4, <4>6, <4>7 DEF Seen
    <3>3. CASE e # f
      <4>1. Waits(e, c)' = Waits(e, c)
        BY <1>7, <3>3 DEF Waits
      <4>2. f \in Entries => Count(e, Append(feed[c], f)) = Count(e, feed[c])
        <5>1. feed[c] \in Seq(Entries)
          BY <1>2, CountTypes
        <5>2. QED
          BY <3>3, <5>1, CountAppend
      <4>3. Count(e, feed[c])' = Count(e, feed[c])
        BY <2>2, <4>2 DEF Count
      <4>4. QED
        BY <1>2, <3>1, <4>1, <4>3 DEF Seen
    <3>4. QED
      BY <3>2, <3>3
  <2>4. QED
    BY <2>3
<1>9. ASSUME c \in Open
      PROVE  shownLamp'[c] = lamp' \/ OnItsWay("lamp", c)'
  <2>1. shownLamp'[c] = IF f = "lamp" THEN lamp ELSE shownLamp[c]
    BY <1>0, <1>1, <1>2, <1>4, <1>9 DEF Deliver, ViewType
  <2>2. QED
    BY <1>2, <1>7, <1>9, <2>1 DEF SeenInv
<1>10. QED
  BY <1>3, <1>6, <1>8, <1>9 DEF SeenInv

\* An entry whose insert raised is not sent to anyone any more.
LEMMA SeenFails ==
    ASSUME Typed, OneInv, SeenInv, NEW p \in Procs, CallFails(p)
    PROVE  SeenInv'
<1>0. ViewType /\ ConnType /\ p \in Procs /\ TypeOK
  BY TypeParts DEF Typed
<1>1. /\ at[p] \in {"insert", "inserted", "lock", "bill"} /\ at'[p] = "idle" /\ todo' = todo
      /\ \A q \in Procs \ {p} : at'[q] = at[q] /\ event'[q] = event[q]
      /\ unsaved' = unsaved \union (IF at[p] \in {"insert", "inserted"} THEN {event[p]} ELSE {})
      /\ UNCHANGED <<mem, lamp>>
  BY <1>0, GotoEffect DEF CallFails, Labels, memVars
<1>2. ASSUME NEW c \in Open'
      PROVE  /\ c \in Open /\ feed'[c] = feed[c] /\ shownLamp'[c] = shownLamp[c]
             /\ doubled'[c] = doubled[c]
  BY <1>0, <1>2 DEF CallFails, Gone, Open, ViewType, ConnType, viewVars
<1>3. PICK f : f = event[p]
  OBVIOUS
<1>4. \A c, e : ~(at[p] \in {"insert", "inserted"} /\ e = f) => (OnItsWay(e, c)' <=> OnItsWay(e, c))
  BY <1>1, <1>3 DEF OnItsWay, Carries
<1>5. ASSUME NEW c \in Open', NEW e \in Entries
      PROVE  Seen(e, c)'
  <2>1. c \in Sockets /\ Seen(e, c)
    BY <1>2, <1>5 DEF SeenInv, Open
  <2>2. CASE at[p] \in {"insert", "inserted"} /\ e = f
    <3>1. Records(p, e) /\ Carries(p, e, c)
      BY <1>3, <2>2 DEF Records, Carries
    <3>2. e \notin unsaved /\ Waits(e, c) = 1
      BY <3>1 DEF OneInv, Waits, OnItsWay
    <3>3. Extra(e, c) \in {0, 1} /\ Count(e, mem) \in Nat /\ Count(e, feed[c]) \in Nat
      BY <2>1, CountTypes DEF Extra
    <3>4. Count(e, feed[c]) <= Count(e, mem)
      <4>1. Count(e, feed[c]) + 1 = Count(e, mem) + Extra(e, c)
        BY <2>1, <3>2 DEF Seen
      <4>2. QED
        BY <3>3, <4>1
    <3>5. Count(e, feed[c])' = Count(e, feed[c]) /\ Count(e, mem)' = Count(e, mem)
      BY <1>1, <1>2 DEF Count
    <3>6. e \in unsaved'
      BY <1>1, <1>3, <2>2
    <3>7. QED
      BY <3>4, <3>5, <3>6 DEF Seen
  <2>3. CASE ~(at[p] \in {"insert", "inserted"} /\ e = f)
    <3>1. e \in unsaved' <=> e \in unsaved
      BY <1>1, <1>3, <2>3
    <3>2. QED
      BY <1>1, <1>2, <1>4, <2>1, <2>3, <3>1, SeenSame
  <2>4. QED
    BY <2>2, <2>3
<1>6. ASSUME NEW c \in Open'
      PROVE  shownLamp'[c] = lamp' \/ OnItsWay("lamp", c)'
  <2>1. OnItsWay("lamp", c)' <=> OnItsWay("lamp", c)
    <3>1. at[p] \in {"insert", "inserted"} => f # "lamp"
      BY <1>3 DEF Typed, CallsInv, Entries, Events
    <3>2. QED
      BY <1>4, <3>1
  <2>2. QED
    BY <1>1, <1>2, <2>1 DEF SeenInv
<1>7. QED
  BY <1>5, <1>6 DEF SeenInv

\* Every step keeps the browsers on the way to the store, while there was no race.
LEMMA SeenStep ==
    ASSUME Typed, PhaseInv, OneInv, OneInv', SeenInv, [Next]_vars, ~raced'
    PROVE  SeenInv'
<1>0. /\ Owner \in Procs /\ TypeOK /\ CallsInv /\ Sockets \subseteq Procs
      /\ {"lamp", "answer", "tokens"} \subseteq Events \ Entries /\ Entries \subseteq Events
      /\ "answer" # "lamp" /\ "tokens" # "lamp"
  BY DEF Typed, Procs, Events
<1>1. ASSUME NEW p \in Procs, Insert(p)
      PROVE  SeenInv'
  <2>1. event[p] \in Entries
    BY <1>0, <1>1 DEF Insert, CallsInv
  <2>2. /\ at[p] = "insert" /\ at'[p] = "inserted" /\ event'[p] = event[p] /\ todo' = todo
        /\ \A q \in Procs \ {p} : at'[q] = at[q] /\ event'[q] = event[q]
    BY <1>0, <1>1, <2>1, GotoEffect DEF Insert, Labels
  <2>3. \A c \in Open, e \in Entries \union {"lamp"} : Carries(p, e, c)' <=> Carries(p, e, c)
    BY <2>2 DEF Carries
  <2>4. QED
    BY <1>1, <2>2, <2>3, SeenKept DEF Insert, memVars, connVars, viewVars, faultVars
<1>2. ASSUME NEW p \in Procs, Inserted(p)
      PROVE  SeenInv'
  <2>1. event[p] \in Events
    BY <1>0, <1>2 DEF Inserted, CallsInv
  <2>2. /\ at[p] = "inserted" /\ at'[p] = "push" /\ event'[p] = event[p] /\ todo'[p] = Open
        /\ \A q \in Procs \ {p} : at'[q] = at[q] /\ event'[q] = event[q] /\ todo'[q] = todo[q]
    BY <1>0, <1>2, <2>1, BroadcastEffect DEF Inserted
  <2>3. \A c \in Open, e \in Entries \union {"lamp"} : Carries(p, e, c)' <=> Carries(p, e, c)
    BY <2>2 DEF Carries
  <2>4. QED
    BY <1>2, <2>2, <2>3, SeenKept DEF Inserted, connVars, viewVars, dbVars, faultVars
<1>3. ASSUME NEW p \in Procs, Send(p)
      PROVE  SeenInv'
  BY <1>3, SeenSend
<1>4. ASSUME NEW p \in Procs, Sent(p)
      PROVE  SeenInv'
  <2>1. CASE Record(p, Bubble)
    BY <1>4, <2>1, SeenRecord DEF Sent, Entries, connVars, viewVars, dbVars, faultVars
  <2>2. CASE Goto(p, "idle", None) /\ UNCHANGED mem
    <3>1. /\ at[p] = "push" /\ todo[p] = {} /\ at'[p] = "idle" /\ todo' = todo
          /\ \A q \in Procs \ {p} : at'[q] = at[q] /\ event'[q] = event[q]
      BY <1>0, <1>4, <2>2, GotoEffect DEF Sent, Labels
    <3>2. \A c \in Open, e \in Entries \union {"lamp"} : Carries(p, e, c)' <=> Carries(p, e, c)
      BY <3>1 DEF Carries
    <3>3. QED
      BY <1>4, <2>2, <3>1, <3>2, SeenKept DEF Sent, connVars, viewVars, dbVars, faultVars
  <2>3. QED
    BY <1>4, <2>1, <2>2 DEF Sent
<1>5. ASSUME NEW e \in Texts \union {Ask}, Say(e)
      PROVE  SeenInv'
  BY <1>0, <1>5, SeenRecord DEF Say, Idle, Entries, connVars, viewVars, dbVars, faultVars
<1>6. CASE SetLamp
  <2>1. /\ at[Owner] = "idle" /\ at'[Owner] = "push" /\ event'[Owner] = "lamp" /\ todo'[Owner] = Open
        /\ \A q \in Procs \ {Owner} : at'[q] = at[q] /\ event'[q] = event[q] /\ todo'[q] = todo[q]
    BY <1>0, <1>6, BroadcastEffect DEF SetLamp, Idle
  <2>2. Open' = Open /\ UNCHANGED <<mem, feed, doubled, unsaved>>
    BY <1>6 DEF SetLamp, Open, connVars, viewVars, dbVars, faultVars
  <2>3. ASSUME NEW c \in Open, NEW e \in Entries
        PROVE  OnItsWay(e, c)' <=> OnItsWay(e, c)
    BY <1>0, <2>1, WaySame DEF Carries
  <2>4. \A c \in Open : OnItsWay("lamp", c)'
    BY <1>0, <2>1 DEF OnItsWay, Carries
  <2>5. ASSUME NEW c \in Open, NEW e \in Entries
        PROVE  Seen(e, c)'
    BY <2>2, <2>3, SeenSame DEF SeenInv
  <2>6. QED
    BY <2>2, <2>4, <2>5 DEF SeenInv
<1>7. ASSUME NEW p \in Procs, at[p] \in {"idle", "lock", "bill", "billed"},
             at'[p] \in {"lock", "bill", "billed"} \/ (at'[p] = "push" /\ event'[p] \in {"answer", "tokens"}),
             \A q \in Procs \ {p} : at'[q] = at[q] /\ event'[q] = event[q] /\ todo'[q] = todo[q],
             UNCHANGED <<conn, feed, shownLamp, doubled, mem, lamp, unsaved>>
      PROVE  SeenInv'
  <2>1. \A c \in Open, e \in Entries \union {"lamp"} : ~Carries(p, e, c)' /\ ~Carries(p, e, c)
    BY <1>0, <1>7 DEF Carries
  <2>2. QED
    BY <1>7, <2>1, SeenKept
<1>8. CASE Bill \/ InsertUsage
  <2>1. /\ at[Owner] \in {"idle", "bill"} /\ at'[Owner] \in {"bill", "billed"} /\ todo' = todo
        /\ \A q \in Procs \ {Owner} : at'[q] = at[q] /\ event'[q] = event[q]
        /\ UNCHANGED <<conn, feed, shownLamp, doubled, mem, lamp, unsaved>>
    BY <1>0, <1>8, GotoEffect
    DEF Bill, InsertUsage, Idle, Labels, memVars, connVars, viewVars, dbVars, faultVars
  <2>2. QED
    BY <1>0, <1>7, <2>1
<1>9. CASE AddTokens
  <2>1. /\ at[Owner] = "billed" /\ at'[Owner] = "push" /\ event'[Owner] = "tokens"
        /\ \A q \in Procs \ {Owner} : at'[q] = at[q] /\ event'[q] = event[q] /\ todo'[q] = todo[q]
        /\ UNCHANGED <<conn, feed, shownLamp, doubled, mem, lamp, unsaved>>
    BY <1>0, <1>9, BroadcastEffect DEF AddTokens, connVars, viewVars, dbVars, faultVars
  <2>2. QED
    BY <1>0, <1>7, <2>1
<1>10. ASSUME NEW c \in Sockets, Answer(c)
       PROVE  SeenInv'
  <2>1. Goto(c, "lock", "answer") \/ Broadcast(c, "answer")
    BY <1>10 DEF Answer
  <2>2. /\ at[c] = "idle" /\ at'[c] \in {"lock", "push"} /\ event'[c] = "answer"
        /\ \A q \in Procs \ {c} : at'[q] = at[q] /\ event'[q] = event[q] /\ todo'[q] = todo[q]
        /\ UNCHANGED <<conn, feed, shownLamp, doubled, mem, lamp, unsaved>>
    BY <1>0, <1>10, <2>1, GotoEffect, BroadcastEffect
    DEF Answer, Idle, Labels, connVars, viewVars, dbVars, faultVars
  <2>3. QED
    BY <1>0, <1>7, <2>2
<1>11. ASSUME NEW c \in Sockets, LockRow(c)
       PROVE  SeenInv'
  <2>1. /\ at[c] = "lock" /\ at'[c] = "push" /\ event'[c] = "answer"
        /\ \A q \in Procs \ {c} : at'[q] = at[q] /\ event'[q] = event[q] /\ todo'[q] = todo[q]
        /\ UNCHANGED <<conn, feed, shownLamp, doubled, mem, lamp, unsaved>>
    BY <1>0, <1>11, BroadcastEffect DEF LockRow, memVars, connVars, viewVars, faultVars
  <2>2. QED
    BY <1>0, <1>7, <2>1
<1>12. ASSUME NEW c \in Sockets, Connect(c)
       PROVE  SeenInv'
  <2>1. CASE hydrated
    BY <1>12, <2>1, ConnectAlone, SeenJoin DEF memVars, dbVars, faultVars
  <2>2. CASE ~hydrated
    <3>1. \A d \in Sockets : conn'[d] # "open"
      BY <1>0, <1>12, <2>2, ConnectAlone DEF PhaseInv, TypeOK
    <3>2. QED
      BY <3>1 DEF SeenInv, Open
  <2>3. QED
    BY <2>1, <2>2
<1>13. ASSUME NEW c \in Sockets, ListRows(c) \/ Load(c) \/ SumUsage(c) \/ HydrationFails(c)
       PROVE  SeenInv'
  <2>1. Coming(c) /\ conn'[c] # "open" /\ \A d \in Sockets \ {c} : conn'[d] = conn[d]
    BY <1>0, <1>13 DEF ListRows, Load, SumUsage, HydrationFails, Coming, TypeOK
  <2>2. \A d \in Sockets : conn'[d] # "open"
    BY <2>1 DEF PhaseInv
  <2>3. QED
    BY <2>2 DEF SeenInv, Open
<1>14. ASSUME NEW c \in Sockets, SeedAndJoin(c)
       PROVE  SeenInv'
  BY <1>14, SeenJoin DEF SeedAndJoin, dbVars, faultVars
<1>15. ASSUME NEW c \in Sockets, Disconnect(c)
       PROVE  SeenInv'
  <2>1. ViewType
    BY TypeParts DEF Typed
  <2>2. /\ Open' \subseteq Open \ {c}
        /\ \A d \in Open \ {c} : /\ feed'[d] = feed[d] /\ shownLamp'[d] = shownLamp[d]
                                 /\ doubled'[d] = doubled[d]
        /\ UNCHANGED <<mem, lamp, unsaved, at, event, todo>>
    BY <1>0, <1>15, <2>1
    DEF Disconnect, Gone, Open, TypeOK, ViewType, memVars, procVars, dbVars, faultVars
  <2>3. \A d, e : OnItsWay(e, d)' <=> OnItsWay(e, d)
    BY <2>2 DEF OnItsWay, Carries
  <2>4. ASSUME NEW d \in Open', NEW e \in Entries
        PROVE  Seen(e, d)'
    BY <2>2, <2>3, <2>4, SeenSame DEF SeenInv
  <2>5. QED
    BY <2>2, <2>3, <2>4 DEF SeenInv
<1>16. CASE Restart
  BY <1>16 DEF Restart, SeenInv, Open
<1>17. CASE UNCHANGED vars
  <2>1. /\ Open' = Open /\ \A d, e : OnItsWay(e, d)' <=> OnItsWay(e, d)
        /\ UNCHANGED <<feed, doubled, mem, unsaved, shownLamp, lamp>>
    BY <1>17
    DEF vars, Open, OnItsWay, Carries, connVars, viewVars, memVars, procVars, dbVars, faultVars
  <2>2. ASSUME NEW d \in Open', NEW e \in Entries
        PROVE  Seen(e, d)'
    BY <2>1, <2>2, SeenSame DEF SeenInv
  <2>3. QED
    BY <2>1, <2>2 DEF SeenInv
<1>18. ASSUME NEW p \in Procs, CallFails(p)
       PROVE  SeenInv'
  BY <1>18, SeenFails
<1>19. QED
  BY <1>1, <1>2, <1>3, <1>4, <1>5, <1>6, <1>8, <1>9, <1>10, <1>11, <1>12, <1>13, <1>14,
     <1>15, <1>16, <1>17, <1>18
  DEF Next

-----------------------------------------------------------------------------
(* One bubble for a picker.                                                *)

\* Coroutine p is writing the row of the bubble.
Puts(p) == at[p] = "insert" /\ event[p] = Bubble

Once(s) == \A i, j \in DOMAIN s : s[i] = Bubble /\ s[j] = Bubble => i = j

BubbleInv ==
    crashes = 0 =>
      /\ \A p \in Procs : Owes(p) \/ Puts(p) => answered
      /\ Bubble \in Elems(mem) \union Elems(db) => answered
      /\ \A p, q \in Procs : (Owes(p) \/ Puts(p)) /\ (Owes(q) \/ Puts(q)) => p = q
      /\ \A p \in Procs : Owes(p) => Bubble \notin Elems(mem)
      /\ \A p \in Procs : Owes(p) \/ Puts(p) => Bubble \notin Elems(db)
      /\ Once(mem) /\ Once(db)
      /\ ~woken => mem = <<>> /\ db = <<>>

\* Appending an entry to a transcript.
LEMMA OnceAppend ==
    ASSUME NEW s \in Seq(Entries), NEW e \in Entries, Once(s), e # Bubble \/ Bubble \notin Elems(s)
    PROVE  Once(Append(s, e)) /\ (Bubble \in Elems(Append(s, e)) <=> Bubble \in Elems(s) \/ e = Bubble)
<1>1. Once(Append(s, e))
  BY DEF Once, Elems
<1>2. QED
  BY <1>1, ElemsAppend

\* A coroutine goes on, and neither the transcript nor the answer changes.
LEMMA BubbleKept ==
    ASSUME BubbleInv, UNCHANGED <<mem, db, answered, woken, crashes>>, NEW p \in Procs,
           \A q \in Procs \ {p} : at'[q] = at[q] /\ event'[q] = event[q],
           Owes(p)' => Owes(p), ~Puts(p)'
    PROVE  BubbleInv'
<1>1. \A q \in Procs : /\ Owes(q)' => Owes(q)
                       /\ Puts(q)' => Puts(q)
  BY DEF Owes, Puts
<1>2. QED
  BY <1>1 DEF BubbleInv, Once, Elems

\* Every step keeps the account of bubbles, while there was no race.
LEMMA BubbleStep ==
    ASSUME Typed, PhaseInv, BubbleInv, [Next]_vars, ~raced'
    PROVE  BubbleInv'
<1> SUFFICES ASSUME crashes' = 0
             PROVE  BubbleInv'
  BY DEF BubbleInv
<1>0. /\ Owner \in Procs /\ TypeOK /\ CallsInv /\ Sockets \subseteq Procs
      /\ {"lamp", "answer", "tokens"} \subseteq Events \ Entries /\ Bubble \in Entries
      /\ "answer" # "lamp" /\ "answer" # "tokens" /\ None \notin Events /\ Entries \subseteq Events
      /\ mem \in Seq(Entries) /\ db \in Seq(Entries)
  BY StoreTypes DEF Typed, Procs, Events, Entries
<1>1. ASSUME NEW p \in Procs, Insert(p)
      PROVE  BubbleInv'
  <2>1. event[p] \in Entries /\ at[p] = "insert"
    BY <1>0, <1>1 DEF Insert, CallsInv
  <2>2. /\ at'[p] = "inserted" /\ event'[p] = event[p]
        /\ \A q \in Procs \ {p} : at'[q] = at[q] /\ event'[q] = event[q]
        /\ UNCHANGED <<mem, answered, woken, crashes>>
    BY <1>0, <1>1, <2>1, GotoEffect DEF Insert, Labels, memVars
  <2>3. woken /\ crashes = 0
    BY <1>1, <2>2, BusyAwake DEF Busy
  <2>4. db' = Append(db, event[p])
    BY <1>1 DEF Insert
  <2>5. event[p] # Bubble \/ Bubble \notin Elems(db)
    BY <2>1, <2>3 DEF BubbleInv, Puts
  <2>6. Once(db)' /\ (Bubble \in Elems(db)' <=> Bubble \in Elems(db) \/ event[p] = Bubble)
    <3>1. Once(db)
      BY <2>3 DEF BubbleInv
    <3>2. Once(Append(db, event[p]))
          /\ (Bubble \in Elems(Append(db, event[p])) <=> Bubble \in Elems(db) \/ event[p] = Bubble)
      BY <1>0, <2>1, <2>5, <3>1, OnceAppend
    <3>3. QED
      BY <2>4, <3>2 DEF Once, Elems
  <2>7. \A q \in Procs : (Owes(q)' <=> Owes(q) /\ q # p) /\ (Puts(q)' <=> Puts(q) /\ q # p)
    BY <2>1, <2>2 DEF Owes, Puts
  <2>8. event[p] = Bubble => Puts(p)
    BY <2>1 DEF Puts
  <2>9. Once(mem)' /\ Elems(mem)' = Elems(mem)
    BY <2>2, <2>3 DEF BubbleInv, Once, Elems
  <2>10. QED
    BY <2>2, <2>3, <2>6, <2>7, <2>8, <2>9 DEF BubbleInv
<1>2. ASSUME NEW p \in Procs, Inserted(p)
      PROVE  BubbleInv'
  <2>1. event[p] \in Entries
    BY <1>0, <1>2 DEF Inserted, CallsInv
  <2>2. /\ at'[p] = "push" /\ event'[p] = event[p]
        /\ \A q \in Procs \ {p} : at'[q] = at[q] /\ event'[q] = event[q]
        /\ UNCHANGED <<mem, db, answered, woken, crashes>>
    BY <1>0, <1>2, <2>1, BroadcastEffect DEF Inserted, dbVars
  <2>3. ~Owes(p)' /\ ~Puts(p)'
    BY <1>0, <2>1, <2>2 DEF Owes, Puts
  <2>4. QED
    BY <2>2, <2>3, BubbleKept
<1>3. ASSUME UNCHANGED <<mem, db, answered, woken, crashes, at, event>>
      PROVE  BubbleInv'
  BY <1>3 DEF BubbleInv, Owes, Puts, Once, Elems
<1>4. ASSUME NEW p \in Procs, Send(p)
      PROVE  BubbleInv'
  BY <1>3, <1>4 DEF Send, dbVars, memVars
<1>5. ASSUME NEW p \in Procs, Sent(p)
      PROVE  BubbleInv'
  <2>1. CASE event[p] = "answer"
    <3>1. /\ Owes(p) /\ mem' = Append(mem, Bubble) /\ Goto(p, "insert", Bubble)
          /\ UNCHANGED <<db, answered, woken, crashes>>
      BY <1>5, <2>1 DEF Sent, Record, Owes, dbVars
    <3>2. /\ at'[p] = "insert" /\ event'[p] = Bubble
          /\ \A q \in Procs \ {p} : at'[q] = at[q] /\ event'[q] = event[q]
      BY <1>0, <3>1, GotoEffect DEF Labels
    <3>3. woken /\ crashes = 0
      BY <1>5, <3>1, BusyAwake DEF Busy
    <3>4. Bubble \notin Elems(mem) /\ Bubble \notin Elems(db) /\ answered
      BY <3>1, <3>3 DEF BubbleInv
    <3>5. Once(mem)'
      <4>1. Once(mem)
        BY <3>3 DEF BubbleInv
      <4>2. Once(Append(mem, Bubble))
        BY <1>0, <3>4, <4>1, OnceAppend
      <4>3. QED
        BY <3>1, <4>2 DEF Once
    <3>6. \A q \in Procs : Owes(q)' \/ Puts(q)' => q = p
      BY <3>1, <3>2, <3>3 DEF BubbleInv, Owes, Puts
    <3>7. ~Owes(p)'
      BY <3>2 DEF Owes
    <3>8. Once(db)' /\ Elems(db)' = Elems(db)
      BY <3>1, <3>3 DEF BubbleInv, Once, Elems
    <3>9. QED
      BY <3>1, <3>3, <3>4, <3>5, <3>6, <3>7, <3>8 DEF BubbleInv
  <2>2. CASE event[p] # "answer"
    <3>1. /\ at'[p] = "idle" /\ event'[p] = None
          /\ \A q \in Procs \ {p} : at'[q] = at[q] /\ event'[q] = event[q]
          /\ UNCHANGED <<mem, db, answered, woken, crashes>>
      BY <1>0, <1>5, <2>2, GotoEffect DEF Sent, Labels, dbVars
    <3>2. ~Owes(p)' /\ ~Puts(p)'
      BY <3>1 DEF Owes, Puts
    <3>3. QED
      BY <3>1, <3>2, BubbleKept
  <2>3. QED
    BY <2>1, <2>2
<1>6. ASSUME NEW e \in Texts \union {Ask}, Say(e)
      PROVE  BubbleInv'
  <2>1. e \in Entries /\ e # Bubble
    BY DEF Entries
  <2>2. /\ mem' = Append(mem, e) /\ at[Owner] = "idle"
        /\ at'[Owner] = "insert" /\ event'[Owner] = e
        /\ \A q \in Procs \ {Owner} : at'[q] = at[q] /\ event'[q] = event[q]
        /\ UNCHANGED <<db, answered, woken, crashes>>
    BY <1>0, <1>6, <2>1, GotoEffect DEF Say, Record, Idle, Labels, dbVars
  <2>3. woken /\ crashes = 0
    BY <1>6, <2>2 DEF Say
  <2>4. Once(mem)' /\ (Bubble \in Elems(mem)' <=> Bubble \in Elems(mem))
    <3>1. Once(mem)
      BY <2>3 DEF BubbleInv
    <3>2. Once(Append(mem, e)) /\ (Bubble \in Elems(Append(mem, e)) <=> Bubble \in Elems(mem))
      BY <1>0, <2>1, <3>1, OnceAppend
    <3>3. QED
      BY <2>2, <3>2 DEF Once, Elems
  <2>5. \A q \in Procs : (Owes(q)' <=> Owes(q)) /\ (Puts(q)' <=> Puts(q))
    BY <2>1, <2>2 DEF Owes, Puts
  <2>6. Once(db)' /\ Elems(db)' = Elems(db)
    BY <2>2, <2>3 DEF BubbleInv, Once, Elems
  <2>7. QED
    BY <2>2, <2>3, <2>4, <2>5, <2>6 DEF BubbleInv
<1>7. CASE SetLamp \/ Bill \/ InsertUsage \/ AddTokens
  <2>1. /\ at'[Owner] \in {"push", "bill", "billed"} /\ event'[Owner] \in {"lamp", "tokens"}
        /\ \A q \in Procs \ {Owner} : at'[q] = at[q] /\ event'[q] = event[q]
        /\ UNCHANGED <<mem, db, answered, woken, crashes>>
    BY <1>0, <1>7, GotoEffect, BroadcastEffect
    DEF SetLamp, Bill, InsertUsage, AddTokens, Labels, dbVars, memVars
  <2>2. ~Owes(Owner)' /\ ~Puts(Owner)'
    BY <1>0, <2>1 DEF Owes, Puts
  <2>3. QED
    BY <1>0, <2>1, <2>2, BubbleKept
<1>8. ASSUME NEW c \in Sockets, Answer(c)
      PROVE  BubbleInv'
  <2>1. Goto(c, "lock", "answer") \/ Broadcast(c, "answer")
    BY <1>8 DEF Answer
  <2>2. /\ at'[c] \in {"lock", "push"}
        /\ \A q \in Procs \ {c} : at'[q] = at[q] /\ event'[q] = event[q]
    BY <1>0, <2>1, GotoEffect, BroadcastEffect DEF Labels
  <2>3. ~answered /\ answered' /\ UNCHANGED <<mem, db, woken, crashes>>
    BY <1>8 DEF Answer, NewlyAnswered, dbVars
  <2>4. woken /\ crashes = 0
    BY <1>8, <2>3, BusyAwake DEF Busy
  <2>5. Bubble \notin Elems(mem) \union Elems(db) /\ \A q \in Procs : ~Owes(q) /\ ~Puts(q)
    BY <2>3, <2>4 DEF BubbleInv
  <2>6. ~Puts(c)' /\ \A q \in Procs \ {c} : ~Owes(q)' /\ ~Puts(q)'
    BY <2>2, <2>5 DEF Owes, Puts
  <2>7. Once(mem)' /\ Once(db)' /\ Elems(mem)' = Elems(mem) /\ Elems(db)' = Elems(db)
    BY <2>3, <2>4 DEF BubbleInv, Once, Elems
  <2>8. QED
    BY <1>0, <2>3, <2>4, <2>5, <2>6, <2>7 DEF BubbleInv
<1>9. ASSUME NEW c \in Sockets, LockRow(c)
      PROVE  BubbleInv'
  <2>1. /\ at[c] = "lock" /\ event[c] = "answer"
        /\ at'[c] = "push" /\ event'[c] = "answer"
        /\ \A q \in Procs \ {c} : at'[q] = at[q] /\ event'[q] = event[q]
        /\ UNCHANGED <<mem, db, answered, woken, crashes>>
    BY <1>0, <1>9, BroadcastEffect DEF LockRow, CallsInv, memVars
  <2>2. Owes(c) /\ ~Puts(c)'
    BY <2>1 DEF Owes, Puts
  <2>3. QED
    BY <1>0, <2>1, <2>2, BubbleKept
<1>10. ASSUME UNCHANGED <<mem, db, answered, crashes, at, event>>, woken'
       PROVE  BubbleInv'
  BY <1>10 DEF BubbleInv, Owes, Puts, Once, Elems
<1>11. ASSUME NEW c \in Sockets, Connect(c)
       PROVE  BubbleInv'
  <2>1. CASE hydrated
    BY <1>0, <1>10, <1>11, <2>1, ConnectAlone, JoinEffect DEF dbVars, memVars
  <2>2. CASE ~hydrated
    BY <1>3, <1>11, <2>2, ConnectAlone DEF dbVars, memVars, procVars
  <2>3. QED
    BY <2>1, <2>2
<1>12. ASSUME NEW c \in Sockets, ListRows(c) \/ SumUsage(c) \/ Disconnect(c)
       PROVE  BubbleInv'
  BY <1>3, <1>12 DEF ListRows, SumUsage, Disconnect, dbVars, memVars, procVars
<1>13. ASSUME NEW c \in Sockets, Load(c)
       PROVE  BubbleInv'
  <2>1. ~woken /\ Quiet /\ rows[c] = [seq |-> db, locked |-> dbAnswered]
    BY <1>13 DEF Load, PhaseInv, Coming
  <2>2. mem' = db /\ UNCHANGED <<db, woken, crashes, at, event>>
    BY <1>13, <2>1 DEF Load, dbVars, procVars
  <2>3. \A p \in Procs : ~Owes(p)' /\ ~Puts(p)'
    BY <2>1, <2>2 DEF Quiet, Idle, Owes, Puts
  <2>4. mem' = <<>> /\ db' = <<>>
    BY <2>1, <2>2 DEF BubbleInv
  <2>5. QED
    BY <2>3, <2>4 DEF BubbleInv, Once, Elems
<1>14. ASSUME NEW c \in Sockets, SeedAndJoin(c)
       PROVE  BubbleInv'
  BY <1>0, <1>10, <1>14, JoinEffect DEF SeedAndJoin, dbVars
<1>15. CASE Restart
  <2>1. crashes \in Nat /\ crashes' = crashes + 1
    BY <1>0, <1>15 DEF Restart, TypeOK
  <2>2. QED
    BY <2>1
<1>16. CASE UNCHANGED vars
  BY <1>3, <1>16 DEF vars, dbVars, memVars, procVars
<1>17. ASSUME NEW p \in Procs, CallFails(p)
       PROVE  BubbleInv'
  <2>1. /\ at'[p] = "idle" /\ \A q \in Procs \ {p} : at'[q] = at[q] /\ event'[q] = event[q]
        /\ UNCHANGED <<mem, db, answered, woken, crashes>>
    BY <1>0, <1>17, GotoEffect DEF CallFails, Labels, memVars
  <2>2. ~Owes(p)' /\ ~Puts(p)'
    BY <2>1 DEF Owes, Puts
  <2>3. QED
    BY <2>1, <2>2, BubbleKept
<1>18. ASSUME NEW c \in Sockets, HydrationFails(c)
       PROVE  BubbleInv'
  BY <1>3, <1>18 DEF HydrationFails, memVars, procVars
<1>19. QED
  BY <1>1, <1>2, <1>4, <1>5, <1>6, <1>7, <1>8, <1>9, <1>11, <1>12, <1>13, <1>14, <1>15, <1>16,
     <1>17, <1>18
  DEF Next

-----------------------------------------------------------------------------
(* What holds of every behaviour.                                          *)

ViewInv == Typed /\ (~raced => PhaseInv /\ MemInv /\ OneInv /\ SeenInv /\ BubbleInv)

\* At the start everything is empty.
LEMMA ViewInit == Init => ViewInv
<1> SUFFICES ASSUME Init
             PROVE  ViewInv
  OBVIOUS
<1>1. PhaseInv
  <2>1. \A c \in Sockets : conn[c] \in {"off", "open"} /\ ~Coming(c)
    BY DEF Init, Coming
  <2>2. \A c \in Sockets : conn[c] = "open" => woken
    BY DEF Init
  <2>3. \A p \in Procs : at[p] = "idle"
    BY DEF Init
  <2>4. hydrated = woken /\ unsaved = {}
    BY DEF Init
  <2>5. QED
    BY <2>1, <2>2, <2>3, <2>4 DEF PhaseInv, Quiet, Idle
<1>2. Elems(mem) = {} /\ Elems(db) = {} /\ mem = <<>> /\ db = <<>> /\ Once(mem) /\ Once(db)
  BY DEF Init, Elems, Once
<1>3. \A p \in Procs : at[p] = "idle"
  BY DEF Init
<1>31. unsaved = {}
  BY DEF Init
<1>32. OneInv
  BY <1>3, <1>31 DEF OneInv, Owes, Records
<1>4. MemInv
  <2>1. billed = 0 /\ tokens = 0 /\ Owner \in Procs
    BY DEF Init, Procs
  <2>2. QED
    BY <1>2, <1>3, <1>31, <2>1 DEF MemInv, Inserting
<1>5. SeenInv
  <2>1. /\ \A c \in Sockets : feed[c] = mem /\ shownLamp[c] = FALSE /\ doubled[c] = {}
        /\ lamp = FALSE
    BY DEF Init
  <2>2. ASSUME NEW c \in Sockets, NEW e \in Entries
        PROVE  Seen(e, c)
    <3>1. ~OnItsWay(e, c)
      BY <1>3 DEF OnItsWay, Carries
    <3>2. Waits(e, c) = 0 /\ Extra(e, c) = 0
      BY <2>1, <3>1 DEF Waits, Extra
    <3>3. Count(e, mem) \in Nat
      BY TypedInit, CountTypes
    <3>4. QED
      BY <2>1, <3>2, <3>3 DEF Seen
  <2>3. QED
    BY <2>1, <2>2 DEF SeenInv, Open
<1>6. BubbleInv
  BY <1>2, <1>3 DEF BubbleInv, Owes, Puts
<1>7. QED
  BY <1>1, <1>32, <1>4, <1>5, <1>6, TypedInit DEF ViewInv

\* The invariant always holds.
LEMMA ViewInvHolds == Spec => []ViewInv
<1>1. ViewInv /\ [Next]_vars => ViewInv'
  <2> SUFFICES ASSUME ViewInv, [Next]_vars
               PROVE  ViewInv'
    OBVIOUS
  <2>1. Typed /\ Typed'
    BY TypedStep DEF ViewInv
  <2>2. ASSUME ~raced'
        PROVE  PhaseInv' /\ MemInv' /\ OneInv' /\ SeenInv' /\ BubbleInv'
    <3>1. PhaseInv /\ MemInv /\ OneInv /\ SeenInv /\ BubbleInv
      BY <2>2, RaceRemembered DEF ViewInv
    <3>2. OneInv'
      BY <2>1, <2>2, <3>1, OneStep
    <3>3. QED
      BY <2>1, <2>2, <3>1, <3>2, PhaseStep, MemStep, SeenStep, BubbleStep
  <2>3. QED
    BY <2>1, <2>2 DEF ViewInv
<1>2. QED
  BY <1>1, ViewInit, PTL DEF Spec

\* A row that was written is in the transcript a browser can see, and what is
\* in the transcript has its row unless its insert raised, whatever was being
\* recorded, answered or billed when a browser came, a database call failed or
\* the daemon died (record_activity, hydrate_surface).
THEOREM RecordedEntriesStay == Spec => []RecordedStays
<1>1. ViewInv => RecordedStays
  <2> SUFFICES ASSUME ViewInv, ~raced, Quiet, Open # {}
               PROVE  Elems(db) \subseteq Elems(mem) /\ Elems(mem) \ unsaved \subseteq Elems(db)
    BY DEF RecordedStays
  <2>1. hydrated
    BY DEF ViewInv, PhaseInv, Open
  <2>2. \A e : ~Inserting(e)
    BY DEF Inserting, Quiet, Idle
  <2>3. Elems(db) \subseteq Entries /\ Elems(mem) \subseteq Entries
    BY StoreTypes DEF ViewInv, Elems
  <2>4. QED
    BY <2>1, <2>2, <2>3 DEF ViewInv, MemInv
<1>2. QED
  BY <1>1, ViewInvHolds, PTL

\* A browser that connects at any moment misses nothing and is shown nothing
\* that is not there, for any number of sockets: snapshot and registration are
\* one step, and what is recorded later is broadcast to it (ws_surface).  The
\* only entries it shows once too often are those being written when it came,
\* the only ones it may miss those whose insert raised (record_activity).
THEOREM ViewsConverge == Spec => []ViewConverges
<1>1. ViewInv => ViewConverges
  <2> SUFFICES ASSUME ViewInv, ~raced, Quiet, NEW c \in Open
               PROVE  /\ shownLamp[c] = lamp
                      /\ \A e \in Entries \ unsaved :
                           Count(e, feed[c]) = Count(e, mem) + (IF e \in doubled[c] THEN 1 ELSE 0)
                      /\ \A e \in unsaved : Count(e, feed[c]) <= Count(e, mem)
    BY DEF ViewConverges
  <2>1. \A e : ~OnItsWay(e, c)
    BY DEF OnItsWay, Carries, Quiet, Idle
  <2>2. SeenInv /\ c \in Sockets /\ Typed
    BY DEF ViewInv, Open
  <2>3. shownLamp[c] = lamp
    BY <2>1, <2>2 DEF SeenInv
  <2>4. ASSUME NEW e \in Entries \ unsaved
        PROVE  Count(e, feed[c]) = Count(e, mem) + (IF e \in doubled[c] THEN 1 ELSE 0)
    <3>1. Waits(e, c) = 0
      BY <2>1 DEF Waits
    <3>2. Count(e, feed[c]) + Waits(e, c) = Count(e, mem) + Extra(e, c)
      BY <2>2 DEF SeenInv, Seen
    <3>3. Count(e, feed[c]) \in Nat /\ Count(e, mem) \in Nat
      BY <2>2, CountTypes
    <3>4. QED
      BY <3>1, <3>2, <3>3 DEF Extra
  <2>5. unsaved \subseteq Entries
    BY <2>2 DEF Typed, TypeOK
  <2>6. \A e \in unsaved : Count(e, feed[c]) <= Count(e, mem)
    BY <2>2, <2>5 DEF SeenInv, Seen
  <2>7. QED
    BY <2>3, <2>4, <2>6
<1>2. QED
  BY <1>1, ViewInvHolds, PTL

\* The running total is the persisted sum, also after a restart in the middle
\* of a bill (broadcast_tokens, seed_tokens), unless the hydration failed on it.
THEOREM TokensAreTrue == Spec => []TokensTrue
<1>1. ViewInv => TokensTrue
  <2> SUFFICES ASSUME ViewInv, ~raced, ~unseeded, Quiet, Open # {}
               PROVE  tokens = billed
    BY DEF TokensTrue
  <2>1. woken /\ at[Owner] = "idle"
    BY DEF ViewInv, PhaseInv, Open, Quiet, Idle, Procs
  <2>2. QED
    BY <2>1, StoreTypes DEF ViewInv, MemInv
<1>2. QED
  BY <1>1, ViewInvHolds, PTL

\* An entry that is nowhere twice is counted at most once.
LEMMA OnceCounts ==
    ASSUME NEW s \in Seq(Entries), Once(s)
    PROVE  Count(Bubble, s) <= 1
<1> DEFINE I == {i \in DOMAIN s : s[i] = Bubble}
<1>1. CASE I = {}
  BY <1>1, FS_EmptySet DEF Count
<1>2. CASE I # {}
  <2>1. PICK i \in I : TRUE
    BY <1>2
  <2>2. I = {i}
    BY <2>1 DEF Once
  <2>3. Cardinality({i}) = 1
    BY FS_Singleton
  <2>4. Count(Bubble, s) = Cardinality(I)
    BY DEF Count
  <2>5. Cardinality(I) = 1
    BY <2>2, <2>3
  <2>6. QED
    BY <2>4, <2>5
<1>3. QED
  BY <1>1, <1>2

\* However often a picker is answered, and by whomever, its bubble is appended
\* once, until the daemon restarts (set_answer, broadcast_answer).
THEOREM BubbleAppendedOnce == Spec => []BubbleOnce
<1>1. ViewInv => BubbleOnce
  <2> SUFFICES ASSUME ViewInv, ~raced, crashes = 0
               PROVE  Count(Bubble, mem) <= 1 /\ Count(Bubble, db) <= 1
    BY DEF BubbleOnce
  <2>1. Once(mem) /\ Once(db)
    BY DEF ViewInv, BubbleInv
  <2>2. QED
    BY <2>1, StoreTypes, OnceCounts DEF ViewInv
<1>2. QED
  BY <1>1, ViewInvHolds, PTL

-----------------------------------------------------------------------------
(* What holds even when hydrations race.                                   *)

WrittenInv ==
    /\ \A e \in Elems(mem) : e \in Elems(db) \/ e \in unsaved \/ Inserting(e)
    /\ \A c \in Sockets : conn[c] = "listed" => Elems(rows[c].seq) \subseteq Elems(db)

\* A coroutine goes on without touching the transcript, the rows or an insert.
LEMMA WrittenKept ==
    ASSUME WrittenInv, UNCHANGED <<mem, db, unsaved, conn, rows>>,
           \A e : Inserting(e) => Inserting(e)'
    PROVE  WrittenInv'
BY DEF WrittenInv, Elems

\* Every step keeps it.
LEMMA WrittenStep ==
    ASSUME Typed, WrittenInv, [Next]_vars
    PROVE  WrittenInv'
<1>0. /\ Owner \in Procs /\ TypeOK /\ CallsInv /\ Sockets \subseteq Procs /\ ConnType
      /\ {"lamp", "answer", "tokens"} \subseteq Events /\ Entries \subseteq Events
      /\ mem \in Seq(Entries) /\ db \in Seq(Entries) /\ Bubble \in Entries
      /\ Texts \union {Ask} \subseteq Entries
  BY StoreTypes, TypeParts DEF Typed, Procs, Events, Entries
<1>1. ASSUME NEW p \in Procs, Insert(p)
      PROVE  WrittenInv'
  <2>1. PICK f \in Entries : f = event[p] /\ at[p] = "insert"
    BY <1>0, <1>1 DEF Insert, CallsInv
  <2>2. /\ at'[p] = "inserted" /\ \A q \in Procs \ {p} : at'[q] = at[q] /\ event'[q] = event[q]
        /\ db' = Append(db, f) /\ UNCHANGED <<mem, unsaved, conn, rows>>
    BY <1>0, <1>1, <2>1, GotoEffect DEF Insert, Labels, memVars, connVars, faultVars
  <2>3. Elems(db)' = Elems(db) \union {f} /\ Elems(mem)' = Elems(mem)
    <3>1. Elems(Append(db, f)) = Elems(db) \union {f}
      BY <1>0, ElemsAppend
    <3>2. QED
      BY <2>2, <3>1 DEF Elems
  <2>4. \A e : Inserting(e) => Inserting(e)' \/ e = f
    BY <2>1, <2>2 DEF Inserting
  <2>5. \A c \in Sockets : conn'[c] = "listed" => Elems(rows[c].seq)' \subseteq Elems(db)'
    BY <2>2, <2>3 DEF WrittenInv, Elems
  <2>6. QED
    BY <2>2, <2>3, <2>4, <2>5 DEF WrittenInv
<1>2. ASSUME NEW p \in Procs, NEW e \in Entries, Record(p, e), at[p] # "insert",
             UNCHANGED <<db, unsaved, conn, rows>>
      PROVE  WrittenInv'
  <2>1. /\ at'[p] = "insert" /\ event'[p] = e
        /\ \A q \in Procs \ {p} : at'[q] = at[q] /\ event'[q] = event[q]
    BY <1>0, <1>2, GotoEffect DEF Record, Labels
  <2>2. Elems(mem)' = Elems(mem) \union {e} /\ Elems(db)' = Elems(db)
    <3>1. Elems(Append(mem, e)) = Elems(mem) \union {e} /\ mem' = Append(mem, e)
      BY <1>0, <1>2, ElemsAppend DEF Record
    <3>2. QED
      BY <1>2, <3>1 DEF Elems
  <2>3. Inserting(e)' /\ \A f : Inserting(f) => Inserting(f)'
    BY <1>2, <2>1 DEF Inserting
  <2>4. \A c \in Sockets : conn'[c] = "listed" => Elems(rows[c].seq)' \subseteq Elems(db)'
    BY <1>2, <2>2 DEF WrittenInv, Elems
  <2>5. QED
    BY <1>2, <2>2, <2>3, <2>4 DEF WrittenInv
<1>3. ASSUME NEW p \in Procs, at[p] # "insert", UNCHANGED <<mem, db, unsaved, conn, rows>>,
             \A q \in Procs \ {p} : at'[q] = at[q] /\ event'[q] = event[q]
      PROVE  WrittenInv'
  BY <1>3, WrittenKept DEF Inserting
<1>4. ASSUME NEW p \in Procs, Inserted(p) \/ Send(p)
      PROVE  WrittenInv'
  <2>1. CASE Inserted(p)
    <3>1. event[p] \in Events
      BY <1>0, <2>1 DEF Inserted, CallsInv
    <3>2. QED
      BY <1>0, <1>3, <2>1, <3>1, BroadcastEffect DEF Inserted, dbVars, faultVars, connVars
  <2>2. CASE Send(p)
    BY <1>3, <2>2 DEF Send, dbVars, faultVars, connVars, memVars
  <2>3. QED
    BY <1>4, <2>1, <2>2
<1>5. ASSUME NEW p \in Procs, Sent(p)
      PROVE  WrittenInv'
  <2>1. CASE Record(p, Bubble)
    BY <1>0, <1>2, <1>5, <2>1 DEF Sent, dbVars, faultVars, connVars
  <2>2. CASE Goto(p, "idle", None) /\ UNCHANGED mem
    BY <1>0, <1>3, <1>5, <2>2, GotoEffect DEF Sent, Labels, dbVars, faultVars, connVars
  <2>3. QED
    BY <1>5, <2>1, <2>2 DEF Sent
<1>6. ASSUME NEW e \in Texts \union {Ask}, Say(e)
      PROVE  WrittenInv'
  BY <1>0, <1>2, <1>6 DEF Say, Idle, dbVars, faultVars, connVars
<1>7. CASE SetLamp \/ Bill \/ InsertUsage \/ AddTokens
  <2>1. /\ at[Owner] # "insert" /\ \A q \in Procs \ {Owner} : at'[q] = at[q] /\ event'[q] = event[q]
        /\ UNCHANGED <<mem, db, unsaved, conn, rows>>
    BY <1>0, <1>7, GotoEffect, BroadcastEffect
    DEF SetLamp, Bill, InsertUsage, AddTokens, Idle, Labels, dbVars, faultVars, memVars, connVars
  <2>2. QED
    BY <1>0, <1>3, <2>1
<1>8. ASSUME NEW c \in Sockets, Answer(c) \/ LockRow(c)
      PROVE  WrittenInv'
  <2>1. at[c] # "insert" /\ (Goto(c, "lock", "answer") \/ Broadcast(c, "answer"))
        /\ UNCHANGED <<mem, db, unsaved, conn, rows>>
    BY <1>8 DEF Answer, LockRow, Idle, dbVars, faultVars, memVars, connVars
  <2>2. \A q \in Procs \ {c} : at'[q] = at[q] /\ event'[q] = event[q]
    BY <1>0, <2>1, GotoEffect, BroadcastEffect DEF Labels
  <2>3. QED
    BY <1>0, <1>3, <2>1, <2>2
<1>9. ASSUME NEW p \in Procs, CallFails(p)
      PROVE  WrittenInv'
  <2>1. /\ \A q \in Procs \ {p} : at'[q] = at[q] /\ event'[q] = event[q]
        /\ unsaved' = unsaved \union (IF at[p] \in {"insert", "inserted"} THEN {event[p]} ELSE {})
        /\ UNCHANGED <<mem, db, rows>> /\ \A c \in Sockets : conn'[c] = "listed" => conn[c] = "listed"
    BY <1>0, <1>9, GotoEffect DEF CallFails, Labels, memVars, ConnType
  <2>2. \A e : Inserting(e) => Inserting(e)' \/ e \in unsaved'
    BY <2>1 DEF Inserting
  <2>3. QED
    BY <2>1, <2>2 DEF WrittenInv, Elems
<1>10. ASSUME UNCHANGED <<mem, db, unsaved, at, event>>,
              \A c \in Sockets : conn'[c] = "listed" => conn[c] = "listed" /\ rows'[c] = rows[c]
       PROVE  WrittenInv'
  BY <1>10 DEF WrittenInv, Inserting, Elems
<1>11. ASSUME NEW c \in Sockets, Connect(c)
       PROVE  WrittenInv'
  <2>1. \A d \in Sockets : conn'[d] = "listed" => conn[d] = "listed" /\ rows'[d] = rows[d]
    BY <1>0, <1>11, JoinEffect DEF Connect, ConnType
  <2>2. UNCHANGED <<mem, db, unsaved, at, event>>
    BY <1>0, <1>11, JoinEffect DEF Connect, dbVars, faultVars, memVars, procVars
  <2>3. QED
    BY <1>10, <2>1, <2>2
<1>12. ASSUME NEW c \in Sockets, ListRows(c)
       PROVE  WrittenInv'
  <2>1. /\ rows'[c].seq = db /\ \A d \in Sockets \ {c} : conn'[d] = conn[d] /\ rows'[d] = rows[d]
        /\ UNCHANGED <<mem, db, unsaved, at, event>>
    BY <1>0, <1>12 DEF ListRows, ConnType, dbVars, faultVars, memVars, procVars
  <2>2. QED
    BY <2>1 DEF WrittenInv, Inserting, Elems
<1>13. ASSUME NEW c \in Sockets, Load(c)
       PROVE  WrittenInv'
  <2>1. /\ mem' = rows[c].seq /\ UNCHANGED <<db, unsaved, rows>> /\ conn[c] = "listed"
        /\ \A d \in Sockets : conn'[d] = "listed" => conn[d] = "listed"
    BY <1>0, <1>13 DEF Load, ConnType, dbVars, faultVars
  <2>2. Elems(mem)' \subseteq Elems(db)
    BY <2>1 DEF WrittenInv, Elems
  <2>3. QED
    BY <2>1, <2>2 DEF WrittenInv, Elems
<1>14. ASSUME NEW c \in Sockets, SumUsage(c) \/ HydrationFails(c) \/ Disconnect(c)
       PROVE  WrittenInv'
  <2>1. \A d \in Sockets : conn'[d] = "listed" => conn[d] = "listed" /\ rows'[d] = rows[d]
    BY <1>0, <1>14 DEF SumUsage, HydrationFails, Disconnect, ConnType
  <2>2. UNCHANGED <<mem, db, unsaved, at, event>>
    BY <1>14 DEF SumUsage, HydrationFails, Disconnect, dbVars, faultVars, memVars, procVars
  <2>3. QED
    BY <1>10, <2>1, <2>2
<1>15. ASSUME NEW c \in Sockets, SeedAndJoin(c)
       PROVE  WrittenInv'
  <2>1. \A d \in Sockets : conn'[d] = "listed" => conn[d] = "listed" /\ rows'[d] = rows[d]
    BY <1>0, <1>15, JoinEffect DEF SeedAndJoin
  <2>2. UNCHANGED <<mem, db, unsaved, at, event>>
    BY <1>0, <1>15, JoinEffect DEF SeedAndJoin, dbVars, faultVars
  <2>3. QED
    BY <1>10, <2>1, <2>2
<1>16. CASE Restart
  <2>1. mem' = <<>> /\ \A c \in Sockets : conn'[c] = "off"
    BY <1>16 DEF Restart
  <2>2. QED
    BY <2>1 DEF WrittenInv, Elems
<1>17. CASE UNCHANGED vars
  BY <1>10, <1>17 DEF vars, dbVars, faultVars, memVars, procVars, connVars
<1>18. QED
  BY <1>1, <1>4, <1>5, <1>6, <1>7, <1>8, <1>9, <1>11, <1>12, <1>13, <1>14, <1>15, <1>16, <1>17
  DEF Next

\* Two hydrations that race can take an entry out of memory (HydrationKeepsLive),
\* but never out of the database: whatever a browser can be shown has its row,
\* is about to get it, or its insert raised (load_activity, record_activity).
THEOREM ShownIsWritten == Spec => []MemoryIsWritten
<1>1. Init => Typed /\ WrittenInv
  BY TypedInit DEF Init, WrittenInv, Elems
<1>2. Typed /\ WrittenInv /\ [Next]_vars => Typed' /\ WrittenInv'
  BY TypedStep, WrittenStep
<1>3. WrittenInv => MemoryIsWritten
  BY DEF WrittenInv, MemoryIsWritten, Inserting
<1>4. QED
  BY <1>1, <1>2, <1>3, PTL DEF Spec
=============================================================================
