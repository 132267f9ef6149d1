----------------------- MODULE SessionRegistry_proofs -----------------------
(***************************************************************************)
(* What holds of the session registry for any number of sockets, messages  *)
(* and sessions, and what holds while no two callers overlapped.           *)
(***************************************************************************)
EXTENDS SessionRegistry, TLAPS

(***************************************************************************)
(* Any number of callers.                                                  *)
(***************************************************************************)
\* What the registry maintains without any assumption on the callers.
RegInv == TypeOK /\ RegisteredIsAlive

\* The initial state satisfies it.
LEMMA RegInvInit == Init => RegInv
<1> SUFFICES ASSUME Init PROVE RegInv
  OBVIOUS
<1>1. <<>> \in Seq(Turns)
  OBVIOUS
<1>2. TypeOK
  BY <1>1 DEF Init, TypeOK, Phases
<1>3. QED
  BY <1>2 DEF Init, RegInv, RegisteredIsAlive

\* Putting a turn on the registered session's queue keeps the queues typed.
LEMMA PutTypes ==
  ASSUME NEW t \in Turns, inbox \in [Sessions -> Seq(Turns)], registered' \in Sessions, Put(t)
  PROVE  inbox' \in [Sessions -> Seq(Turns)]
  BY DEF Put

\* A caller that is done leaves the others where they are.
LEMMA StayTypes ==
  ASSUME TypeOK, NEW c \in Callers, Stay(c)
  PROVE  /\ at' \in [Callers -> {"idle", "lookup", "clearing"}]
         /\ msg' \in [Callers -> Turns \union {None}]
         /\ \A d \in Callers : at'[d] # "idle" => msg'[d] \in Turns
  BY DEF TypeOK, Stay

\* A caller that goes on waits with its message.
LEMMA GotoTypes ==
  ASSUME TypeOK, NEW c \in Callers, NEW t \in Turns,
         NEW l \in {"lookup", "clearing"}, Goto(c, l, t)
  PROVE  /\ at' \in [Callers -> {"idle", "lookup", "clearing"}]
         /\ msg' \in [Callers -> Turns \union {None}]
         /\ \A d \in Callers : at'[d] # "idle" => msg'[d] \in Turns
  BY DEF TypeOK, Goto

\* Every step keeps it.
LEMMA RegInvStep == RegInv /\ [Next]_vars => RegInv'
<1> SUFFICES ASSUME RegInv, [Next]_vars PROVE RegInv'
  OBVIOUS
<1> USE RegistryAssumption DEF RegInv
<1>1. ASSUME NEW c \in Callers, NEW t \in Turns, Send(c, t) PROVE RegInv'
  <2>1. CASE Registered
    <3>1. inbox' \in [Sessions -> Seq(Turns)]
      BY <1>1, <2>1, PutTypes DEF Send, Registered, TypeOK
    <3>2. QED
      BY <1>1, <2>1, <3>1 DEF Send, TypeOK, RegisteredIsAlive, Alive
  <2>2. CASE ~Registered
    <3>1. Goto(c, "lookup", t)
      BY <1>1, <2>2 DEF Send
    <3>2. QED
      BY <1>1, <2>2, <3>1, GotoTypes DEF Send, TypeOK, RegisteredIsAlive, Alive
  <2>3. QED
    BY <2>1, <2>2
<1>2. ASSUME NEW c \in Callers, NEW t \in Turns, Skip(c, t) PROVE RegInv'
  BY <1>2 DEF Skip, TypeOK, RegisteredIsAlive, Alive
<1>3. ASSUME NEW c \in Callers, NoRow(c) PROVE RegInv'
  BY <1>3, StayTypes DEF NoRow, TypeOK, RegisteredIsAlive, Alive
<1>4. ASSUME NEW c \in Callers, Create(c) PROVE RegInv'
  <2>1. PICK s \in Sessions : registered' = s /\ phase' = [phase EXCEPT ![s] = "serving"]
    BY <1>4 DEF Create
  <2>2. msg[c] \in Turns
    BY <1>4 DEF Create, TypeOK
  <2>3. CASE flag
    <3>1. Goto(c, "clearing", msg[c]) /\ inbox' = inbox
      BY <1>4, <2>3 DEF Create
    <3>2. QED
      BY <1>4, <2>1, <2>2, <3>1, GotoTypes DEF Create, TypeOK, RegisteredIsAlive, Alive, Phases
  <2>4. CASE ~flag
    <3>1. Stay(c) /\ Put(msg[c])
      BY <1>4, <2>4 DEF Create
    <3>2. inbox' \in [Sessions -> Seq(Turns)]
      BY <2>1, <2>2, <3>1, PutTypes DEF TypeOK
    <3>3. QED
      BY <1>4, <2>1, <3>1, <3>2, StayTypes DEF Create, TypeOK, RegisteredIsAlive, Alive, Phases
  <2>5. QED
    BY <2>3, <2>4
<1>5. ASSUME NEW c \in Callers, Cleared(c) PROVE RegInv'
  <2>1. inbox' \in [Sessions -> Seq(Turns)]
    BY <1>5, PutTypes DEF Cleared, TypeOK
  <2>2. QED
    BY <1>5, <2>1, StayTypes DEF Cleared, TypeOK, RegisteredIsAlive, Alive
<1>6. ASSUME NEW s \in Sessions, Serve(s) PROVE RegInv'
  <2>1. Head(inbox[s]) \in Turns /\ Tail(inbox[s]) \in Seq(Turns)
    BY <1>6 DEF Serve, TypeOK
  <2>2. QED
    BY <1>6, <2>1 DEF Serve, TypeOK, RegisteredIsAlive, Alive
<1>7. ASSUME NEW s \in Sessions, Toggle(s) PROVE RegInv'
  BY <1>7 DEF Toggle, SetIndicator, TypeOK, RegisteredIsAlive, Alive
<1>8. ASSUME NEW s \in Sessions, Close(s) PROVE RegInv'
  BY <1>8 DEF Close, TypeOK, RegisteredIsAlive, Alive, Phases
<1>9. ASSUME NEW s \in Sessions, Dim(s) PROVE RegInv'
  BY <1>9 DEF Dim, SetIndicator, TypeOK, RegisteredIsAlive, Alive
<1>10. ASSUME NEW s \in Sessions, End(s) PROVE RegInv'
  BY <1>10 DEF End, Discard, TypeOK, RegisteredIsAlive, Alive, Phases
<1>11. CASE ShutdownAll
  BY <1>11 DEF ShutdownAll, TypeOK, RegisteredIsAlive, Alive, Phases
<1>12. CASE UNCHANGED vars
  BY <1>12 DEF vars, TypeOK, RegisteredIsAlive, Alive
<1>13. QED
  BY <1>1, <1>2, <1>3, <1>4, <1>5, <1>6, <1>7, <1>8, <1>9, <1>10, <1>11, <1>12 DEF Next

\* The session that skip, stop and reconnect would reach has not ended
\* (AgentSessionRegistry._sessions against the life of the owner tasks).
THEOREM RegistryReachesATask == Spec => []RegisteredIsAlive
<1>1. RegInv => RegisteredIsAlive
  BY DEF RegInv
<1>2. QED
  BY <1>1, RegInvInit, RegInvStep, PTL DEF Spec

\* A session that was replaced does not take its replacement with it when it
\* ends: only the end of the registered session leaves the surface without one.
THEOREM DiscardsOnlyItself == Spec => DiscardOwn
<1> DEFINE Step == \A s \in Sessions :
                     registered = s /\ registered' = None => phase'[s] = "done"
<1>1. RegInv /\ [Next]_vars => [Step]_vars
  <2> SUFFICES ASSUME RegInv, Next, NEW s \in Sessions,
                      registered = s, registered' = None
               PROVE  phase'[s] = "done"
    BY DEF vars
  <2> USE RegistryAssumption DEF RegInv
  <2>1. ASSUME NEW r \in Sessions, End(r) PROVE phase'[s] = "done"
    BY <2>1 DEF End, Discard, TypeOK
  <2>2. CASE ShutdownAll
    BY <2>2 DEF ShutdownAll, TypeOK
  <2>3. ASSUME NEW c \in Callers, Create(c) PROVE FALSE
    BY <2>3 DEF Create
  <2>4. QED
    BY <2>1, <2>2, <2>3
    DEF Next, Send, Skip, NoRow, Cleared, Serve, Toggle, Close, Dim
<1>2. QED
  BY <1>1, RegInvInit, RegInvStep, PTL DEF Spec, DiscardOwn

(***************************************************************************)
(* While no two callers looked up the row at the same time.                *)
(***************************************************************************)
\* A caller that looks up the row has found no session, and as the only one
\* that could create it, finds none when it creates its own.
CalmInv ==
    /\ \A s \in Sessions : Alive(s) => registered = s
    /\ \A s \in Sessions : lamp[s] => Alive(s)
    /\ flag = BackgroundIndicator
    /\ \A c \in Callers : at[c] = "lookup" => registered = None
    /\ \A c, d \in Callers : at[c] = "lookup" /\ at[d] = "lookup" => c = d
    /\ \A c \in Callers : at[c] # "clearing"
    /\ ~up => registered = None /\ \A c \in Callers : at[c] = "idle"

UnlessRaced == RegInv /\ (~raced => CalmInv)

\* The initial state satisfies it.
LEMMA UnlessRacedInit == Init => UnlessRaced
  BY RegInvInit, RegistryAssumption
  DEF Init, UnlessRaced, CalmInv, Alive, BackgroundIndicator, Registered

\* Every step keeps it: when a second caller enters send(), raced is set.
LEMMA UnlessRacedStep == UnlessRaced /\ [Next]_vars => UnlessRaced'
<1> SUFFICES ASSUME UnlessRaced, [Next]_vars PROVE UnlessRaced'
  OBVIOUS
<1>0. TypeOK /\ RegInv'
  BY RegInvStep DEF UnlessRaced, RegInv
<1> SUFFICES ASSUME ~raced' PROVE CalmInv'
  BY <1>0 DEF UnlessRaced
<1>a. ~raced /\ CalmInv
  <2>1. ASSUME NEW c \in Callers, NEW t \in Turns, Send(c, t) PROVE ~raced
    <3>1. CASE Registered
      BY <2>1, <3>1 DEF Send
    <3>2. CASE ~Registered
      BY <2>1, <3>2 DEF Send
    <3>3. QED
      BY <3>1, <3>2
  <2>2. ASSUME NEW c \in Callers, (\E t \in Turns : Skip(c, t)) \/ NoRow(c) \/ Create(c)
                                  \/ Cleared(c)
        PROVE  ~raced
    BY <2>2 DEF Skip, NoRow, Create, Cleared
  <2>3. ASSUME NEW s \in Sessions, Serve(s) \/ Toggle(s) \/ Close(s) \/ Dim(s) \/ End(s)
        PROVE  ~raced
    BY <2>3 DEF Serve, Toggle, Close, Dim, End
  <2>4. ASSUME ShutdownAll \/ UNCHANGED vars PROVE ~raced
    BY <2>4 DEF ShutdownAll, vars
  <2>5. ~raced
    BY <2>1, <2>2, <2>3, <2>4 DEF Next
  <2>6. QED
    BY <2>5 DEF UnlessRaced
<1> USE <1>0, <1>a, RegistryAssumption DEF CalmInv, BackgroundIndicator, Registered, Alive
<1>1. ASSUME NEW c \in Callers, NEW t \in Turns, Send(c, t) PROVE CalmInv'
  <2>1. CASE Registered
    BY <1>1, <2>1 DEF Send
  <2>2. CASE ~Registered
    <3>1. at' = [at EXCEPT ![c] = "lookup"]
      BY <1>1, <2>2 DEF Send, Goto
    <3>2. registered = None
      BY <2>2 DEF UnlessRaced, RegInv, RegisteredIsAlive
    <3>3. \A d \in Callers \ {c} : at[d] # "lookup"
      BY <1>1, <2>2 DEF Send
    <3>4. QED
      BY <1>1, <3>1, <3>2, <3>3 DEF Send, TypeOK
  <2>3. QED
    BY <2>1, <2>2
<1>2. ASSUME NEW c \in Callers, NEW t \in Turns, Skip(c, t) PROVE CalmInv'
  BY <1>2 DEF Skip
<1>3. ASSUME NEW c \in Callers, NoRow(c) PROVE CalmInv'
  BY <1>3 DEF NoRow, Stay, TypeOK
<1>4. ASSUME NEW c \in Callers, Create(c) PROVE CalmInv'
  <2>1. PICK s \in Sessions : /\ phase[s] = "unborn" /\ registered' = s
                              /\ phase' = [phase EXCEPT ![s] = "serving"]
    BY <1>4 DEF Create
  <2>2. at[c] = "lookup" /\ registered = None /\ flag = FALSE
    BY <1>4 DEF Create
  <2>3. at' = [at EXCEPT ![c] = "idle"] /\ lamp' = lamp /\ flag' = FALSE /\ up' = up
    BY <1>4, <2>2 DEF Create, Stay
  <2>4. \A d \in Callers \ {c} : at[d] # "lookup"
    BY <2>2
  <2>5. \A r \in Sessions : ~Alive(r) /\ ~lamp[r]
    BY <2>2
  <2>6. up
    BY <1>4, <2>2
  <2>7. QED
    BY <2>1, <2>2, <2>3, <2>4, <2>5, <2>6 DEF TypeOK
<1>5. ASSUME NEW c \in Callers, Cleared(c) PROVE CalmInv'
  BY <1>5 DEF Cleared
<1>6. ASSUME NEW s \in Sessions, Serve(s) PROVE CalmInv'
  BY <1>6 DEF Serve
<1>7. ASSUME NEW s \in Sessions, Toggle(s) PROVE CalmInv'
  BY <1>7 DEF Toggle, SetIndicator, TypeOK
<1>8. ASSUME NEW s \in Sessions, Close(s) PROVE CalmInv'
  BY <1>8 DEF Close, TypeOK
<1>9. ASSUME NEW s \in Sessions, Dim(s) PROVE CalmInv'
  BY <1>9 DEF Dim, SetIndicator, TypeOK
<1>10. ASSUME NEW s \in Sessions, End(s) PROVE CalmInv'
  BY <1>10 DEF End, Discard, DimmedFirst, TypeOK
<1>11. CASE ShutdownAll
  BY <1>11 DEF ShutdownAll, TypeOK
<1>12. CASE UNCHANGED vars
  BY <1>12 DEF vars
<1>13. QED
  BY <1>1, <1>2, <1>3, <1>4, <1>5, <1>6, <1>7, <1>8, <1>9, <1>10, <1>11, <1>12 DEF Next

\* Only overlapping lookups can give a surface two live sessions, so otherwise
\* one Claude client works on the conversation (send's check-then-create).
THEOREM OneSessionUnlessRaced == Spec => []OneSession
<1>1. UnlessRaced => OneSession
  BY DEF UnlessRaced, CalmInv, OneSession
<1>2. QED
  BY <1>1, UnlessRacedInit, UnlessRacedStep, PTL DEF Spec

\* The store's flag is the live session's indicator, so no phantom spinner
\* survives a session (the finally clause of _run).
THEOREM SpinnerTruthUnlessRaced == Spec => []SpinnerTruth
<1>1. UnlessRaced => SpinnerTruth
  BY DEF UnlessRaced, CalmInv, SpinnerTruth
<1>2. QED
  BY <1>1, UnlessRacedInit, UnlessRacedStep, PTL DEF Spec

\* No session outlives the daemon (shutdown_all).
THEOREM NothingLeaksUnlessRaced == Spec => []NothingLeaks
<1>1. UnlessRaced => NothingLeaks
  BY RegistryAssumption DEF UnlessRaced, CalmInv, NothingLeaks
<1>2. QED
  BY <1>1, UnlessRacedInit, UnlessRacedStep, PTL DEF Spec

\* A turn that waits in a live session is in the list browsers are shown
\* (pending_snapshot reads the registered session).
THEOREM AllPendingShownUnlessRaced == Spec => []AllPendingShown
<1>1. UnlessRaced => AllPendingShown
  <2> SUFFICES ASSUME UnlessRaced, ~raced, NEW s \in Sessions, Alive(s)
               PROVE  Elems(inbox[s]) \ skipped \subseteq PendingSnapshot
    BY DEF AllPendingShown
  <2>1. registered = s /\ s # None
    BY RegistryAssumption DEF UnlessRaced, CalmInv
  <2>2. Registered
    BY <2>1 DEF Registered, Alive
  <2>3. QED
    BY <2>1, <2>2 DEF PendingSnapshot
<1>2. QED
  BY <1>1, UnlessRacedInit, UnlessRacedStep, PTL DEF Spec
=============================================================================
