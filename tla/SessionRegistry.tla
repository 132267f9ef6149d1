--------------------------- MODULE SessionRegistry ---------------------------
(***************************************************************************)
(* AgentSessionRegistry for one surface: the WebSocket handlers (Callers)  *)
(* route messages to the surface's session, create one when there is none  *)
(* and the sessions take themselves off the registry when they end.        *)
(*                                                                         *)
(* A session is seen from outside: it serves its queue, its indicator      *)
(* goes on and off, it stops serving, winds down and is done (what happens *)
(* inside is module AgentSession).  A caller handles one frame at a time   *)
(* and can be overtaken by other callers and by sessions at each await.    *)
(***************************************************************************)
EXTENDS Naturals, Sequences, FiniteSets

CONSTANTS Callers,      \* open sockets on the surface
          Turns,        \* messages, each sent at most once
          MaxSessions,  \* bound: sessions created in a behaviour
          None

Sessions == 1 .. MaxSessions

ASSUME RegistryAssumption == /\ MaxSessions \in Nat
                             /\ None \notin Sessions \union Turns

VARIABLES
    hasRow,      \* the surface has a session row in the database
    registered,  \* _sessions.get(surface)
    phase,       \* of each session: "unborn", "serving", "closing", "done"
    inbox,       \* of each session: the turns on its queue
    lamp,        \* of each session: _indicator_on
    flag,        \* background_working of the process-global store
    at,          \* of each caller: the await it is in
    msg,         \* of each caller: the message it is routing
    up,          \* the daemon has not been shut down
    skipped,     \* the turns marked as skipped in their session
    sent,        \* history: the turns sent
    raced        \* history: two callers looked up the row at the same time

vars == <<hasRow, registered, phase, inbox, lamp, flag, at, msg, up, skipped, sent, raced>>

Phases == {"unborn", "serving", "closing", "done"}
Alive(s) == phase[s] \in {"serving", "closing"}
Elems(q) == {q[i] : i \in DOMAIN q}

TypeOK ==
    /\ hasRow \in BOOLEAN /\ up \in BOOLEAN /\ flag \in BOOLEAN
    /\ registered \in Sessions \union {None}
    /\ phase \in [Sessions -> Phases]
    /\ inbox \in [Sessions -> Seq(Turns)]
    /\ lamp \in [Sessions -> BOOLEAN]
    /\ at \in [Callers -> {"idle", "lookup", "clearing"}]
    /\ msg \in [Callers -> Turns \union {None}]
    /\ \A c \in Callers : at[c] # "idle" => msg[c] \in Turns
    /\ skipped \subseteq Turns /\ sent \subseteq Turns /\ raced \in BOOLEAN

Init ==
    /\ hasRow \in BOOLEAN
    /\ registered = None
    /\ phase = [s \in Sessions |-> "unborn"]
    /\ inbox = [s \in Sessions |-> <<>>]
    /\ lamp = [s \in Sessions |-> FALSE]
    /\ flag = FALSE /\ up = TRUE
    /\ at = [c \in Callers |-> "idle"]
    /\ msg = [c \in Callers |-> None]
    /\ skipped = {} /\ sent = {} /\ raced = FALSE

(***************************************************************************)
(* send()                                                                  *)
(***************************************************************************)
\* is_live() of the registered session: its owner task is not done.
Registered_Serving == registered # None /\ phase[registered] = "serving"
Registered == registered # None /\ phase[registered] # "done"

\* enqueue() on whatever session is registered now.
Put(t) == inbox' = [inbox EXCEPT ![registered'] = Append(@, t)]

Stay(c) == at' = [at EXCEPT ![c] = "idle"] /\ msg' = [msg EXCEPT ![c] = None]
Goto(c, label, t) == at' = [at EXCEPT ![c] = label] /\ msg' = [msg EXCEPT ![c] = t]

\* A message for a live session is queued at once, any other looks up the row.
Send(c, t) ==
    /\ up /\ at[c] = "idle" /\ t \notin sent
    /\ sent' = sent \union {t}
    /\ UNCHANGED <<hasRow, registered, phase, lamp, flag, up, skipped>>
    /\ IF Registered
       THEN Put(t) /\ UNCHANGED <<at, msg, raced>>
       ELSE /\ Goto(c, "lookup", t)
            /\ raced' = (raced \/ \E d \in Callers \ {c} : at[d] = "lookup")
            /\ UNCHANGED inbox

NoRow(c) ==
    /\ at[c] = "lookup" /\ ~hasRow
    /\ Stay(c)
    /\ UNCHANGED <<hasRow, registered, phase, inbox, lamp, flag, up, skipped, sent, raced>>

\* Register a new session; a flag an earlier one left on is cleared first.
Create(c) ==
    /\ at[c] = "lookup" /\ hasRow
    /\ \E s \in Sessions :
         /\ phase[s] = "unborn" /\ \A r \in 1 .. s - 1 : phase[r] # "unborn"
         /\ registered' = s
         /\ phase' = [phase EXCEPT ![s] = "serving"]
    /\ flag' = FALSE
    /\ IF flag THEN Goto(c, "clearing", msg[c]) /\ UNCHANGED inbox
               ELSE Stay(c) /\ Put(msg[c])
    /\ UNCHANGED <<hasRow, lamp, up, skipped, sent, raced>>

\* After that broadcast the session is looked up again: a KeyError when it is
\* gone (the socket closes and the message is lost).
Cleared(c) ==
    /\ at[c] = "clearing"
    /\ Stay(c)
    /\ UNCHANGED <<hasRow, registered, phase, lamp, flag, up, skipped, sent, raced>>
    /\ IF registered = None THEN UNCHANGED inbox ELSE Put(msg[c])

\* skip() addresses the registered session, alive or not; the turn stays on
\* the queue.
Skip(c, t) ==
    /\ up /\ at[c] = "idle" /\ registered # None
    /\ t \in Elems(inbox[registered]) \ skipped
    /\ skipped' = skipped \union {t}
    /\ UNCHANGED <<hasRow, registered, phase, inbox, lamp, flag, at, msg, up, sent, raced>>

(***************************************************************************)
(* The sessions.                                                           *)
(***************************************************************************)
Serve(s) ==
    /\ phase[s] = "serving" /\ inbox[s] # <<>>
    /\ inbox' = [inbox EXCEPT ![s] = Tail(@)]
    /\ UNCHANGED <<hasRow, registered, phase, lamp, flag, at, msg, up, skipped, sent, raced>>

\* _set_indicator: the session's own value and the store's flag together.
SetIndicator(s, on) == lamp' = [lamp EXCEPT ![s] = on] /\ flag' = on

Toggle(s) ==
    /\ phase[s] = "serving"
    /\ SetIndicator(s, ~lamp[s])
    /\ UNCHANGED <<hasRow, registered, phase, inbox, at, msg, up, skipped, sent, raced>>

\* _serve returns (idle) or raises (whatever is queued).
Close(s) ==
    /\ phase[s] = "serving"
    /\ phase' = [phase EXCEPT ![s] = "closing"]
    /\ UNCHANGED <<hasRow, registered, inbox, lamp, flag, at, msg, up, skipped, sent, raced>>

\* The finally clause first turns the indicator off ...
Dim(s) ==
    /\ phase[s] = "closing" /\ lamp[s]
    /\ SetIndicator(s, FALSE)
    /\ UNCHANGED <<hasRow, registered, phase, inbox, at, msg, up, skipped, sent, raced>>

\* _discard: a session only removes itself.
Discard_AnySession(s) == registered' = None
Discard(s) == registered' = IF registered = s THEN None ELSE registered

DimmedFirst_Not(s) == TRUE
DimmedFirst(s) == ~lamp[s]

\* ... then leaves the registry; the owner task is done.
End(s) ==
    /\ phase[s] = "closing" /\ DimmedFirst(s)
    /\ Discard(s)
    /\ phase' = [phase EXCEPT ![s] = "done"]
    /\ UNCHANGED <<hasRow, inbox, lamp, flag, at, msg, up, skipped, sent, raced>>

(***************************************************************************)
(* Shutdown: the sockets are gone, the registered sessions are closed.     *)
(***************************************************************************)
ShutdownAll ==
    /\ up /\ \A c \in Callers : at[c] = "idle"
    /\ up' = FALSE
    /\ registered' = None
    /\ IF registered = None
       THEN UNCHANGED <<phase, lamp, flag>>
       ELSE /\ phase' = [phase EXCEPT ![registered] = "done"]
            /\ lamp' = [lamp EXCEPT ![registered] = FALSE]
            /\ flag' = (flag /\ ~lamp[registered])
    /\ UNCHANGED <<hasRow, inbox, at, msg, skipped, sent, raced>>

Next ==
    \/ \E c \in Callers : \/ \E t \in Turns : Send(c, t) \/ Skip(c, t)
                          \/ NoRow(c) \/ Create(c) \/ Cleared(c)
    \/ \E s \in Sessions : Serve(s) \/ Toggle(s) \/ Close(s) \/ Dim(s) \/ End(s)
    \/ ShutdownAll

Spec == Init /\ [][Next]_vars

(***************************************************************************)
(* What a connecting browser is told.                                      *)
(***************************************************************************)
BackgroundIndicator == Registered /\ lamp[registered]
PendingSnapshot == IF Registered THEN Elems(inbox[registered]) \ skipped ELSE {}

(***************************************************************************)
(* Properties.                                                             *)
(***************************************************************************)
\* The surface is left without a session only by the end of the one it had,
\* never by the end of one that was replaced (_discard).
DiscardOwn ==
    [][\A s \in Sessions : registered = s /\ registered' = None => phase'[s] = "done"]_vars

\* The registered session has not ended: skip, stop and reconnect reach a task.
RegisteredIsAlive == registered # None => Alive(registered)

\* While no two callers overlapped in the lookup of the row, there is one
\* session of the surface at a time (send's check, await and create).
OneSession == ~raced => \A r, s \in Sessions : Alive(r) /\ Alive(s) => r = s

\* The same with callers that overlapped ("one per surface").
NeverTwoSessions == \A r, s \in Sessions : Alive(r) /\ Alive(s) => r = s

\* The flag kept for the browsers is the truth the connect snapshot reads from
\* the live session (background_indicator), unless callers overlapped.
SpinnerTruth == ~raced => flag = BackgroundIndicator

\* Nothing outlives the daemon ("reaped on idle or daemon shutdown").
NothingLeaks == ~raced /\ ~up => \A s \in Sessions : ~Alive(s)

\* A turn that waits in a live session is in the list a browser is shown.
AllPendingShown ==
    ~raced => \A s \in Sessions :
                Alive(s) => Elems(inbox[s]) \ skipped \subseteq PendingSnapshot

\* A message is never put on the queue of a session that stopped serving
\* ("would enqueue onto a dead queue and be silently lost", send).
NoDeadEnqueue ==
    [][\A s \in Sessions : Len(inbox'[s]) > Len(inbox[s]) => phase'[s] = "serving"]_vars
=============================================================================
