---------------------------- MODULE SurfaceSocket ----------------------------
(***************************************************************************)
(* useSurfaceSocket: the WebSocket one page keeps to the daemon, with      *)
(* reconnects, the frames buffered while it is down, and the daemon's      *)
(* handler of that socket.                                                 *)
(*                                                                         *)
(* A page is for one surface (navigation is a full load), so the surface   *)
(* of the hook never changes.  Frames are numbered in the order the user   *)
(* causes them; what they say is left out.                                 *)
(***************************************************************************)
EXTENDS Naturals, Sequences, SequencesExt

CONSTANTS MaxFrames,  \* bound: what the user sends and how often stop is pressed
          MaxFaults,  \* bound: daemon crashes, failing handlers, failed attempts
          MaxBackoff  \* doublings of the delay until RECONNECT_MAX_MS

ASSUME SocketAssumption == MaxFrames \in Nat /\ MaxFaults \in Nat /\ MaxBackoff \in Nat

Frames == 1 .. MaxFrames

VARIABLES
    mounted,  \* closedByCleanup is not set
    ws,       \* readyState of wsRef.current
    timer,    \* reconnectTimer is armed
    backoff,  \* doublings of the delay
    buffer,   \* pendingRef
    wire,     \* sent on the socket, not yet handled
    up,       \* the daemon runs
    peer,     \* the daemon's handler of the socket: "none", "serving"
    last,     \* number of the latest frame
    stops, inGap, \* the frames that are stops; those made while not open
    lost,     \* history: frames the daemon's side dropped
    handled,  \* history: frames the daemon handled, in order
    faults

pageVars   == <<mounted, ws, timer, backoff, buffer>>
daemonVars == <<up, peer>>
userVars   == <<last, stops, inGap>>
vars == <<pageVars, wire, daemonVars, userVars, lost, handled, faults>>

TypeOK ==
    /\ mounted \in BOOLEAN /\ timer \in BOOLEAN /\ up \in BOOLEAN
    /\ ws \in {"connecting", "open", "closing", "closed"}
    /\ peer \in {"none", "serving"}
    /\ backoff \in 0 .. MaxBackoff
    /\ buffer \in Seq(Frames) /\ wire \in Seq(Frames) /\ handled \in Seq(Frames)
    /\ last \in 0 .. MaxFrames
    /\ stops \subseteq Frames /\ inGap \subseteq Frames /\ lost \subseteq Frames
    /\ faults \in 0 .. MaxFaults

\* The effect ran: the first connection is under way.
Init ==
    /\ mounted = TRUE /\ ws = "connecting" /\ timer = FALSE /\ backoff = 0
    /\ buffer = <<>> /\ wire = <<>>
    /\ up \in BOOLEAN /\ peer = "none"
    /\ last = 0 /\ stops = {} /\ inGap = {}
    /\ lost = {} /\ handled = <<>> /\ faults = 0

Fault == faults < MaxFaults /\ faults' = faults + 1

(***************************************************************************)
(* The page.                                                               *)
(***************************************************************************)
\* onopen: what was typed meanwhile is flushed in order.
Flush_Kept == buffer
Flush == <<>>
Flushed_Nothing == <<>>
Flushed == buffer

Open ==
    /\ ws = "connecting" /\ up
    /\ ws' = "open" /\ peer' = "serving"
    /\ backoff' = 0
    /\ wire' = Flushed
    /\ buffer' = Flush
    /\ UNCHANGED <<mounted, timer, up, userVars, lost, handled, faults>>

\* onclose: try again later, unless the page went away.
Rearm_Always == TRUE
Rearm == mounted

Doubled_Unbounded == backoff + 1
Doubled == IF backoff < MaxBackoff THEN backoff + 1 ELSE backoff

OnClose ==
    /\ ws' = "closed"
    /\ timer' = Rearm
    /\ backoff' = IF Rearm THEN Doubled ELSE backoff

Refused ==
    /\ ws = "connecting"
    /\ IF up THEN Fault ELSE UNCHANGED faults
    /\ OnClose
    /\ UNCHANGED <<mounted, buffer, wire, daemonVars, userVars, lost, handled>>

\* The page notices that the other side is gone, sooner or later.
Closed ==
    /\ ws \in {"open", "closing"} /\ peer = "none"
    /\ OnClose
    /\ UNCHANGED <<mounted, buffer, wire, daemonVars, userVars, lost, handled, faults>>

Connect ==
    /\ timer
    /\ ws' = "connecting" /\ timer' = FALSE
    /\ UNCHANGED <<mounted, backoff, buffer, wire, daemonVars, userVars, lost, handled, faults>>

\* The effect's cleanup.
ClearTimer_Not == timer
ClearTimer == FALSE

Unmount ==
    /\ mounted
    /\ mounted' = FALSE /\ timer' = ClearTimer
    /\ ws' = IF ws \in {"connecting", "open"} THEN "closing" ELSE ws
    /\ UNCHANGED <<backoff, buffer, wire, daemonVars, userVars, lost, handled, faults>>

(***************************************************************************)
(* The user.                                                               *)
(***************************************************************************)
\* Frames sent to a socket whose other side is gone vanish.
WsSend(f) ==
    IF peer = "serving" THEN wire' = Append(wire, f) /\ UNCHANGED lost
                        ELSE lost' = lost \union {f} /\ UNCHANGED wire

NewFrame ==
    /\ mounted /\ last < MaxFrames
    /\ last' = last + 1
    /\ inGap' = IF ws = "open" THEN inGap ELSE inGap \union {last'}
    /\ UNCHANGED <<mounted, ws, timer, backoff, daemonVars, handled, faults>>

Buffered_Newest == <<last'>> \o buffer
Buffered == Append(buffer, last')

\* enqueueOrSend: a message, an answer or a skip.
EnqueueOrSend ==
    /\ NewFrame
    /\ IF ws = "open" THEN WsSend(last') /\ UNCHANGED buffer
                      ELSE buffer' = Buffered /\ UNCHANGED <<wire, lost>>
    /\ UNCHANGED stops

\* A stop is not buffered.
UnsentStop_Buffered == Append(buffer, last')
UnsentStop == buffer

PressStop ==
    /\ NewFrame
    /\ IF ws = "open" THEN WsSend(last') /\ UNCHANGED buffer
                      ELSE buffer' = UnsentStop /\ UNCHANGED <<wire, lost>>
    /\ stops' = stops \union {last'}

(***************************************************************************)
(* The daemon.                                                             *)
(***************************************************************************)
\* ws_surface handles one frame after the other.
Handle ==
    /\ peer = "serving" /\ wire # <<>>
    /\ handled' = Append(handled, Head(wire))
    /\ wire' = Tail(wire)
    /\ UNCHANGED <<pageVars, daemonVars, userVars, lost, faults>>

Drop ==
    /\ lost' = lost \union ToSet(wire)
    /\ wire' = <<>>
    /\ peer' = "none"

\* Hydrating or a handler raises: the socket is closed with what it holds.
HandlerRaises ==
    /\ peer = "serving" /\ Fault
    /\ Drop
    /\ UNCHANGED <<pageVars, up, userVars, handled>>

Crash ==
    /\ up /\ Fault
    /\ up' = FALSE
    /\ Drop
    /\ UNCHANGED <<pageVars, userVars, handled>>

Restart ==
    /\ ~up
    /\ up' = TRUE
    /\ UNCHANGED <<pageVars, wire, peer, userVars, lost, handled, faults>>

\* A page that closed its socket: the handler reads to the end.
Hangup ==
    /\ ws = "closing" /\ peer = "serving" /\ wire = <<>>
    /\ peer' = "none"
    /\ UNCHANGED <<pageVars, wire, up, userVars, lost, handled, faults>>

Page   == Open \/ Refused \/ Closed \/ Connect
Daemon == Handle \/ Restart \/ Hangup
Faulty == HandlerRaises \/ Crash
User   == EnqueueOrSend \/ PressStop \/ Unmount
Done   == ~mounted /\ ws = "closed" /\ up /\ UNCHANGED vars

Next == Page \/ Daemon \/ Faulty \/ User \/ Done
Spec == Init /\ [][Next]_vars

\* The browser's timers and events happen, the loop of a running daemon runs,
\* and a daemon that went down is started again.
FairSpec == Spec /\ WF_vars(Page) /\ WF_vars(Handle) /\ WF_vars(Restart) /\ WF_vars(Hangup)

(***************************************************************************)
(* Properties.                                                             *)
(***************************************************************************)
Increasing(s) == \A i, j \in DOMAIN s : i < j => s[i] < s[j]

\* Across reconnects the daemon handles frames in the order the user made
\* them, and none twice (the flush of onopen).
HandledInOrder == Increasing(handled)

\* A message made while the socket is down reaches the daemon once there is a
\* connection, unless that one breaks as well or the page is left first
\* ("a message typed during the gap is never lost").
GapServed ==
    \A f \in Frames : f \in ToSet(buffer) ~> (f \in ToSet(handled) \cup lost \/ ~mounted)

\* A stop stays with the connection it was pressed on: it cannot end a turn
\* that started after a reconnect ("best-effort (not queued)").
StopNotLate == \A i \in DOMAIN handled : handled[i] \notin stops \cap inGap

\* A page that was left opens no further connection.
UnmountIsFinal == [][~mounted => ws' # "connecting" \/ ws = "connecting"]_vars

\* "a message typed during the gap is never lost", as the comment says it.
GapNeverLost == (inGap \ stops) \cap lost = {}
=============================================================================
