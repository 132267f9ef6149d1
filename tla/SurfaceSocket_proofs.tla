------------------------- MODULE SurfaceSocket_proofs -------------------------
(***************************************************************************)
(* The order of frames, for any number of frames, faults and doublings.    *)
(***************************************************************************)
EXTENDS SurfaceSocket, TLAPS

\* A frame is in one place at a time, and the places hold them in order:
\* handled before sent before buffered.
Ordered ==
    /\ Increasing(handled) /\ Increasing(wire) /\ Increasing(buffer)
    /\ \A i \in DOMAIN handled, j \in DOMAIN wire : handled[i] < wire[j]
    /\ \A i \in DOMAIN handled, j \in DOMAIN buffer : handled[i] < buffer[j]
    /\ \A i \in DOMAIN handled : handled[i] <= last
    /\ \A i \in DOMAIN wire : wire[i] <= last
    /\ \A i \in DOMAIN buffer : buffer[i] <= last

\* What is on the wire belongs to the current socket, and nothing is buffered
\* while there is one.
OneConnection ==
    /\ ws \in {"connecting", "closed"} => peer = "none"
    /\ peer = "none" => wire = <<>>
    /\ ws = "open" \/ peer = "serving" => buffer = <<>>

\* Stops made in a gap are nowhere.
StopsGone ==
    /\ \A i \in DOMAIN handled : handled[i] \notin stops \cap inGap
    /\ \A i \in DOMAIN wire : wire[i] \notin stops \cap inGap
    /\ \A i \in DOMAIN buffer : buffer[i] \notin stops
    /\ \A f \in stops \union inGap : f <= last

\* The timer is armed only on a page that is there and has no socket, and only
\* the page's going away closes a socket from this side.
TimerOwned ==
    /\ timer => mounted /\ ws = "closed"
    /\ mounted => ws # "closing"

IInv == TypeOK /\ Ordered /\ OneConnection /\ StopsGone /\ TimerOwned

\* The initial state satisfies the invariant.
LEMMA InitHolds == Init => IInv
<1> SUFFICES ASSUME Init PROVE IInv
  OBVIOUS
<1>1. <<>> \in Seq(Frames) /\ DOMAIN <<>> = {}
  OBVIOUS
<1>2. backoff \in 0 .. MaxBackoff /\ faults \in 0 .. MaxFaults /\ last \in 0 .. MaxFrames
  BY SocketAssumption DEF Init
<1>3. TypeOK
  BY <1>1, <1>2 DEF Init, TypeOK
<1>4. QED
  BY <1>1, <1>3 DEF Init, IInv, Ordered, OneConnection, StopsGone, TimerOwned, Increasing

\* The operations on a sequence of frames.
LEMMA AppendFrame ==
  ASSUME NEW s \in Seq(Frames), NEW f \in Frames
  PROVE  /\ Append(s, f) \in Seq(Frames)
         /\ DOMAIN Append(s, f) = DOMAIN s \union {Len(s) + 1}
         /\ \A i \in DOMAIN s : Append(s, f)[i] = s[i]
         /\ Append(s, f)[Len(s) + 1] = f
         /\ \A i \in DOMAIN s : i \in Nat /\ i < Len(s) + 1
  OBVIOUS

\* A sequence without its head.
LEMMA TailFrame ==
  ASSUME NEW s \in Seq(Frames), s # <<>>
  PROVE  /\ Tail(s) \in Seq(Frames) /\ Head(s) \in Frames
         /\ 1 \in DOMAIN s /\ Head(s) = s[1]
         /\ \A i \in DOMAIN Tail(s) : i \in Nat /\ i + 1 \in DOMAIN s /\ 1 < i + 1 /\ Tail(s)[i] = s[i + 1]
  OBVIOUS

\* Appending a later frame keeps the order.
LEMMA AppendIncreasing ==
  ASSUME NEW s \in Seq(Frames), NEW f \in Frames, Increasing(s), \A i \in DOMAIN s : s[i] < f
  PROVE  Increasing(Append(s, f))
  BY AppendFrame DEF Increasing

\* Frames that are dropped are frames.
LEMMA DropTypes ==
  ASSUME TypeOK, Drop
  PROVE  wire' = <<>> /\ peer' = "none" /\ lost' \subseteq Frames
<1>1. ToSet(wire) \subseteq Frames
  BY DEF TypeOK, ToSet
<1> QED
  BY <1>1 DEF TypeOK, Drop

\* A new frame is above every other.
LEMMA NewFrameFacts ==
  ASSUME IInv, NewFrame
  PROVE  /\ last' \in Frames /\ last' = last + 1
         /\ inGap' \subseteq Frames /\ inGap \subseteq inGap' /\ inGap' \subseteq inGap \union {last'}
         /\ ws = "open" => inGap' = inGap
         /\ \A i \in DOMAIN handled : handled[i] \in Nat /\ handled[i] < last'
         /\ \A i \in DOMAIN wire : wire[i] \in Nat /\ wire[i] < last'
         /\ \A i \in DOMAIN buffer : buffer[i] \in Nat /\ buffer[i] < last'
<1>1. last \in Nat /\ last' = last + 1 /\ last' \in Frames
  BY SocketAssumption DEF NewFrame, IInv, TypeOK, Frames
<1>2. \A s \in Seq(Frames) : \A i \in DOMAIN s : s[i] \in Nat
  BY SocketAssumption DEF Frames
<1>3. inGap' \subseteq Frames /\ inGap \subseteq inGap' /\ inGap' \subseteq inGap \union {last'}
  BY <1>1 DEF NewFrame, IInv, TypeOK
<1> QED
  BY <1>1, <1>2, <1>3 DEF NewFrame, IInv, TypeOK, Ordered

\* A new frame changes nothing for the older ones, stops or not.
LEMMA OlderFrames ==
  ASSUME IInv, NewFrame, stops \subseteq stops', stops' \subseteq stops \union {last'}
  PROVE  /\ last' \notin stops \union inGap
         /\ \A i \in DOMAIN handled : handled[i] \notin stops' \cap inGap'
         /\ \A i \in DOMAIN wire : wire[i] \notin stops' \cap inGap'
         /\ \A i \in DOMAIN buffer : buffer[i] \notin stops'
         /\ \A f \in stops' \union inGap' : f <= last'
<1>1. last \in Nat /\ last' = last + 1 /\ (\A f \in stops \union inGap : f \in Nat /\ f <= last)
  BY SocketAssumption, NewFrameFacts DEF IInv, TypeOK, StopsGone, Frames
<1>2. last' \notin stops \union inGap
  BY <1>1
<1>3. \A f \in stops' \union inGap' : f <= last'
  BY <1>1, NewFrameFacts
<1>4. \A x \in Nat : x < last' /\ x \notin stops \cap inGap => x \notin stops' \cap inGap'
  BY <1>1, NewFrameFacts
<1>5. \A x \in Nat : x < last' /\ x \notin stops => x \notin stops'
  BY <1>1
<1> QED
  BY <1>2, <1>3, <1>4, <1>5, NewFrameFacts DEF IInv, StopsGone

\* Every step keeps the invariant.
LEMMA StepKeeps == IInv /\ [Next]_vars => IInv'
<1> SUFFICES ASSUME IInv, [Next]_vars PROVE IInv'
  OBVIOUS
<1> USE SocketAssumption DEF IInv, TypeOK, Ordered, OneConnection, StopsGone, TimerOwned,
            pageVars, daemonVars, userVars
<1>0. <<>> \in Seq(Frames) /\ DOMAIN <<>> = {} /\ Increasing(<<>>)
  BY DEF Increasing
<1>1. CASE Open
  BY <1>0, <1>1 DEF Open, Flush, Flushed
<1>2. CASE Refused
  BY <1>2 DEF Refused, Fault, OnClose, Rearm, Doubled
<1>3. CASE Closed
  BY <1>3 DEF Closed, OnClose, Rearm, Doubled
<1>4. CASE Connect
  BY <1>4 DEF Connect
<1>5. CASE Unmount
  BY <1>5 DEF Unmount, ClearTimer
<1>6. CASE EnqueueOrSend
  <2>1. NewFrame
    BY <1>6 DEF EnqueueOrSend
  <2>2. /\ stops' = stops
        /\ last' \notin stops \union inGap
        /\ \A i \in DOMAIN handled : handled[i] \notin stops' \cap inGap'
        /\ \A i \in DOMAIN wire : wire[i] \notin stops' \cap inGap'
        /\ \A i \in DOMAIN buffer : buffer[i] \notin stops'
        /\ \A f \in stops' \union inGap' : f <= last'
    BY <1>6, <2>1, OlderFrames DEF EnqueueOrSend
  <2> USE <1>6, <2>1, NewFrameFacts DEF EnqueueOrSend
  <2>3. CASE ws = "open" /\ peer = "serving"
    <3>1. wire' = Append(wire, last') /\ lost' = lost
      BY <2>3 DEF WsSend
    <3>2. wire' \in Seq(Frames) /\ Increasing(wire')
      BY <3>1, AppendFrame, AppendIncreasing
    <3>3. \A i \in DOMAIN wire' : wire'[i] = last' \/ (i \in DOMAIN wire /\ wire'[i] = wire[i])
      BY <3>1, AppendFrame
    <3>4. TypeOK' /\ OneConnection' /\ TimerOwned'
      BY <2>3, <3>1, <3>2 DEF NewFrame
    <3>5. Ordered'
      BY <2>3, <3>1, <3>2, <3>3 DEF NewFrame
    <3>6. StopsGone'
      BY <2>3, <3>1, <3>2, <3>3, <2>2 DEF NewFrame
    <3> QED
      BY <3>4, <3>5, <3>6
  <2>4. CASE ws = "open" /\ peer # "serving"
    <3>1. wire' = wire /\ buffer' = buffer /\ lost' = lost \union {last'}
      BY <2>4 DEF WsSend
    <3>2. TypeOK' /\ OneConnection' /\ TimerOwned'
      BY <2>4, <3>1 DEF NewFrame
    <3>3. Ordered'
      BY <2>4, <3>1 DEF NewFrame
    <3>4. StopsGone'
      BY <2>4, <3>1, <2>2 DEF NewFrame
    <3> QED
      BY <3>2, <3>3, <3>4
  <2>5. CASE ws # "open"
    <3>1. peer = "none"
      BY <2>5 DEF NewFrame
    <3>2. buffer' = Append(buffer, last') /\ wire' = wire /\ lost' = lost
      BY <2>5 DEF Buffered
    <3>3. buffer' \in Seq(Frames) /\ Increasing(buffer')
      BY <3>2, AppendFrame, AppendIncreasing
    <3>4. \A i \in DOMAIN buffer' : buffer'[i] = last' \/ (i \in DOMAIN buffer /\ buffer'[i] = buffer[i])
      BY <3>2, AppendFrame
    <3>5. TypeOK' /\ OneConnection' /\ TimerOwned'
      BY <2>5, <3>1, <3>2, <3>3 DEF NewFrame
    <3>6. Ordered'
      BY <2>5, <3>1, <3>2, <3>3, <3>4 DEF NewFrame
    <3>7. StopsGone'
      BY <2>5, <3>1, <3>2, <3>3, <3>4, <2>2 DEF NewFrame
    <3> QED
      BY <3>5, <3>6, <3>7
  <2> QED
    BY <2>3, <2>4, <2>5
<1>7. CASE PressStop
  <2>1. NewFrame
    BY <1>7 DEF PressStop
  <2>2. /\ stops' = stops \union {last'}
        /\ last' \notin stops \union inGap
        /\ \A i \in DOMAIN handled : handled[i] \notin stops' \cap inGap'
        /\ \A i \in DOMAIN wire : wire[i] \notin stops' \cap inGap'
        /\ \A i \in DOMAIN buffer : buffer[i] \notin stops'
        /\ \A f \in stops' \union inGap' : f <= last'
    BY <1>7, <2>1, OlderFrames DEF PressStop
  <2> USE <1>7, <2>1, NewFrameFacts DEF PressStop
  <2>3. CASE ws = "open" /\ peer = "serving"
    <3>1. wire' = Append(wire, last') /\ lost' = lost
      BY <2>3 DEF WsSend
    <3>2. wire' \in Seq(Frames) /\ Increasing(wire')
      BY <3>1, AppendFrame, AppendIncreasing
    <3>3. \A i \in DOMAIN wire' : wire'[i] = last' \/ (i \in DOMAIN wire /\ wire'[i] = wire[i])
      BY <3>1, AppendFrame
    <3>4. TypeOK' /\ OneConnection' /\ TimerOwned'
      BY <2>3, <3>1, <3>2 DEF NewFrame
    <3>5. Ordered'
      BY <2>3, <3>1, <3>2, <3>3 DEF NewFrame
    <3>6. StopsGone'
      BY <2>3, <3>1, <3>2, <3>3, <2>2 DEF NewFrame
    <3> QED
      BY <3>4, <3>5, <3>6
  <2>4. CASE ws = "open" /\ peer # "serving"
    <3>1. wire' = wire /\ buffer' = buffer /\ lost' = lost \union {last'}
      BY <2>4 DEF WsSend
    <3>2. TypeOK' /\ OneConnection' /\ TimerOwned'
      BY <2>4, <3>1 DEF NewFrame
    <3>3. Ordered'
      BY <2>4, <3>1 DEF NewFrame
    <3>4. StopsGone'
      BY <2>4, <3>1, <2>2 DEF NewFrame
    <3> QED
      BY <3>2, <3>3, <3>4
  <2>5. CASE ws # "open"
    <3>1. wire' = wire /\ buffer' = buffer /\ lost' = lost
      BY <2>5 DEF UnsentStop
    <3>2. TypeOK' /\ OneConnection' /\ TimerOwned'
      BY <2>5, <3>1 DEF NewFrame
    <3>3. Ordered'
      BY <2>5, <3>1 DEF NewFrame
    <3>4. StopsGone'
      BY <2>5, <3>1, <2>2 DEF NewFrame
    <3> QED
      BY <3>2, <3>3, <3>4
  <2> QED
    BY <2>3, <2>4, <2>5
<1>8. CASE Handle
  <2>1. wire # <<>> /\ wire' = Tail(wire) /\ handled' = Append(handled, wire[1])
    BY <1>8, TailFrame DEF Handle
  <2>2. /\ wire' \in Seq(Frames) /\ wire[1] \in Frames
        /\ \A i \in DOMAIN wire' : i \in Nat /\ i + 1 \in DOMAIN wire /\ 1 < i + 1 /\ wire'[i] = wire[i + 1]
    BY <2>1, TailFrame
  <2>3. Increasing(wire')
    BY <2>2 DEF Increasing
  <2>4. Increasing(handled') /\ handled' \in Seq(Frames)
    BY <2>1, <2>2, TailFrame, AppendFrame, AppendIncreasing
  <2>5. Ordered'
    BY <1>8, <2>1, <2>2, <2>3, <2>4, TailFrame, AppendFrame DEF Handle, Increasing
  <2> QED
    BY <1>8, <2>1, <2>2, <2>4, <2>5, TailFrame, AppendFrame DEF Handle
<1>9. CASE HandlerRaises
  <2>1. wire' = <<>> /\ peer' = "none" /\ lost' \subseteq Frames
    BY <1>9, DropTypes DEF HandlerRaises
  <2>2. TypeOK'
    BY <1>0, <1>9, <2>1 DEF HandlerRaises, Fault
  <2> QED
    BY <1>0, <1>9, <2>1, <2>2 DEF HandlerRaises
<1>10. CASE Crash
  <2>1. wire' = <<>> /\ peer' = "none" /\ lost' \subseteq Frames
    BY <1>10, DropTypes DEF Crash
  <2>2. faults' \in 0 .. MaxFaults
    BY <1>10 DEF Crash, Fault
  <2>3. TypeOK'
    BY <1>0, <1>10, <2>1, <2>2 DEF Crash
  <2> QED
    BY <1>0, <1>10, <2>1, <2>3 DEF Crash
<1>11. CASE Restart
  BY <1>11 DEF Restart
<1>12. CASE Hangup
  BY <1>12 DEF Hangup
<1>13. CASE UNCHANGED vars
  BY <1>13 DEF vars
<1> QED
  BY <1>1, <1>2, <1>3, <1>4, <1>5, <1>6, <1>7, <1>8, <1>9, <1>10, <1>11, <1>12, <1>13
  DEF Next, Page, Daemon, Faulty, User, Done

\* The invariant holds throughout.
LEMMA Inductive == Spec => []IInv
BY InitHolds, StepKeeps, PTL DEF Spec

\* However often the connection breaks, the daemon handles the user's frames
\* in the order they were made and none twice.
THEOREM FramesInOrder == Spec => []HandledInOrder
<1>1. IInv => HandledInOrder
  BY DEF IInv, Ordered, HandledInOrder
<1> QED
  BY <1>1, Inductive, PTL

\* No stop pressed while there was no connection is ever carried out.
THEOREM StopsStayWithTheirConnection == Spec => []StopNotLate
<1>1. IInv => StopNotLate
  BY DEF IInv, StopsGone, StopNotLate
<1> QED
  BY <1>1, Inductive, PTL

\* Once the page was left, no timer and no late close event connects again.
THEOREM LeftForGood == Spec => UnmountIsFinal
<1>1. IInv /\ [Next]_vars => [~mounted => ws' # "connecting" \/ ws = "connecting"]_vars
  BY DEF IInv, TimerOwned, Next, Page, Daemon, Faulty, User, Done, Open, Refused, Closed, OnClose,
         Connect, Unmount, EnqueueOrSend, PressStop, NewFrame, Handle, Restart, Hangup,
         HandlerRaises, Crash, pageVars, vars
<1> QED
  BY <1>1, Inductive, PTL DEF Spec, UnmountIsFinal
=============================================================================
