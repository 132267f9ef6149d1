------------------------------ MODULE TurnQueue ------------------------------
(***************************************************************************)
(* What a chat session promises about user turns, whatever else it does:   *)
(* turns run one after the other in the order they were submitted, each at *)
(* most once; a turn skipped while it waits never runs, and none that was  *)
(* not reported as skipped is left out until the session closes and drops  *)
(* the turns still waiting.                                                *)
(***************************************************************************)
EXTENDS Naturals, Sequences

CONSTANTS Turns, Skippable

VARIABLES submitted, \* the turns submitted so far, in order
          waiting,   \* the turns that will run
          served,    \* the turns that were run, in order
          told,      \* the turns reported as skipped
          closed

vars == <<submitted, waiting, served, told, closed>>

Init == submitted = <<>> /\ waiting = {} /\ served = <<>> /\ told = {}
        /\ closed = FALSE

Seen(t) == \E i \in DOMAIN submitted : submitted[i] = t
Earlier(t, u) == \E i, j \in DOMAIN submitted : i < j /\ submitted[i] = t /\ submitted[j] = u

\* A turn submitted to a closed session is not queued.
Submit(t) ==
    /\ ~Seen(t)
    /\ submitted' = Append(submitted, t)
    /\ waiting' = IF closed THEN waiting ELSE waiting \union {t}
    /\ UNCHANGED <<served, told, closed>>

\* A session that closed may still report a skip of what it dropped.
Skip(t) ==
    /\ t \in Skippable /\ Seen(t)
    /\ t \in waiting \/ closed
    /\ waiting' = waiting \ {t}
    /\ told' = told \union {t}
    /\ UNCHANGED <<submitted, served, closed>>

Serve(t) ==
    /\ t \in waiting
    /\ \A u \in waiting \ {t} : Earlier(t, u)
    /\ served' = Append(served, t)
    /\ waiting' = waiting \ {t}
    /\ UNCHANGED <<submitted, told, closed>>

Close ==
    /\ ~closed
    /\ closed' = TRUE
    /\ waiting' = {}
    /\ UNCHANGED <<submitted, served, told>>

Next == Close \/ \E t \in Turns : Submit(t) \/ Skip(t) \/ Serve(t)
Spec == Init /\ [][Next]_vars
=============================================================================
