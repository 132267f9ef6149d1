----------------------------- MODULE ReplyPairing -----------------------------
(***************************************************************************)
(* Which prompt a reply stands under: AgentSession with a history variable *)
(* that remembers whether the connected client's stream may hold what a    *)
(* later turn would take for its own response.  It restricts no step.      *)
(***************************************************************************)
EXTENDS AgentSession

VARIABLE leaked

\* The code that reads responses to their end is _attempt_turn and
\* _drain_interrupted.  A response is not read to its end when
\*   - a database call raises while one of its messages is relayed,
\*   - an interrupted run ends without a terminal result, or
\*   - the drain gives up on a CLI that is still at it;
\* and the CLI gets ahead of a prompt when
\*   - it speaks unasked before it takes the prompt up, or
\*   - it spoke unasked and was not read to the end when the prompt is sent.
LeftUnread ==
    \/ RelayFails /\ pc = "stream" /\ Head(stream).kind = "asst"
    \/ CliInterrupt /\ cliRun \in Turns /\ stream' = stream
    \/ DrainTimeout /\ (cliRun \in Turns \/ cliIn # <<>>)

SpokenAhead ==
    \/ CliReactToTask /\ cliIn # <<>>
    \/ SendQuery /\ Agent \in {cliRun} \union {m.by : m \in Elems(stream)}

\* A new client has a new stream; only a message held back outlives the old.
Remember ==
    leaked' = \/ leaked /\ (Connect => heldBack # None)
              \/ LeftUnread \/ SpokenAhead

PairInit == Init /\ leaked = FALSE
PairNext == Next /\ Remember
PairSpec == PairInit /\ [][PairNext]_<<vars, leaked>>

\* A reply is shown as the answer to a prompt other than its own, or a prompt's
\* own reply as nobody's, only by a client on whose stream a response was left
\* unread or the CLI spoke ahead of a prompt; a reopened client is clean again
\* ("relayed against the wrong prompt and shifting every later reply down one",
\* _attempt_turn; the idle read of _await_work).
MisplacedOnlyAfterLeak ==
    [][\A x \in relays' \ relays :
          (x[1] \in Turns \/ x[2] \in Turns) /\ x[1] # x[2] => leaked]_<<vars, leaked>>
=============================================================================
