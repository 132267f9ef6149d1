----------------------------- MODULE SurfaceView -----------------------------
(***************************************************************************)
(* One surface's transcript in its three places: the message rows in       *)
(* SQLite, the in-memory ViewStore and the browsers' views, and the        *)
(* coroutines that keep them together: record_activity, the broadcast_*    *)
(* functions, hydrate_surface and the connection part of ws_surface.       *)
(*                                                                         *)
(* The coroutines are the session's owner task (Owner) and one WebSocket   *)
(* handler per socket.  A database call runs in a worker thread: the       *)
(* others run between the call, its effect and its return, and it may      *)
(* raise.  hub.broadcast awaits one send after the other.                  *)
(***************************************************************************)
EXTENDS Naturals, Sequences, FiniteSets

CONSTANTS Sockets,
          Early,      \* the sockets connected when the behaviour starts
          Texts,      \* segments the owner task records, each once
          Ask,        \* a picker the owner task records
          Bubble,     \* the entry that shows the picker's answer
          MaxBills,   \* bound: LLM calls billed
          MaxCrashes, \* bound: restarts of the daemon
          None

Owner == "owner"
Procs == Sockets \union {Owner}
Entries == Texts \union {Ask, Bubble}
Events == Entries \union {"lamp", "answer", "tokens"}

ASSUME ViewAssumption ==
    /\ Early \subseteq Sockets /\ Owner \notin Sockets
    /\ Ask \notin Texts /\ Bubble \notin Texts \union {Ask}
    /\ Entries \cap {"lamp", "answer", "tokens"} = {} /\ None \notin Events
    /\ MaxBills \in Nat /\ MaxCrashes \in Nat

VARIABLES
    \* SQLite
    db, dbAnswered,         \* message rows in id order; the picker's answer column
    billed,                 \* the sum of the token_usage rows
    unsaved,                \* history: entries in memory whose append_message raised
    unseeded,               \* history: the total was not read after the rows were
    \* the ViewStore
    mem, hydrated,
    rowKnown, answered,     \* message_id and answer of the picker's entry
    tokens, lamp,
    \* the sockets' handlers and the views behind them
    conn,                   \* "off", "list", "listed", "totals", "seed", "open"
    rows,                   \* what list_messages returned to a hydrating socket
    total,                  \* what session_totals returned to it
    feed, shownLamp, picker, \* what the browser shows; picker: "none", "open", "locked"
    doubled,                \* history: in the snapshot the socket got, and still to be sent
    \* the coroutines
    at, event, todo,        \* the await, what is being done, the sockets not yet sent to
    woken,                  \* a socket was open since the daemon started
    said,                   \* history: what the owner recorded
    raced,                  \* history: a socket connected while another one hydrated
    crashes

faultVars == <<unsaved, unseeded>>
dbVars   == <<db, dbAnswered, billed, faultVars>>
memVars  == <<mem, hydrated, rowKnown, answered, tokens, lamp>>
connVars == <<conn, rows, total>>
viewVars == <<feed, shownLamp, picker, doubled>>
procVars == <<at, event, todo>>
vars == <<dbVars, memVars, connVars, viewVars, procVars, woken, said, raced, crashes>>

Elems(s) == {s[i] : i \in DOMAIN s}
Count(e, s) == Cardinality({i \in DOMAIN s : s[i] = e})
Rows == [seq : Seq(Entries), locked : BOOLEAN]

TypeOK ==
    /\ db \in Seq(Entries) /\ dbAnswered \in BOOLEAN /\ billed \in 0 .. MaxBills
    /\ mem \in Seq(Entries) /\ tokens \in Nat
    /\ {hydrated, rowKnown, answered, lamp, woken} \subseteq BOOLEAN
    /\ conn \in [Sockets -> {"off", "list", "listed", "totals", "seed", "open"}]
    /\ rows \in [Sockets -> Rows \union {None}] /\ total \in [Sockets -> 0 .. MaxBills]
    /\ unsaved \subseteq Entries /\ unseeded \in BOOLEAN
    /\ feed \in [Sockets -> Seq(Entries)] /\ shownLamp \in [Sockets -> BOOLEAN]
    /\ doubled \in [Sockets -> SUBSET Entries]
    /\ picker \in [Sockets -> {"none", "open", "locked"}]
    /\ at \in [Procs -> {"idle", "insert", "inserted", "lock", "bill", "billed", "push"}]
    /\ event \in [Procs -> Events \union {None}] /\ todo \in [Procs -> SUBSET Sockets]
    /\ said \subseteq Entries /\ raced \in BOOLEAN /\ crashes \in 0 .. MaxCrashes

Init ==
    /\ db = <<>> /\ dbAnswered = FALSE /\ billed = 0
    /\ mem = <<>> /\ hydrated = (Early # {}) /\ rowKnown = FALSE /\ answered = FALSE
    /\ tokens = 0 /\ lamp = FALSE
    /\ conn = [c \in Sockets |-> IF c \in Early THEN "open" ELSE "off"]
    /\ rows = [c \in Sockets |-> None] /\ total = [c \in Sockets |-> 0]
    /\ unsaved = {} /\ unseeded = FALSE
    /\ feed = [c \in Sockets |-> <<>>] /\ shownLamp = [c \in Sockets |-> FALSE]
    /\ picker = [c \in Sockets |-> "none"] /\ doubled = [c \in Sockets |-> {}]
    /\ at = [p \in Procs |-> "idle"] /\ event = [p \in Procs |-> None]
    /\ todo = [p \in Procs |-> {}]
    /\ woken = (Early # {}) /\ said = {} /\ raced = FALSE /\ crashes = 0

Open == {c \in Sockets : conn[c] = "open"}
Idle(p) == at[p] = "idle"

(***************************************************************************)
(* record_activity and hub.broadcast                                       *)
(***************************************************************************)
Goto(p, label, ev) ==
    /\ at' = [at EXCEPT ![p] = label]
    /\ event' = [event EXCEPT ![p] = ev]
    /\ UNCHANGED todo

\* The subscribers are listed when the broadcast starts.
Broadcast(p, ev) ==
    /\ at' = [at EXCEPT ![p] = "push"]
    /\ event' = [event EXCEPT ![p] = ev]
    /\ todo' = [todo EXCEPT ![p] = Open]

\* First into the store ...
Record(p, e) == mem' = Append(mem, e) /\ Goto(p, "insert", e)

\* ... then the row is committed by a worker thread ...
Insert(p) ==
    /\ at[p] = "insert"
    /\ db' = Append(db, event[p])
    /\ Goto(p, "inserted", event[p])
    /\ UNCHANGED <<dbAnswered, billed, faultVars, memVars, connVars, viewVars, woken, said, raced, crashes>>

\* ... the entry learns its row id, and the subscribers are told.
Inserted(p) ==
    /\ at[p] = "inserted"
    /\ rowKnown' = (rowKnown \/ (event[p] = Ask /\ Ask \in Elems(mem)))
    /\ Broadcast(p, event[p])
    /\ UNCHANGED <<mem, hydrated, answered, tokens, lamp>>
    /\ UNCHANGED <<dbVars, connVars, viewVars, woken, said, raced, crashes>>

\* The reducer of the browser: an activity is appended, an answer locks the
\* pickers it finds, a flag is replaced (with the value sent, the current one).
Deliver(c, ev) ==
    /\ feed' = IF ev \in Entries THEN [feed EXCEPT ![c] = Append(@, ev)] ELSE feed
    /\ shownLamp' = IF ev = "lamp" THEN [shownLamp EXCEPT ![c] = lamp] ELSE shownLamp
    /\ picker' = CASE ev = Ask -> [picker EXCEPT ![c] = "open"]
                   [] ev = "answer" /\ picker[c] = "open" -> [picker EXCEPT ![c] = "locked"]
                   [] OTHER -> picker
    /\ UNCHANGED doubled

\* A send to a connection that is gone fails and is skipped.
Remaining_Aborted(p, c) == IF c \in Open THEN todo[p] \ {c} ELSE {}
Remaining(p, c) == todo[p] \ {c}

Send(p) ==
    /\ at[p] = "push"
    /\ \E c \in todo[p] :
         /\ todo' = [todo EXCEPT ![p] = Remaining(p, c)]
         /\ IF c \in Open THEN Deliver(c, event[p]) ELSE UNCHANGED viewVars
    /\ UNCHANGED <<at, event, dbVars, memVars, connVars, woken, said, raced, crashes>>

\* The broadcast is over; a newly applied answer goes on with its bubble.
Sent(p) ==
    /\ at[p] = "push" /\ todo[p] = {}
    /\ IF event[p] = "answer"
       THEN Record(p, Bubble)
       ELSE Goto(p, "idle", None) /\ UNCHANGED mem
    /\ UNCHANGED <<hydrated, rowKnown, answered, tokens, lamp>>
    /\ UNCHANGED <<dbVars, connVars, viewVars, woken, said, raced, crashes>>

(***************************************************************************)
(* What the owner task does: record a segment, set the indicator, bill.    *)
(***************************************************************************)
Say(e) ==
    /\ woken /\ Idle(Owner) /\ e \notin said
    /\ Record(Owner, e)
    /\ said' = said \union {e}
    /\ UNCHANGED <<hydrated, rowKnown, answered, tokens, lamp>>
    /\ UNCHANGED <<dbVars, connVars, viewVars, woken, raced, crashes>>

SetLamp ==
    /\ woken /\ Idle(Owner)
    /\ lamp' = ~lamp
    /\ Broadcast(Owner, "lamp")
    /\ UNCHANGED <<mem, hydrated, rowKnown, answered, tokens>>
    /\ UNCHANGED <<dbVars, connVars, viewVars, woken, said, raced, crashes>>

\* _record_usage: the row first, the running total after it.
Bill ==
    /\ woken /\ Idle(Owner) /\ billed < MaxBills
    /\ Goto(Owner, "bill", "tokens")
    /\ UNCHANGED <<dbVars, memVars, connVars, viewVars, woken, said, raced, crashes>>

InsertUsage ==
    /\ at[Owner] = "bill"
    /\ billed' = billed + 1
    /\ Goto(Owner, "billed", "tokens")
    /\ UNCHANGED <<db, dbAnswered, faultVars, memVars, connVars, viewVars, woken, said, raced, crashes>>

AddTokens ==
    /\ at[Owner] = "billed"
    /\ tokens' = tokens + 1
    /\ Broadcast(Owner, "tokens")
    /\ UNCHANGED <<mem, hydrated, rowKnown, answered, lamp>>
    /\ UNCHANGED <<dbVars, connVars, viewVars, woken, said, raced, crashes>>

(***************************************************************************)
(* An answer from a socket: set_answer, its row, its broadcast, the bubble.*)
(***************************************************************************)
NewlyAnswered_Any == Ask \in Elems(mem)
NewlyAnswered == Ask \in Elems(mem) /\ ~answered

Answer(c) ==
    /\ c \in Open /\ Idle(c)
    /\ Ask \in Elems(feed[c])
    /\ NewlyAnswered
    /\ answered' = TRUE
    /\ IF rowKnown THEN Goto(c, "lock", "answer") ELSE Broadcast(c, "answer")
    /\ UNCHANGED <<mem, hydrated, rowKnown, tokens, lamp>>
    /\ UNCHANGED <<dbVars, connVars, viewVars, woken, said, raced, crashes>>

LockRow(c) ==
    /\ at[c] = "lock"
    /\ dbAnswered' = TRUE
    /\ Broadcast(c, "answer")
    /\ UNCHANGED <<db, billed, faultVars, memVars, connVars, viewVars, woken, said, raced, crashes>>

(***************************************************************************)
(* Connecting: hydrate_surface, the snapshot, hub.register.                *)
(***************************************************************************)
\* The snapshot is taken when the hydration is over.
Snapshot_Stale(c) == IF rows[c] = None THEN mem ELSE <<>>
Snapshot(c) == mem

\* Entries that are in memory already and whose broadcast has not begun.
Recording == {event[p] : p \in {q \in Procs : at[q] \in {"insert", "inserted"}}}

\* Snapshot and registration are one step; a send under way goes to the
\* browser's previous connection.
Join(c) ==
    /\ conn' = [conn EXCEPT ![c] = "open"]
    /\ feed' = [feed EXCEPT ![c] = Snapshot(c)]
    /\ doubled' = [doubled EXCEPT ![c] = Recording]
    /\ shownLamp' = [shownLamp EXCEPT ![c] = lamp]
    /\ picker' = [picker EXCEPT ![c] = IF Ask \notin Elems(mem) THEN "none"
                                       ELSE IF answered THEN "locked" ELSE "open"]
    /\ rows' = [rows EXCEPT ![c] = None] /\ total' = [total EXCEPT ![c] = 0]
    /\ todo' = [p \in Procs |-> todo[p] \ {c}]
    /\ UNCHANGED <<at, event>>
    /\ woken' = TRUE

Connect(c) ==
    /\ conn[c] = "off"
    /\ raced' = (raced \/ \E d \in Sockets : conn[d] \notin {"off", "open"})
    /\ UNCHANGED <<dbVars, memVars, said, crashes>>
    /\ IF hydrated
       THEN Join(c)
       ELSE /\ conn' = [conn EXCEPT ![c] = "list"]
            /\ UNCHANGED <<rows, total, viewVars, procVars, woken>>

\* The worker thread reads the rows ...
ListRows(c) ==
    /\ conn[c] = "list"
    /\ rows' = [rows EXCEPT ![c] = [seq |-> db, locked |-> dbAnswered]]
    /\ conn' = [conn EXCEPT ![c] = "listed"]
    /\ UNCHANGED <<total, dbVars, memVars, viewVars, procVars, woken, said, raced, crashes>>

MarkHydrated_Forgotten == UNCHANGED hydrated
MarkHydrated == hydrated' = TRUE

\* ... they replace the transcript in memory ...
Load(c) ==
    /\ conn[c] = "listed"
    /\ mem' = rows[c].seq
    /\ answered' = rows[c].locked
    /\ rowKnown' = (Ask \in Elems(rows[c].seq))
    /\ MarkHydrated
    /\ conn' = [conn EXCEPT ![c] = "totals"]
    /\ UNCHANGED <<tokens, lamp, rows, total>>
    /\ UNCHANGED <<dbVars, viewVars, procVars, woken, said, raced, crashes>>

SumUsage(c) ==
    /\ conn[c] = "totals"
    /\ total' = [total EXCEPT ![c] = billed]
    /\ conn' = [conn EXCEPT ![c] = "seed"]
    /\ UNCHANGED <<rows, dbVars, memVars, viewVars, procVars, woken, said, raced, crashes>>

Seed_Forgotten(c) == tokens
Seed(c) == total[c]

\* ... and the token total is set to the persisted sum.
SeedAndJoin(c) ==
    /\ conn[c] = "seed"
    /\ tokens' = Seed(c)
    /\ Join(c)
    /\ UNCHANGED <<mem, hydrated, rowKnown, answered, lamp>>
    /\ UNCHANGED <<dbVars, said, raced, crashes>>

Gone(c) == /\ feed' = [feed EXCEPT ![c] = <<>>]
           /\ shownLamp' = [shownLamp EXCEPT ![c] = FALSE]
           /\ picker' = [picker EXCEPT ![c] = "none"]
           /\ doubled' = [doubled EXCEPT ![c] = {}]

\* The handler notices that its browser is gone when it awaits the next frame.
Disconnect(c) ==
    /\ c \in Open /\ Idle(c)
    /\ conn' = [conn EXCEPT ![c] = "off"]
    /\ Gone(c)
    /\ UNCHANGED <<rows, total, dbVars, memVars, procVars, woken, said, raced, crashes>>

(***************************************************************************)
(* A database call raises, without an effect; append_message may also      *)
(* raise after its commit (it resurfaces the chat of a user's line).       *)
(***************************************************************************)
\* The turn of the owner task ends; a socket's handler ends with its connection.
CallFails(p) ==
    /\ at[p] \in {"insert", "inserted", "lock", "bill"}
    /\ unsaved' = unsaved \union (IF at[p] \in {"insert", "inserted"} THEN {event[p]} ELSE {})
    /\ Goto(p, "idle", None)
    /\ IF p \in Sockets
       THEN conn' = [conn EXCEPT ![p] = "off"] /\ Gone(p)
       ELSE UNCHANGED <<conn, viewVars>>
    /\ UNCHANGED <<db, dbAnswered, billed, unseeded, memVars, rows, total, woken, said, raced, crashes>>

\* The rows, or the total after them, cannot be read: the connection is refused.
HydrationFails(c) ==
    /\ conn[c] \in {"list", "totals"}
    /\ conn' = [conn EXCEPT ![c] = "off"]
    /\ rows' = [rows EXCEPT ![c] = None]
    /\ unseeded' = (unseeded \/ conn[c] = "totals")
    /\ UNCHANGED <<db, dbAnswered, billed, unsaved, total>>
    /\ UNCHANGED <<memVars, viewVars, procVars, woken, said, raced, crashes>>

\* The daemon dies and starts again: only the database is left.
Restart ==
    /\ crashes < MaxCrashes
    /\ crashes' = crashes + 1
    /\ mem' = <<>> /\ hydrated' = FALSE /\ rowKnown' = FALSE /\ answered' = FALSE
    /\ tokens' = 0 /\ lamp' = FALSE /\ woken' = FALSE
    /\ conn' = [c \in Sockets |-> "off"]
    /\ rows' = [c \in Sockets |-> None] /\ total' = [c \in Sockets |-> 0]
    /\ feed' = [c \in Sockets |-> <<>>] /\ shownLamp' = [c \in Sockets |-> FALSE]
    /\ picker' = [c \in Sockets |-> "none"] /\ doubled' = [c \in Sockets |-> {}]
    /\ unsaved' = {} /\ unseeded' = FALSE
    /\ at' = [p \in Procs |-> "idle"] /\ event' = [p \in Procs |-> None]
    /\ todo' = [p \in Procs |-> {}]
    /\ UNCHANGED <<db, dbAnswered, billed, said, raced>>

Next ==
    \/ \E p \in Procs : Insert(p) \/ Inserted(p) \/ Send(p) \/ Sent(p) \/ CallFails(p)
    \/ \E e \in Texts \union {Ask} : Say(e)
    \/ SetLamp \/ Bill \/ InsertUsage \/ AddTokens
    \/ \E c \in Sockets : \/ Answer(c) \/ LockRow(c)
                          \/ Connect(c) \/ ListRows(c) \/ Load(c) \/ SumUsage(c)
                          \/ SeedAndJoin(c) \/ HydrationFails(c) \/ Disconnect(c)
    \/ Restart

Spec == Init /\ [][Next]_vars

(***************************************************************************)
(* Properties.                                                             *)
(***************************************************************************)
Quiet == \A p \in Procs : Idle(p)

\* A browser that connects at any moment misses nothing: once nothing is in
\* flight it shows the true indicator, and each entry as often as the transcript
\* has it (snapshot and register with no await between, ws_surface).  An entry
\* that was being written when it connected is shown once more: it came with the
\* snapshot and is broadcast after its row (record_activity, applyMessage).  One
\* whose insert raised was never broadcast: who was connected then misses it.
ViewConverges ==
    ~raced /\ Quiet =>
        \A c \in Open :
          /\ shownLamp[c] = lamp
          /\ \A e \in Entries \ unsaved :
               Count(e, feed[c]) = Count(e, mem) + (IF e \in doubled[c] THEN 1 ELSE 0)
          /\ \A e \in unsaved : Count(e, feed[c]) <= Count(e, mem)

\* What was recorded stays: a row that was written is in the transcript a
\* browser can see, also after a restart (hydrate_surface), and what is in the
\* transcript has its row, unless its insert raised (record_activity).
RecordedStays ==
    ~raced /\ Quiet /\ Open # {} =>
        Elems(db) \subseteq Elems(mem) /\ Elems(mem) \ unsaved \subseteq Elems(db)

\* However often a picker is answered, its bubble is appended once (answer).
\* After a restart this needs AnswerPersisted.
BubbleOnce == ~raced /\ crashes = 0 => Count(Bubble, mem) <= 1 /\ Count(Bubble, db) <= 1

\* The running total is the persisted sum (broadcast_tokens, seed_tokens), unless
\* a hydration read the rows and then failed on the total: the surface is marked
\* by then, and no later connection reads the total.
TokensTrue == ~raced /\ ~unseeded /\ Quiet /\ Open # {} => tokens = billed

\* Hydration does not take away what was recorded live ("or clobber entries
\* recorded live since", hydrate_surface).
HydrationKeepsLive == [][hydrated /\ hydrated' => Elems(mem) \subseteq Elems(mem')]_vars

\* What a browser can be shown has its row, is about to get it, or its insert
\* raised, also while hydrations race (record_activity, load_activity).
MemoryIsWritten ==
    \A e \in Elems(mem) : \/ e \in Elems(db) \union unsaved
                          \/ \E p \in Procs : at[p] = "insert" /\ event[p] = e

\* An answered picker is still answered after a restart ("so an answered
\* picker re-renders locked after a daemon restart", broadcast_answer).
AnswerPersisted == [][Restart /\ {Ask, Bubble} \subseteq Elems(db) => dbAnswered]_vars

\* Every browser sees an answered picker locked ("push it to subscribers so
\* the picker locks to the answered state live", broadcast_answer).
AnswerSeen == Quiet /\ answered => \A c \in Open : picker[c] # "open"
=============================================================================
