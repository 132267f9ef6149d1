----------------------------- MODULE SessionRows -----------------------------
(***************************************************************************)
(* The `session` table and the statements daemon/sessions.py runs on it.   *)
(* Every statement is one SQLite transaction on a connection of its own,   *)
(* so it is atomic; a caller that needs two runs two, and another thread's *)
(* may come between (module ChatDesk).                                     *)
(*                                                                         *)
(* A title is the number of the request that supplied it, Untitled the     *)
(* placeholder; an SDK session id a number, 0 while none is recorded.  The *)
(* newest activity of a chat (its newest message, else its creation) is    *)
(* within auto_archive_days or it is not: that is all the sweep asks.      *)
(* status and updated_at are left out: nothing here depends on them but    *)
(* the order of a list.                                                    *)
(***************************************************************************)
EXTENDS Naturals, FiniteSets

CONSTANT Chats

Untitled == 0

VARIABLE row

Row == [made : BOOLEAN, title : Nat, userTitle : Nat, sdk : Nat,
        archived : BOOLEAN, deleted : BOOLEAN, starred : BOOLEAN,
        said : BOOLEAN,    \* a message row exists for the chat
        fresh : BOOLEAN]   \* the newest activity is recent

NoRow == [made |-> FALSE, title |-> Untitled, userTitle |-> Untitled, sdk |-> 0,
          archived |-> FALSE, deleted |-> FALSE, starred |-> FALSE,
          said |-> FALSE, fresh |-> FALSE]

\* What every surface shows: the user's override, else the generated title.
EffectiveTitle(c) == IF row[c].userTitle # Untitled THEN row[c].userTitle ELSE row[c].title

Made == {c \in Chats : row[c].made}

\* What the launch may reuse: live, on the default title, without a message.
\* It compares the generated title, not the effective one.
Empty == {c \in Made : ~row[c].archived /\ ~row[c].deleted
                         /\ row[c].title = Untitled /\ ~row[c].said}

\* What the sweep archives.
Stale == {c \in Made : ~row[c].archived /\ ~row[c].deleted
                         /\ ~row[c].starred /\ ~row[c].fresh}

NewRow == [NoRow EXCEPT !.made = TRUE, !.fresh = TRUE]

\* The table is empty, or earlier launches left one empty chat in it.
RowInit == \E old \in {s \in SUBSET Chats : \A a, b \in s : a = b} :
              row = [c \in Chats |-> IF c \in old THEN NewRow ELSE NoRow]

CreateChat(c) ==
    /\ ~row[c].made
    /\ row' = [row EXCEPT ![c] = NewRow]

\* The WHERE clause: only while the generated title is still the placeholder.
TakesTitle(c) == row[c].title = Untitled
SetGeneratedTitle(c, t) == row' = [row EXCEPT ![c].title = IF TakesTitle(c) THEN t ELSE @]
SetUserTitle(c, t)      == row' = [row EXCEPT ![c].userTitle = t]
SetSdk(c, s)            == row' = [row EXCEPT ![c].sdk = s]
SetArchived(c, on)      == row' = [row EXCEPT ![c].archived = on]
SetDeleted(c, on)       == row' = [row EXCEPT ![c].deleted = on]
SetStarred(c, on)       == row' = [row EXCEPT ![c].starred = on]

Resurface(c) == row' = [row EXCEPT ![c].archived = @ /\ row[c].deleted]

InsertMessage_AgeOfChat(c) == row' = [row EXCEPT ![c].said = TRUE]
\* append_message's own statement; the row carries the time it was written.
InsertMessage(c) == row' = [row EXCEPT ![c].said = TRUE, ![c].fresh = TRUE]

ArchiveStale ==
    row' = [c \in Chats |-> IF c \in Stale THEN [row[c] EXCEPT !.archived = TRUE] ELSE row[c]]

\* auto_archive_days pass without a message anywhere.
GrowOld == row' = [c \in Chats |-> [row[c] EXCEPT !.fresh = FALSE]]
=============================================================================
